------------------------- MODULE MemoryWorkerProofs -------------------------
(***************************************************************************)
(* Proofs about memory curation: for any number of processes, notes,       *)
(* conversations and jobs, through deaths, replays and lapsed leases.      *)
(*                                                                         *)
(* The invariant has ten parts.  JournalOK, ThreadsOK and NotesOK are the  *)
(* types, with what a thread must know at each place.  The others each     *)
(* carry one property:                                                     *)
(*   LateOK      a worker told to stop is past its write or on the way out *)
(*   AttemptsOK  a job nobody will finish has an attempt to spare          *)
(*   SectionsOK  sections are in a note only when their record is          *)
(*               journaled, and a record adds one section to what it saw   *)
(*   EditsOK     an edit is in the note and in what a writer compared      *)
(*   SerialOK    one worker is busy, under a live lease, until a lease     *)
(*               lapses under a living worker                              *)
(*   BatchesOK   the progress of a conversation is the start of its        *)
(*               unsettled batch, whose last segment alone carries the end *)
(*   WholeOK     the operations a worker has passed are in the journal     *)
(* Steps are first sorted by what they do to the state (StepKinds): work   *)
(* on a job, the end of run_once, a claim, a death, the user, time, and    *)
(* what leaves jobs, threads and notes alone.                              *)
(***************************************************************************)
EXTENDS MemoryWorker, SequenceTheorems, WellFoundedInduction, TLAPS

\* What the variables hold.
Entries  == ({"user"} \X Nat) \cup ({"section"} \X JobIds \X Nat \X Nat)
Contents == Seq(Entries)
Packets  == {NoResult} \cup [Notes -> Contents]
Verdicts == {"approved", "deferred", "abstained", "rejected"}
Results  == {r \in [state : Verdicts, ops : Seq(Operation), seen : Packets] :
                Len(r.ops) <= MaxOperations}
Records  == [before : Contents, done : {"no", "yes"}, after : Contents]
JobRecords ==
    [next : 0 .. MaxTurns, state : Held \cup Waiting \cup Terminal,
     result : {NoResult} \cup Results, packet : Packets, attempts : Nat,
     retry : {"due", "later"}, lease : {"none", "live", "lapsed"}]

Claims ==
    [job : {NoResult} \cup JobIds, attempt : Nat, packet : Packets,
     result : {NoResult} \cup Results, op : Nat, record : {NoResult} \cup Records,
     outcome : {"none", "deferred"} \cup Terminal]

\* The journal has its types.
JournalOK ==
    /\ turns \in [Conversations -> 0 .. MaxTurns] /\ progress \in [Conversations -> 0 .. MaxTurns]
    /\ DOMAIN jobs \subseteq JobIds /\ jobs \in [DOMAIN jobs -> JobRecords]
    /\ DOMAIN operations \subseteq NewNotes /\ operations \in [DOMAIN operations -> Records]

\* The places of a thread: with a record at hand, inside apply_verified, all.
Recorded == {"journaling", "comparing", "writing", "written"}
Writing == Recorded \cup {"applying"}
Places == Writing \cup {"idle", "claimed", "prepared", "leased", "curating", "decided", "approved",
                        "finishing", "failing"}

\* The notes and the edits have their types.
NotesOK ==
    /\ notes \in [AllNotes -> Contents]
    /\ edits \in Seq([note : AllNotes, how : {"edit", "delete"}])
    /\ crashes \in Nat /\ overruns \in Nat

\* A result that is applied.
Accepted(result) == result \in Results /\ result.state = "approved"

\* What a thread must know at a place.
Fits(place, m) ==
    /\ place = "idle" => m.job = NoResult
    /\ place # "idle" => m.job \in DOMAIN jobs
    /\ place = "decided" => m.result \in Results
    /\ place \in Writing \cup {"approved"} => Accepted(m.result)
    /\ place \in Writing => m.op # 0
    /\ place \in Recorded => m.op <= Len(m.result.ops) /\ m.record \in Records
    /\ place = "finishing" => m.outcome # "none"

\* Every thread knows what it must at its place.
ThreadsOK ==
    /\ at \in [Workers -> Places] /\ mine \in [Workers -> Claims]
    /\ \A w \in Workers : Fits(at[w], mine[w])

\* A worker that wrote since it was told to stop has that write behind it.
LateOK ==
    /\ late \in [Workers -> {0, 1}] /\ cancel \in [Workers -> {"clear", "set"}]
    /\ \A w \in Workers : late[w] = 1 =>
           cancel[w] = "set" /\ at[w] \in {"written", "applying", "failing", "finishing"}

\* A job nobody will finish, its lease lapsed or its holder gone, was attempted
\* less often than is allowed: its next claim counts as one attempt more.
Allowed == MaxAttempts + crashes + overruns
Orphaned(j) ==
    \/ jobs[j].lease = "lapsed"
    \/ jobs[j].lease = "live" /\ \A w \in Workers : mine[w].job # j
AttemptsOK == \A j \in DOMAIN jobs :
    /\ jobs[j].attempts <= Allowed
    /\ Orphaned(j) => jobs[j].attempts < Allowed
    /\ jobs[j].state = "queued" => jobs[j].attempts = 0

\* Notes and records hold the section of an operation once, and only when it is
\* in the journal or, for its own record, about to be put there.
SectionOf(e, o) == e[1] = "section" /\ e[2] = o[1] /\ e[3] = o[2]
Holds(s, o) == \E i \in 1 .. Len(s) : SectionOf(s[i], o)
Once(s) == \A i, k \in 1 .. Len(s) : s[i][1] = "section" /\ s[k][1] = "section"
              /\ s[i][2] = s[k][2] /\ s[i][3] = s[k][3] => i = k
Within(s, t) == \A i \in 1 .. Len(s) : \E k \in 1 .. Len(t) : t[k] = s[i]
RecordOK(record, o) ==
    /\ Once(record.after) /\ Within(record.before, record.after)
    /\ \A p \in NewNotes : Holds(record.after, p) => p = o \/ p \in DOMAIN operations
SectionsOK ==
    /\ \A n \in AllNotes :
           Once(notes[n]) /\ \A p \in NewNotes : Holds(notes[n], p) => p \in DOMAIN operations
    /\ \A o \in DOMAIN operations : RecordOK(operations[o], o)
    /\ \A w \in Workers : at[w] \in Recorded => RecordOK(mine[w].record, <<mine[w].job, mine[w].op>>)
    /\ \A w \in Workers : at[w] \in Recorded \ {"journaling"} => Journaled(w)

\* An edit is in its note, and in what a worker about to write found there.
Gone(e) == \E d \in DOMAIN edits : d >= e /\ edits[d] = [note |-> edits[e].note, how |-> "delete"]
Has(s, x) == \E i \in 1 .. Len(s) : s[i] = x
Kept(e) == Gone(e) \/
    /\ Has(notes[edits[e].note], <<"user", e>>)
    /\ \A w \in Workers : at[w] = "writing" /\ Path(w) = edits[e].note
           => Has(mine[w].record.before, <<"user", e>>)
EditsOK == \A e \in DOMAIN edits \ exposed : Kept(e)

\* One worker is busy, and its lease is live.
Busy(w) == at[w] # "idle"
SerialOK == overruns = 0 =>
    /\ \A w, v \in Workers : Busy(w) /\ Busy(v) => w = v
    /\ \A w \in Workers : Busy(w) =>
           jobs[mine[w].job].state \in Held /\ jobs[mine[w].job].lease = "live"

\* The batches of a table of jobs, with how far each conversation was reached.
Settled(table, j) == table[j].state \in Terminal
Batched(i, j) == i.conv = j.conv /\ i.start = j.start
LowerSettled(table, j) ==
    \A i \in DOMAIN table : Batched(i, j) /\ i.segment < j.segment => Settled(table, i)
BatchIn(table, reached, j) ==
    /\ ~ Settled(table, j) => reached[j.conv] = j.start
    /\ table[j].next # j.start =>
           j.start < table[j].next /\ \A i \in DOMAIN table : Batched(i, j) => i.segment <= j.segment
    /\ [conv |-> j.conv, start |-> j.start, segment |-> 0] \in DOMAIN table
    /\ table[j].state # "queued" => LowerSettled(table, j)
CoveredIn(table, reached, c) ==
    \A t \in 0 .. reached[c] - 1 :
        \E j \in DOMAIN table : j.conv = c /\ j.start <= t /\ t < table[j].next
BatchesIn(table, reached) ==
    /\ \A j \in DOMAIN table : BatchIn(table, reached, j)
    /\ \A c \in Conversations : CoveredIn(table, reached, c)
BatchesOK == overruns = 0 => BatchesIn(jobs, progress)

\* The operations a worker has passed are in the journal, marked done there unless
\* a worker that outlived its lease put its own record over one.
InJournal(j, k) ==
    <<j, k>> \in DOMAIN operations /\ (overruns = 0 => operations[<<j, k>>].done = "yes")
WholeOK ==
    /\ \A w \in Workers : at[w] \in Writing => \A k \in 1 .. mine[w].op - 1 : InJournal(mine[w].job, k)
    /\ \A w \in Workers : at[w] = "finishing" /\ mine[w].outcome = "applied" =>
          mine[w].result \in Results /\ \A k \in 1 .. Len(mine[w].result.ops) : InJournal(mine[w].job, k)
    /\ \A j \in DOMAIN jobs : jobs[j].state = "applied" =>
          jobs[j].result \in Results /\ \A k \in 1 .. Len(jobs[j].result.ops) : InJournal(j, k)

(***************************************************************************)
(* Greatest elements                                                       *)
(***************************************************************************)

\* The naturals are well founded.
LEMMA NatsAreWellFounded == IsWellFoundedOn({p \in Nat \X Nat : p[1] < p[2]}, Nat)
<1>1. {p \in Nat \X Nat : p[1] < p[2]} = OpToRel(<, Nat)
  BY DEF OpToRel
<1> QED
  BY <1>1, NatLessThanWellFounded

\* A set of naturals that is not empty has a least element.
LEMMA LeastNatural ==
    ASSUME NEW S \in SUBSET Nat, S # {}
    PROVE  \E m \in S : \A n \in S : m <= n
<1> DEFINE R == {p \in Nat \X Nat : p[1] < p[2]}
<1>1. \E m \in S : \A n \in S : ~ (<<n, m>> \in R)
  <2>1. IsWellFoundedOn(R, Nat)
    BY NatsAreWellFounded
  <2> HIDE DEF R
  <2> QED
    BY <2>1, WFMin
<1>2. PICK m \in S : \A n \in S : ~ (<<n, m>> \in R)
  BY <1>1
<1>3. \A n \in S : n < m => <<n, m>> \in R
  <2> SUFFICES ASSUME NEW n \in S, n < m PROVE <<n, m>> \in R
    OBVIOUS
  <2>1. <<n, m>> \in Nat \X Nat /\ <<n, m>>[1] = n /\ <<n, m>>[2] = m
    OBVIOUS
  <2> QED
    BY <2>1
<1>4. \A n \in S : ~ (n < m)
  <2> HIDE DEF R
  <2> QED
    BY <1>2, <1>3
<1> QED
  BY <1>4

\* A bounded set of naturals has a greatest element, and Max is it.
LEMMA BoundedMax ==
    ASSUME NEW B \in Nat, NEW S \in SUBSET (0 .. B), S # {}
    PROVE  Max(S) \in S /\ \A n \in S : n <= Max(S)
<1> DEFINE T == {B - n : n \in S}
<1>1. T \in SUBSET Nat /\ T # {}
  <2>1. \A n \in S : B - n \in Nat
    OBVIOUS
  <2>2. T # {}
    <3>1. PICK n \in S : TRUE
      OBVIOUS
    <3>2. B - n \in T
      BY <3>1
    <3> QED
      BY <3>2
  <2> QED
    BY <2>1, <2>2
<1>2. PICK t \in T : \A n \in T : t <= n
  <2> HIDE DEF T
  <2> QED
    BY <1>1, LeastNatural
<1>3. PICK m \in S : t = B - m
  OBVIOUS
<1>4. \A n \in S : m >= n
  <2>1. \A n \in S : t <= B - n
    BY <1>2
  <2> QED
    BY <1>3, <2>1
<1> QED
  BY <1>4 DEF Max

\* How far the progress of a conversation gets by some finished jobs: to the next
\* turn of one of them, or it stays.
LEMMA AdvancedIsMax ==
    ASSUME JournalOK, NEW done \in SUBSET (DOMAIN jobs)
    PROVE  /\ Advanced(jobs, done) \in [Conversations -> 0 .. MaxTurns]
           /\ \A c \in Conversations :
                 /\ progress[c] <= Advanced(jobs, done)[c]
                 /\ \/ Advanced(jobs, done)[c] = progress[c]
                    \/ \E j \in done : j.conv = c /\ Advanced(jobs, done)[c] = jobs[j].next
           /\ \A j \in done : jobs[j].next <= Advanced(jobs, done)[j.conv]
<1> DEFINE Reach(c) == {progress[c]} \cup {jobs[j].next : j \in {i \in done : i.conv = c}}
<1>1. ASSUME NEW c \in Conversations
      PROVE  Max(Reach(c)) \in Reach(c) /\ \A n \in Reach(c) : n <= Max(Reach(c))
  <2>1. \A j \in done : jobs[j].next \in 0 .. MaxTurns
    BY DEF JournalOK, JobRecords
  <2>2. Reach(c) \in SUBSET (0 .. MaxTurns) /\ Reach(c) # {}
    BY <2>1 DEF JournalOK
  <2> HIDE DEF Reach
  <2> QED
    BY <2>2, BoundedMax, JobsAssumption
<1>2. Advanced(jobs, done) = [c \in Conversations |-> Max(Reach(c))]
  BY DEF Advanced
<1>3. \A c \in Conversations : Reach(c) \in SUBSET (0 .. MaxTurns)
  BY DEF JournalOK, JobRecords
<1>4. \A c \in Conversations : progress[c] \in Reach(c)
  OBVIOUS
<1>5. \A c \in Conversations : \A n \in Reach(c) :
          n = progress[c] \/ \E j \in done : j.conv = c /\ n = jobs[j].next
  OBVIOUS
<1>6. \A j \in done : j.conv \in Conversations /\ jobs[j].next \in Reach(j.conv)
  BY DEF JournalOK, JobIds
<1> HIDE DEF Reach
<1> QED
  BY <1>1, <1>2, <1>3, <1>4, <1>5, <1>6

(***************************************************************************)
(* What the journal's methods do to a job                                  *)
(***************************************************************************)

\* One job is replaced by q, which keeps its batch and its attempts.
Rewritten(j, q) ==
    /\ jobs' = [jobs EXCEPT ![j] = q] /\ q \in JobRecords
    /\ q.next = jobs[j].next /\ q.attempts = jobs[j].attempts

\* stage: the state, and what comes with it.
LEMMA StageEffect ==
    ASSUME JournalOK, NEW j \in DOMAIN jobs, NEW s \in Held, NEW p \in Packets,
           NEW r \in {NoResult} \cup Results, Stage(j, s, p, r)
    PROVE  \E q : Rewritten(j, q) /\ q.state = s /\ q.lease = jobs[j].lease
<1>1. PICK o \in JobRecords : o = jobs[j]
  BY DEF JournalOK
<1>2. PICK q : q = [o EXCEPT !.state = s, !.packet = IF p = NoResult THEN @ ELSE p,
                             !.result = IF r = NoResult THEN @ ELSE r]
  OBVIOUS
<1>3. /\ q \in JobRecords /\ q.state = s /\ q.lease = o.lease
      /\ q.next = o.next /\ q.attempts = o.attempts
  BY <1>2 DEF JobRecords
<1>4. jobs' = [jobs EXCEPT ![j] = q]
  BY <1>1, <1>2 DEF Stage, JournalOK
<1> QED
  BY <1>1, <1>3, <1>4 DEF Rewritten

\* finish: the state and the result, and the lease is given back.
LEMMA FinishEffect ==
    ASSUME JournalOK, NEW j \in DOMAIN jobs, NEW s \in {"deferred"} \cup Terminal,
           NEW r \in {NoResult} \cup Results, FinishJob(j, s, r)
    PROVE  \E q : Rewritten(j, q) /\ q.state = s /\ q.lease = "none" /\ q.result = r
<1>1. PICK o \in JobRecords : o = jobs[j]
  BY DEF JournalOK
<1>2. PICK q : q = [o EXCEPT !.state = s, !.result = r, !.lease = "none", !.retry = "later"]
  OBVIOUS
<1>3. /\ q \in JobRecords /\ q.state = s /\ q.lease = "none" /\ q.result = r
      /\ q.next = o.next /\ q.attempts = o.attempts
  BY <1>2 DEF JobRecords, Waiting
<1>4. jobs' = [jobs EXCEPT ![j] = q]
  BY <1>1, <1>2 DEF FinishJob, JournalOK
<1> QED
  BY <1>1, <1>3, <1>4 DEF Rewritten

\* A lease that lapses, and a retry that becomes due.
LEMMA TimeEffect ==
    ASSUME JournalOK, NEW j \in JobIds, Lapse(j) \/ RetryDue(j)
    PROVE  /\ j \in DOMAIN jobs
           /\ \E q : /\ Rewritten(j, q) /\ q.state = jobs[j].state /\ q.result = jobs[j].result
                     /\ \/ jobs[j].lease = "live" /\ q.lease = "lapsed"
                        \/ q.lease = jobs[j].lease /\ jobs[j].state \in Waiting
<1>0. j \in DOMAIN jobs
  BY DEF Lapse, RetryDue
<1>1. PICK o \in JobRecords : o = jobs[j]
  BY <1>0 DEF JournalOK
<1>2. CASE Lapse(j)
  <2>1. PICK q : q = [o EXCEPT !.lease = "lapsed"]
    OBVIOUS
  <2>2. /\ q \in JobRecords /\ q.state = o.state /\ q.result = o.result /\ q.lease = "lapsed"
        /\ q.next = o.next /\ q.attempts = o.attempts
    BY <2>1 DEF JobRecords
  <2>3. jobs' = [jobs EXCEPT ![j] = q] /\ o.lease = "live"
    BY <1>1, <1>2, <2>1 DEF Lapse, JournalOK
  <2> QED
    BY <1>0, <1>1, <2>2, <2>3 DEF Rewritten
<1>3. CASE RetryDue(j)
  <2>1. PICK q : q = [o EXCEPT !.retry = "due"]
    OBVIOUS
  <2>2. /\ q \in JobRecords /\ q.state = o.state /\ q.result = o.result /\ q.lease = o.lease
        /\ q.next = o.next /\ q.attempts = o.attempts
    BY <2>1 DEF JobRecords
  <2>3. jobs' = [jobs EXCEPT ![j] = q] /\ o.state \in Waiting
    BY <1>1, <1>3, <2>1 DEF RetryDue, JournalOK
  <2> QED
    BY <1>0, <1>1, <2>2, <2>3 DEF Rewritten
<1> QED
  BY <1>2, <1>3

\* The sweep of a claim: a job is parked when its attempts are used up, is taken
\* back when its lease has lapsed, or stays.
Parked(j) == j \in Exhausted /\ Swept[j].state = "parked" /\ Swept[j].lease = "none"
TakenBack(j) ==
    /\ jobs[j].state \in Held /\ jobs[j].lease = "lapsed"
    /\ Swept[j].state = "deferred" /\ Swept[j].lease = "none"

\* What a sweep keeps of each job.
LEMMA SweepEffect ==
    ASSUME JournalOK
    PROVE  /\ Swept \in [DOMAIN jobs -> JobRecords]
           /\ \A j \in DOMAIN jobs :
                 /\ Swept[j].next = jobs[j].next /\ Swept[j].attempts = jobs[j].attempts
                 /\ Swept[j].result = jobs[j].result
                 /\ Parked(j) \/ TakenBack(j) \/ (j \notin Exhausted /\ Swept[j] = jobs[j])
<1>1. ASSUME NEW j \in DOMAIN jobs
      PROVE  /\ Swept[j] \in JobRecords
             /\ Swept[j].next = jobs[j].next /\ Swept[j].attempts = jobs[j].attempts
             /\ Swept[j].result = jobs[j].result
             /\ Parked(j) \/ TakenBack(j) \/ (j \notin Exhausted /\ Swept[j] = jobs[j])
  <2>1. PICK o \in JobRecords : o = jobs[j]
    BY DEF JournalOK
  <2>2. CASE j \in Exhausted
    <3>1. PICK q : q = [o EXCEPT !.state = "parked", !.lease = "none"]
      OBVIOUS
    <3>2. /\ q \in JobRecords /\ q.state = "parked" /\ q.lease = "none"
          /\ q.next = o.next /\ q.attempts = o.attempts /\ q.result = o.result
      BY <3>1 DEF JobRecords, Terminal
    <3>3. Swept[j] = q
      BY <2>1, <2>2, <3>1 DEF Swept
    <3> QED
      BY <2>1, <2>2, <3>2, <3>3 DEF Parked
  <2>3. CASE j \notin Exhausted /\ o.state \in Held /\ o.lease = "lapsed"
    <3>1. PICK q : q = [o EXCEPT !.state = "deferred", !.lease = "none"]
      OBVIOUS
    <3>2. /\ q \in JobRecords /\ q.state = "deferred" /\ q.lease = "none"
          /\ q.next = o.next /\ q.attempts = o.attempts /\ q.result = o.result
      BY <3>1 DEF JobRecords, Waiting
    <3>3. Swept[j] = q
      BY <2>1, <2>3, <3>1 DEF Swept
    <3> QED
      BY <2>1, <2>3, <3>2, <3>3 DEF TakenBack
  <2>4. CASE j \notin Exhausted /\ ~ (o.state \in Held /\ o.lease = "lapsed")
    <3>1. Swept[j] = o
      BY <2>1, <2>4 DEF Swept
    <3> QED
      BY <2>1, <2>4, <3>1
  <2> QED
    BY <2>2, <2>3, <2>4
<1> QED
  BY <1>1 DEF Swept

\* Taking a job: it is proposing under a live lease, and this counts as an attempt.
LEMMA TakenEffect ==
    ASSUME NEW D, NEW table \in [D -> JobRecords], NEW j \in D
    PROVE  \E q \in JobRecords :
               /\ Taken(table, j) = [table EXCEPT ![j] = q]
               /\ q.state = "proposing" /\ q.lease = "live" /\ q.attempts = table[j].attempts + 1
               /\ q.next = table[j].next /\ q.result = table[j].result /\ q.packet = table[j].packet
<1>1. PICK o \in JobRecords : o = table[j]
  OBVIOUS
<1>n. PICK n \in Nat : n = o.attempts + 1
  BY DEF JobRecords
<1>2. PICK q : q = [o EXCEPT !.state = "proposing", !.attempts = n, !.lease = "live"]
  OBVIOUS
<1>3. /\ q \in JobRecords /\ q.state = "proposing" /\ q.lease = "live" /\ q.attempts = n
      /\ q.next = o.next /\ q.result = o.result /\ q.packet = o.packet
  BY <1>2 DEF JobRecords, Held
<1>4. Taken(table, j) = [table EXCEPT ![j] = q]
  BY <1>n, <1>1, <1>2 DEF Taken
<1> QED
  BY <1>n, <1>1, <1>3, <1>4

(***************************************************************************)
(* What a thread does                                                      *)
(***************************************************************************)

\* The thread is at another place and knows something else.
Moved(w, place, m) == at' = [at EXCEPT ![w] = place] /\ mine' = [mine EXCEPT ![w] = m]

\* From where a thread comes to a place of apply_verified, and with what.
Advances(w, place, m) ==
    LET old == mine[w] IN
    /\ place = "applying" =>
           \/ at[w] = "approved" /\ m.op = 1
           \/ at[w] = "written" /\ m.op = old.op + 1 /\ m.result = old.result
    /\ place = "finishing" /\ m.outcome = "applied" =>
           at[w] = "applying" /\ old.op > Len(old.result.ops) /\ m.result = old.result
    /\ place = "journaling" =>
           /\ at[w] = "applying" /\ m.op = old.op /\ m.result = old.result
           /\ ~ Journaled(w) /\ m.record = Prepared(w)
    /\ place = "comparing" =>
           \/ /\ at[w] = "applying" /\ m.op = old.op /\ m.result = old.result
              /\ Journaled(w) /\ m.record = operations[<<old.job, old.op>>]
           \/ at[w] = "journaling" /\ m = old
    /\ place = "writing" => at[w] = "comparing" /\ m = old /\ notes[Path(w)] = old.record.before
    /\ place = "written" => at[w] \in {"comparing", "writing"} /\ m = old

\* The thread comes to a place that what it knows fits.
Goes(w) ==
    \E place \in Places \ {"idle"}, m \in Claims :
        Moved(w, place, m) /\ m.job = mine[w].job /\ Fits(place, m) /\ Advances(w, place, m)

\* A place outside of apply_verified asks for nothing more.
LEMMA Plainly ==
    ASSUME NEW w \in Workers, NEW m, NEW place,
           place \notin Writing, place = "finishing" => m.outcome # "applied"
    PROVE  Advances(w, place, m)
  BY DEF Advances, Writing, Recorded

\* An exception: what the journal holds as result is read back.
LEMMA RaiseGoes ==
    ASSUME JournalOK, ThreadsOK, NEW w \in Workers, at[w] # "idle", Raise(w)
    PROVE  Goes(w)
<1>1. PICK o \in Claims : o = mine[w]
  BY DEF ThreadsOK
<1>2. o.job \in DOMAIN jobs
  BY <1>1 DEF ThreadsOK, Fits
<1>3. PICK r \in {NoResult} \cup Results : r = jobs[o.job].result
  BY <1>2 DEF JournalOK, JobRecords
<1>4. PICK m : m = [o EXCEPT !.result = r]
  OBVIOUS
<1>5. m \in Claims /\ m.job = o.job
  BY <1>4 DEF Claims
<1>6. Moved(w, "failing", m)
  BY <1>1, <1>3, <1>4 DEF Raise, Goto, Keep, Moved
<1>7. "failing" \in Places \ {"idle"} /\ "failing" \notin Writing \cup {"approved"} /\ "failing" \notin Recorded
  BY DEF Places, Writing, Recorded
<1>8. Fits("failing", m)
  BY <1>2, <1>5, <1>7 DEF Fits
<1> QED
  BY <1>1, <1>5, <1>6, <1>7, <1>8, Plainly DEF Goes

\* An operation under way is one of the result, and its note is one there may be.
LEMMA OpUnderWay ==
    ASSUME ThreadsOK, NEW w \in Workers, mine[w].job \in JobIds, Accepted(mine[w].result),
           mine[w].op # 0, mine[w].op <= Len(mine[w].result.ops)
    PROVE  /\ Op(w) \in Operation /\ Path(w) \in AllNotes /\ mine[w].op \in Nat
           /\ <<mine[w].job, mine[w].op>> \in NewNotes
<1>1. PICK o \in Claims : o = mine[w]
  BY DEF ThreadsOK
<1>2. o.result \in Results /\ o.op \in Nat /\ o.job \in JobIds
  BY <1>1 DEF Claims, Accepted
<1>3. o.result.ops \in Seq(Operation) /\ Len(o.result.ops) <= MaxOperations
  BY <1>2 DEF Results
<1>4. Len(o.result.ops) \in Nat /\ o.op \in 1 .. Len(o.result.ops) /\ o.op \in 1 .. MaxOperations
  BY <1>1, <1>2, <1>3, LenProperties, WorkerAssumption
<1>5. Op(w) \in Operation
  BY <1>1, <1>3, <1>4, ElementOfSeq DEF Op
<1>6. <<o.job, o.op>> \in NewNotes
  BY <1>2, <1>4 DEF NewNotes
<1>7. Path(w) \in AllNotes
  BY <1>1, <1>5, <1>6 DEF Path, AllNotes, Operation
<1> QED
  BY <1>1, <1>2, <1>5, <1>6, <1>7

\* The record of a change that is prepared.
LEMMA PreparedRecord ==
    ASSUME ThreadsOK, NotesOK, NEW w \in Workers, mine[w].job \in JobIds, Accepted(mine[w].result),
           mine[w].op # 0, mine[w].op <= Len(mine[w].result.ops)
    PROVE  /\ Prepared(w) \in Records /\ notes[Path(w)] \in Contents
           /\ <<"section", mine[w].job, mine[w].op, mine[w].attempt>> \in Entries
           /\ Prepared(w).before = notes[Path(w)]
           /\ Prepared(w).after =
                  Append(notes[Path(w)], <<"section", mine[w].job, mine[w].op, mine[w].attempt>>)
<1>1. notes[Path(w)] \in Contents /\ mine[w].op \in Nat
  BY OpUnderWay DEF NotesOK
<1>2. mine[w].attempt \in Nat
  BY DEF ThreadsOK, Claims
<1>3. <<"section", mine[w].job, mine[w].op, mine[w].attempt>> \in Entries
  BY <1>1, <1>2 DEF Entries
<1>4. Append(notes[Path(w)], <<"section", mine[w].job, mine[w].op, mine[w].attempt>>) \in Contents
  BY <1>1, <1>3, AppendProperties DEF Contents
<1> QED
  BY <1>1, <1>3, <1>4 DEF Prepared, Records

\* The head of the loop over the operations.
LEMMA LookGoes ==
    ASSUME JournalOK, ThreadsOK, NotesOK, NEW w \in Workers, Look(w)
    PROVE  Goes(w)
<1>p. /\ "applying" \in Writing /\ "finishing" \notin Writing \cup {"approved"}
      /\ {"finishing", "journaling", "comparing"} \subseteq Places \ {"idle"}
      /\ {"journaling", "comparing"} \subseteq Recorded /\ Recorded \subseteq Writing
  BY DEF Places, Writing, Recorded
<1>1. PICK o \in Claims : o = mine[w]
  BY DEF ThreadsOK
<1>2. /\ o.job \in DOMAIN jobs /\ o.job \in JobIds /\ Accepted(o.result) /\ o.op # 0 /\ o.op \in Nat
      /\ o.result \in Results /\ Len(o.result.ops) \in Nat
  <2>1. o.job \in DOMAIN jobs /\ Accepted(o.result) /\ o.op # 0
    BY <1>p, <1>1 DEF Look, ThreadsOK, Fits
  <2>2. o.result \in Results /\ o.op \in Nat
    BY <2>1 DEF Accepted, Claims
  <2> QED
    BY <2>1, <2>2, LenProperties DEF Results, JournalOK
<1>3. CASE AllTakenUp(w)
  <2>1. PICK m : m = [o EXCEPT !.outcome = "applied"]
    OBVIOUS
  <2>2. m \in Claims /\ m.job = o.job /\ m.outcome = "applied" /\ m.result = o.result
    BY <2>1 DEF Claims, Terminal
  <2>3. Moved(w, "finishing", m)
    BY <1>1, <1>3, <2>1 DEF Look, Goto, Keep, Moved
  <2>4. Fits("finishing", m)
    BY <1>p, <1>2, <2>2 DEF Fits, Recorded, Writing
  <2>5. Advances(w, "finishing", m)
    BY <1>1, <1>3, <2>2 DEF Advances, AllTakenUp, Look
  <2> QED
    BY <1>p, <1>1, <2>2, <2>3, <2>4, <2>5 DEF Goes
<1>4. CASE ~ AllTakenUp(w) /\ Refused(w)
  BY <1>4, RaiseGoes DEF Look
<1>5. CASE ~ AllTakenUp(w) /\ ~ Refused(w)
  <2>0. /\ o.op <= Len(o.result.ops) /\ <<o.job, o.op>> \in NewNotes
        /\ Prepared(w) \in Records
    <3>1. o.op <= Len(o.result.ops)
      BY <1>1, <1>2, <1>5 DEF AllTakenUp
    <3> QED
      BY <1>1, <1>2, <3>1, OpUnderWay, PreparedRecord
  <2>1. ASSUME NEW place \in {"journaling", "comparing"}, NEW r \in Records,
               Goto(w, place), Keep(w, [mine[w] EXCEPT !.record = r]),
               place = "journaling" => ~ Journaled(w) /\ r = Prepared(w),
               place = "comparing" => Journaled(w) /\ r = operations[<<o.job, o.op>>]
        PROVE  Goes(w)
    <3>1. PICK m : m = [o EXCEPT !.record = r]
      OBVIOUS
    <3>2. /\ m \in Claims /\ m.job = o.job /\ m.result = o.result /\ m.op = o.op
          /\ m.record = r
      BY <3>1 DEF Claims
    <3>3. Moved(w, place, m)
      BY <1>1, <2>1, <3>1 DEF Goto, Keep, Moved
    <3>5. Fits(place, m)
      BY <1>p, <1>2, <2>0, <3>2 DEF Fits
    <3>6. Advances(w, place, m)
      BY <1>1, <2>1, <3>2 DEF Advances, Look
    <3> QED
      BY <1>p, <1>1, <3>2, <3>3, <3>5, <3>6 DEF Goes
  <2>2. CASE Journaled(w)
    <3>1. operations[<<o.job, o.op>>] \in Records
      BY <1>1, <2>2 DEF JournalOK, Journaled
    <3> QED
      BY <1>1, <1>5, <2>1, <2>2, <3>1 DEF Look, TakeUp
  <2>3. CASE ~ Journaled(w) /\ Unchanged(w)
    BY <1>1, <1>5, <2>0, <2>1, <2>3 DEF Look, TakeUp
  <2>4. CASE ~ Journaled(w) /\ ~ Unchanged(w)
    BY <1>5, <2>4, RaiseGoes DEF Look, TakeUp
  <2> QED
    BY <2>2, <2>3, <2>4
<1> QED
  BY <1>3, <1>4, <1>5

\* The steps up to the decision.
LEMMA EarlyStepsGo ==
    ASSUME JournalOK, ThreadsOK, NotesOK, NEW w \in Workers,
           Prepare(w) \/ Lease(w) \/ Review(w) \/ Curate(w) \/ Decide(w) \/ OpenApply(w)
    PROVE  Goes(w)
<1> USE DEF Writing, Recorded, Places
<1>1. PICK o \in Claims : o = mine[w]
  BY DEF ThreadsOK
<1>2. ASSUME NEW place \in {"prepared", "leased", "curating", "decided", "approved", "finishing"},
             NEW m \in Claims, Moved(w, place, m), m.job = o.job, o.job \in DOMAIN jobs,
             place = "decided" => m.result \in Results,
             place = "approved" => Accepted(m.result),
             place = "finishing" => m.outcome # "none" /\ m.outcome # "applied"
      PROVE  Goes(w)
  <2>1. Fits(place, m)
    BY <1>2 DEF Fits
  <2>2. Advances(w, place, m)
    BY <1>2, Plainly
  <2> QED
    BY <1>1, <1>2, <2>1, <2>2 DEF Goes
<1>3. CASE Prepare(w)
  <2>1. at[w] = "claimed" /\ o.job \in DOMAIN jobs
    BY <1>1, <1>3 DEF Prepare, ThreadsOK, Fits
  <2>2. CASE Goto(w, "prepared") /\ UNCHANGED mine
    <3>1. Moved(w, "prepared", o)
      BY <1>1, <2>2 DEF Goto, Moved, ThreadsOK
    <3> QED
      BY <1>2, <2>1, <3>1
  <2>3. CASE Goto(w, "prepared") /\ Keep(w, [mine[w] EXCEPT !.packet = [n \in Notes |-> notes[n]]])
    <3>1. PICK packet \in Packets : packet = [n \in Notes |-> notes[n]]
      BY DEF NotesOK, AllNotes, Packets
    <3>2. PICK m : m = [o EXCEPT !.packet = packet]
      OBVIOUS
    <3>3. m \in Claims /\ m.job = o.job
      BY <3>2 DEF Claims
    <3>4. Moved(w, "prepared", m)
      BY <1>1, <2>3, <3>1, <3>2 DEF Goto, Keep, Moved
    <3> QED
      BY <1>2, <2>1, <3>3, <3>4
  <2> QED
    BY <1>3, <2>1, <2>2, <2>3, RaiseGoes DEF Prepare
<1>4. CASE Lease(w)
  <2>1. at[w] = "prepared" /\ o.job \in DOMAIN jobs
    BY <1>1, <1>4 DEF Lease, ThreadsOK, Fits
  <2>2. CASE Goto(w, "leased") /\ UNCHANGED mine
    <3>1. Moved(w, "leased", o)
      BY <1>1, <2>2 DEF Goto, Moved, ThreadsOK
    <3> QED
      BY <1>2, <2>1, <3>1
  <2> QED
    BY <1>4, <2>1, <2>2, RaiseGoes DEF Lease
<1>5. CASE Review(w)
  <2>1. at[w] = "leased" /\ o.job \in DOMAIN jobs
    BY <1>1, <1>5 DEF Review, ThreadsOK, Fits
  <2>2. CASE Approved(o.result)
    <3>1. Moved(w, "decided", o)
      BY <1>1, <1>5, <2>2 DEF Review, Goto, Moved, ThreadsOK
    <3>2. o.result \in Results
      BY <2>2 DEF Approved, Claims
    <3> QED
      BY <1>2, <2>1, <3>1, <3>2
  <2>3. CASE ~ Approved(o.result)
    <3>1. Moved(w, "curating", o)
      BY <1>1, <1>5, <2>3 DEF Review, Goto, Moved, ThreadsOK
    <3> QED
      BY <1>2, <2>1, <3>1
  <2> QED
    BY <2>2, <2>3
<1>6. CASE Curate(w)
  <2>1. at[w] = "curating" /\ o.job \in DOMAIN jobs
    BY <1>1, <1>6 DEF Curate, ThreadsOK, Fits
  <2>2. ASSUME NEW v \in Results, Goto(w, "decided"), Keep(w, [mine[w] EXCEPT !.result = v])
        PROVE  Goes(w)
    <3>1. PICK m : m = [o EXCEPT !.result = v]
      OBVIOUS
    <3>2. m \in Claims /\ m.job = o.job /\ m.result = v
      BY <3>1 DEF Claims
    <3>3. Moved(w, "decided", m)
      BY <1>1, <2>2, <3>1 DEF Goto, Keep, Moved
    <3> QED
      BY <1>2, <2>1, <3>2, <3>3
  <2>3. \A s \in Verdicts, ops \in Seq(Operation), seen \in Packets :
            Len(ops) <= MaxOperations => Verdict(s, ops, seen) \in Results
    BY DEF Verdict, Results
  <2>4. /\ o.packet \in Packets /\ NoResult \in Packets /\ <<>> \in Seq(Operation)
        /\ Len(<<>>) <= MaxOperations
        /\ \A p \in Proposals : p \in Seq(Operation) /\ Len(p) <= MaxOperations
        /\ Refusals \cup {"approved", "deferred"} \subseteq Verdicts
    BY WorkerAssumption, EmptySeq DEF Claims, Packets, Verdicts
  <2>5. /\ \A ops \in Proposals : Verdict("approved", ops, o.packet) \in Results
        /\ \A s \in Refusals : Verdict(s, <<>>, NoResult) \in Results
        /\ Verdict("deferred", <<>>, NoResult) \in Results
    BY <2>3, <2>4
  <2>6. CASE Raise(w)
    BY <2>1, <2>6, RaiseGoes
  <2>7. CASE \E v \in {Verdict("approved", ops, mine[w].packet) : ops \in Proposals}
                         \cup {Verdict(s, <<>>, NoResult) : s \in Refusals} :
                  Goto(w, "decided") /\ Keep(w, [mine[w] EXCEPT !.result = v])
    BY <1>1, <2>2, <2>5, <2>7
  <2>8. CASE Goto(w, "decided") /\ Keep(w, [mine[w] EXCEPT !.result = Verdict("deferred", <<>>, NoResult)])
    BY <2>2, <2>5, <2>8
  <2> QED
    BY <1>6, <2>6, <2>7, <2>8 DEF Curate
<1>7. CASE Decide(w)
  <2>1. at[w] = "decided" /\ o.job \in DOMAIN jobs /\ o.result \in Results
    BY <1>1, <1>7 DEF Decide, ThreadsOK, Fits
  <2>2. CASE o.result.state = "approved"
    <3>1. Moved(w, "approved", o)
      BY <1>1, <1>7, <2>2 DEF Decide, Goto, Moved, ThreadsOK
    <3> QED
      BY <1>2, <2>1, <2>2, <3>1 DEF Accepted
  <2>3. CASE o.result.state # "approved"
    <3>1. PICK out : out = IF o.result.state = "deferred" /\ GivesUp(w) THEN "parked" ELSE o.result.state
      OBVIOUS
    <3>2. out \in {"deferred", "abstained", "rejected", "parked"}
      BY <2>1, <2>3, <3>1 DEF Results, Verdicts
    <3>3. PICK m : m = [o EXCEPT !.outcome = out]
      OBVIOUS
    <3>4. m \in Claims /\ m.job = o.job /\ m.outcome = out
      BY <3>2, <3>3 DEF Claims, Terminal
    <3>5. Moved(w, "finishing", m)
      BY <1>1, <1>7, <2>3, <3>1, <3>3 DEF Decide, Goto, Keep, Moved
    <3> QED
      BY <1>2, <2>1, <3>2, <3>4, <3>5
  <2> QED
    BY <2>2, <2>3
<1>8. CASE OpenApply(w)
  <2>1. at[w] = "approved" /\ o.job \in DOMAIN jobs /\ Accepted(o.result)
    BY <1>1, <1>8 DEF OpenApply, ThreadsOK, Fits
  <2>2. CASE Interrupted(w)
    BY <1>8, <2>1, <2>2, RaiseGoes DEF OpenApply
  <2>3. CASE ~ Interrupted(w)
    <3>1. PICK m : m = [o EXCEPT !.op = 1]
      OBVIOUS
    <3>2. m \in Claims /\ m.job = o.job /\ m.op = 1 /\ m.result = o.result
      BY <3>1 DEF Claims
    <3>3. Moved(w, "applying", m)
      BY <1>1, <1>8, <2>3, <3>1 DEF OpenApply, Goto, Keep, Moved
    <3>4. Fits("applying", m)
      BY <2>1, <3>2 DEF Fits
    <3>5. Advances(w, "applying", m)
      BY <2>1, <3>2 DEF Advances
    <3> QED
      BY <1>1, <3>2, <3>3, <3>4, <3>5 DEF Goes
  <2> QED
    BY <2>2, <2>3
<1> QED
  BY <1>3, <1>4, <1>5, <1>6, <1>7, <1>8

\* The steps of one operation.
LEMMA LateStepsGo ==
    ASSUME JournalOK, ThreadsOK, NotesOK, NEW w \in Workers,
           Record(w) \/ Compare(w) \/ Write(w) \/ Confirm(w)
    PROVE  Goes(w)
<1> USE DEF Writing, Recorded, Places
<1>1. PICK o \in Claims : o = mine[w]
  BY DEF ThreadsOK
<1>2. at[w] \in Recorded /\ at[w] # "idle"
  BY DEF Record, Compare, Write, Confirm
<1>3. /\ o.job \in DOMAIN jobs /\ Accepted(o.result) /\ o.op # 0 /\ o.op <= Len(o.result.ops)
      /\ o.record \in Records
  BY <1>1, <1>2 DEF ThreadsOK, Fits
<1>4. ASSUME NEW place \in Recorded, Moved(w, place, o), Advances(w, place, o) PROVE Goes(w)
  <2>1. Fits(place, o)
    BY <1>3 DEF Fits
  <2> QED
    BY <1>1, <1>4, <2>1 DEF Goes
<1>5. CASE Record(w)
  <2>1. Moved(w, "comparing", o) /\ Advances(w, "comparing", o)
    BY <1>1, <1>5 DEF Record, Goto, Moved, ThreadsOK, Advances
  <2> QED
    BY <1>4, <2>1
<1>6. CASE Compare(w)
  <2>1. CASE Raise(w)
    BY <1>2, <2>1, RaiseGoes
  <2>2. CASE Goto(w, "written") /\ UNCHANGED mine
    <3>1. Moved(w, "written", o) /\ Advances(w, "written", o)
      BY <1>1, <1>6, <2>2 DEF Compare, Goto, Moved, ThreadsOK, Advances
    <3> QED
      BY <1>4, <3>1
  <2>3. CASE Goto(w, "writing") /\ UNCHANGED mine /\ notes[Path(w)] = mine[w].record.before
    <3>1. Moved(w, "writing", o) /\ Advances(w, "writing", o)
      BY <1>1, <1>6, <2>3 DEF Compare, Goto, Moved, ThreadsOK, Advances
    <3> QED
      BY <1>4, <3>1
  <2> QED
    BY <1>6, <2>1, <2>2, <2>3 DEF Compare
<1>7. CASE Write(w)
  <2>1. Moved(w, "written", o) /\ Advances(w, "written", o)
    BY <1>1, <1>7 DEF Write, Goto, Moved, ThreadsOK, Advances
  <2> QED
    BY <1>4, <2>1
<1>8. CASE Confirm(w)
  <2>1. CASE Raise(w)
    BY <1>2, <2>1, RaiseGoes
  <2>2. CASE Goto(w, "applying") /\ Keep(w, [mine[w] EXCEPT !.op = @ + 1, !.record = NoResult])
    <3>1. PICK n \in Nat : n = o.op + 1 /\ n # 0
      BY DEF Claims
    <3>2. PICK m : m = [o EXCEPT !.op = n, !.record = NoResult]
      OBVIOUS
    <3>3. m \in Claims /\ m.job = o.job /\ m.op = n /\ m.result = o.result
      BY <3>2 DEF Claims
    <3>4. Moved(w, "applying", m)
      BY <1>1, <2>2, <3>1, <3>2 DEF Goto, Keep, Moved
    <3>5. Fits("applying", m)
      BY <1>3, <3>1, <3>3 DEF Fits
    <3>6. Advances(w, "applying", m)
      BY <1>1, <1>8, <3>1, <3>3 DEF Advances, Confirm
    <3> QED
      BY <1>1, <3>3, <3>4, <3>5, <3>6 DEF Goes
  <2> QED
    BY <1>8, <2>1, <2>2 DEF Confirm
<1> QED
  BY <1>5, <1>6, <1>7, <1>8

(***************************************************************************)
(* The kinds of steps                                                      *)
(***************************************************************************)

\* A step of apply_verified or before it: the thread goes on with its job, may
\* stage it, journals an operation or writes a note.
Staged(w) ==
    \E q : Rewritten(mine[w].job, q) /\ q.state \in Held /\ q.lease = jobs[mine[w].job].lease
Journals(w) ==
    \E record \in Records :
        /\ Journal(mine[w].job, mine[w].op, record)
        /\ record.before = mine[w].record.before /\ record.after = mine[w].record.after
        /\ at[w] = "written" => record.done = "yes"
Writes(w) ==
    /\ at[w] = "writing" /\ at'[w] = "written"
    /\ notes' = [notes EXCEPT ![Path(w)] = mine[w].record.after]
Works(w) ==
    /\ at[w] # "idle" /\ Goes(w)
    /\ UNCHANGED <<turns, progress, edits, exposed, crashes, overruns, cancel>>
    /\ jobs' = jobs \/ Staged(w)
    /\ notes' = notes \/ Writes(w)
    /\ IF at[w] = "journaling" \/ (at[w] = "written" /\ at'[w] = "applying")
         THEN Journals(w) ELSE operations' = operations

\* The end of run_once: the job is finished, the thread forgets it.
Leaves(w) ==
    /\ at[w] \in {"finishing", "failing"} /\ Moved(w, "idle", Nothing)
    /\ cancel' = [cancel EXCEPT ![w] = "clear"] /\ late' = [late EXCEPT ![w] = 0]
    /\ \E s \in {"deferred"} \cup Terminal :
           /\ FinishJob(mine[w].job, s, mine[w].result)
           /\ s = "applied" => at[w] = "finishing" /\ mine[w].outcome = "applied"
    /\ UNCHANGED <<notes, edits, exposed, crashes, overruns>>

\* Calls, switches and turns that are saved leave the jobs, the threads and the
\* notes alone.
Aside ==
    /\ UNCHANGED <<progress, jobs, operations, at, mine, notes, edits, exposed, crashes, overruns>>
    /\ turns' = turns \/ \E c \in Conversations : SaveTurn(c)

\* A thread that goes on keeps its job.
LEMMA GoesOn ==
    ASSUME ThreadsOK, NEW w \in Workers, Goes(w)
    PROVE  /\ at'[w] # "idle" /\ mine'[w].job = mine[w].job
           /\ \A v \in Workers : v # w => at'[v] = at[v] /\ mine'[v] = mine[v]
           /\ \A v \in Workers : mine'[v].job = mine[v].job
  BY DEF Goes, Moved, ThreadsOK

\* A step of a thread that does not finish its job is work on it.
LEMMA WorkSteps ==
    ASSUME JournalOK, ThreadsOK, NotesOK, NEW w \in Workers, Step(w), ~ Finish(w), ~ FinishFailed(w)
    PROVE  Works(w)
<1>1. PICK o \in Claims : o = mine[w]
  BY DEF ThreadsOK
<1>2. Goes(w) /\ at[w] # "idle"
  BY EarlyStepsGo, LateStepsGo, LookGoes
     DEF Step, Prepare, Lease, Review, Curate, Decide, OpenApply, Look, Record, Compare, Write, Confirm
<1>3. UNCHANGED <<edits, exposed, crashes, overruns, cancel>>
  BY DEF Step, Prepare, Lease, Review, Curate, Decide, OpenApply, Look, Record, Compare, Write,
         Confirm, history
<1>4. o.job \in DOMAIN jobs
  BY <1>1, <1>2 DEF ThreadsOK, Fits
<1>5. CASE Prepare(w) \/ Lease(w) \/ Curate(w) \/ Look(w) \/ Compare(w)
  <2>1. UNCHANGED <<turns, progress, jobs, operations, notes>>
    BY <1>5 DEF Prepare, Lease, Curate, Look, Compare, jobVars
  <2>2. at[w] # "journaling" /\ at[w] # "written"
    BY <1>5 DEF Prepare, Lease, Curate, Look, Compare
  <2> QED
    BY <1>2, <1>3, <2>1, <2>2 DEF Works
<1>6. CASE Write(w)
  <2>1. UNCHANGED <<turns, progress, jobs, operations>> /\ at[w] = "writing"
    BY <1>6 DEF Write, jobVars
  <2>2. Writes(w)
    BY <1>6 DEF Write, Writes, Goto, ThreadsOK
  <2> QED
    BY <1>2, <1>3, <2>1, <2>2 DEF Works
<1>7. CASE Review(w) \/ Decide(w) \/ OpenApply(w)
  <2>0. /\ "verifying" \in Held /\ "approved" \in Held /\ "applying" \in Held
        /\ NoResult \in Packets /\ o.packet \in Packets /\ o.result \in {NoResult} \cup Results
    BY DEF Held, Packets, Claims
  <2>1. jobs' = jobs \/ \E s \in Held, p \in Packets, r \in {NoResult} \cup Results : Stage(o.job, s, p, r)
    BY <1>1, <1>7, <2>0 DEF Review, Decide, OpenApply, jobVars
  <2>2. jobs' = jobs \/ Staged(w)
    BY <1>1, <1>4, <2>1, StageEffect DEF Staged
  <2>3. UNCHANGED <<turns, progress, operations>>
    BY <1>7 DEF Review, Decide, OpenApply, jobVars, Stage
  <2>4. notes' = notes /\ at[w] # "journaling" /\ at[w] # "written"
    BY <1>7 DEF Review, Decide, OpenApply
  <2> QED
    BY <1>2, <1>3, <2>2, <2>3, <2>4 DEF Works
<1>8. CASE Record(w)
  <2>1. o.record \in Records /\ at[w] = "journaling" /\ Journal(o.job, o.op, o.record) /\ notes' = notes
    BY <1>1, <1>8 DEF Record, ThreadsOK, Fits, Recorded
  <2>2. Journals(w)
    BY <1>1, <2>1 DEF Journals
  <2>3. UNCHANGED <<turns, progress, jobs>>
    BY <2>1 DEF Journal
  <2> QED
    BY <1>2, <1>3, <2>1, <2>2, <2>3 DEF Works
<1>9. CASE Confirm(w)
  <2>1. o.record \in Records /\ at[w] = "written" /\ notes' = notes
    BY <1>1, <1>9 DEF Confirm, ThreadsOK, Fits, Recorded
  <2>2. CASE Raise(w) /\ UNCHANGED jobVars
    <3>1. at'[w] # "applying"
      BY <2>2 DEF Raise, Goto, ThreadsOK
    <3> QED
      BY <1>2, <1>3, <2>1, <2>2, <3>1 DEF Works, jobVars
  <2>3. CASE Journal(o.job, o.op, [o.record EXCEPT !.done = "yes"]) /\ Goto(w, "applying")
    <3>1. PICK record : record = [o.record EXCEPT !.done = "yes"]
      OBVIOUS
    <3>2. /\ record \in Records /\ record.before = o.record.before /\ record.after = o.record.after
          /\ record.done = "yes"
      BY <2>1, <3>1 DEF Records
    <3>3. Journals(w)
      BY <1>1, <2>3, <3>1, <3>2 DEF Journals
    <3>4. UNCHANGED <<turns, progress, jobs>>
      BY <2>3 DEF Journal
    <3>5. at'[w] = "applying"
      BY <2>3 DEF Goto, ThreadsOK
    <3> QED
      BY <1>2, <1>3, <2>1, <3>3, <3>4, <3>5 DEF Works
  <2> QED
    BY <1>1, <1>9, <2>2, <2>3 DEF Confirm
<1> QED
  BY <1>5, <1>6, <1>7, <1>8, <1>9 DEF Step

\* The two ways out of run_once.
LEMMA LeaveSteps ==
    ASSUME ThreadsOK, NEW w \in Workers, Finish(w) \/ FinishFailed(w)
    PROVE  Leaves(w)
<1>1. /\ at[w] \in {"finishing", "failing"} /\ Moved(w, "idle", Nothing)
      /\ cancel' = [cancel EXCEPT ![w] = "clear"] /\ late' = [late EXCEPT ![w] = 0]
      /\ UNCHANGED <<notes, edits, exposed, crashes, overruns>>
  BY DEF Finish, FinishFailed, Leave, Goto, Keep, Moved, history
<1>2. CASE Finish(w)
  <2>1. mine[w].outcome \in {"deferred"} \cup Terminal
    BY <1>2 DEF Finish, ThreadsOK, Fits, Claims
  <2> QED
    BY <1>1, <1>2, <2>1 DEF Finish, Leaves
<1>3. CASE FinishFailed(w)
  <2>1. PICK s \in {"deferred", "parked"} : FinishJob(mine[w].job, s, mine[w].result)
    BY <1>3 DEF FinishFailed
  <2>2. s \in {"deferred"} \cup Terminal /\ s # "applied"
    BY DEF Terminal
  <2> QED
    BY <1>1, <2>1, <2>2 DEF Leaves
<1> QED
  BY <1>2, <1>3

(***************************************************************************)
(* Claims                                                                  *)
(***************************************************************************)

\* Worker w takes up the waiting job j.
TakesUp(j) ==
    /\ j \in DOMAIN jobs /\ Leased(Swept) = {} /\ j \in Eligible(Swept)
    /\ \E q \in JobRecords :
           /\ jobs' = [Swept EXCEPT ![j] = q]
           /\ q.state = "proposing" /\ q.lease = "live"
           /\ q.attempts = jobs[j].attempts + 1 /\ q.next = jobs[j].next

\* The segments of a new batch that ends at turn n; the first one is taken up.
First(c) == [conv |-> c, start |-> progress'[c], segment |-> 0]
Segments(c, count) == {[conv |-> c, start |-> progress'[c], segment |-> s] : s \in 0 .. count - 1}
Opens(c, count, n) ==
    /\ Leased(Swept) = {} /\ c \in Candidates(Swept, progress')
    /\ jobs' \in [DOMAIN jobs \cup Segments(c, count) -> JobRecords] /\ Segments(c, count) \subseteq JobIds
    /\ progress'[c] < n /\ n \in 0 .. MaxTurns
    /\ \A i \in DOMAIN jobs \ Segments(c, count) : jobs'[i] = Swept[i]
    /\ \A i \in Segments(c, count) :
           /\ jobs'[i].next = IF i.segment = count - 1 THEN n ELSE progress'[c]
           /\ i = First(c) => /\ jobs'[i].state = "proposing" /\ jobs'[i].lease = "live"
                              /\ jobs'[i].attempts = 1
           /\ i # First(c) => /\ jobs'[i].state = "queued" /\ jobs'[i].lease = "none"
                              /\ jobs'[i].attempts = 0

\* Worker w begins with the job j.
Begins(w, j) == \E m \in Claims : Moved(w, "claimed", m) /\ m.job = j

\* The smaller of two numbers.
LEMMA MinOfTwo ==
    ASSUME NEW a \in Nat, NEW b \in Nat
    PROVE  Min({a, b}) \in {a, b} /\ Min({a, b}) <= a /\ Min({a, b}) <= b
<1>1. \E x \in {a, b} : \A y \in {a, b} : x <= y
  <2>1. CASE a <= b
    BY <2>1
  <2>2. CASE b <= a
    BY <2>2
  <2> QED
    BY <2>1, <2>2
<1> QED
  BY <1>1 DEF Min

\* A batch ends beyond its first turn, and no later than the last one saved.
LEMMA BatchEnds ==
    ASSUME JournalOK, NEW c \in Conversations, NEW start \in Nat, start < turns[c]
    PROVE  start < BatchEnd(start, c) /\ BatchEnd(start, c) \in 0 .. MaxTurns
<1>1. turns[c] \in 0 .. MaxTurns /\ start + BatchTurns \in Nat /\ start < start + BatchTurns
  BY JobsAssumption DEF JournalOK
<1>2. BatchEnd(start, c) \in {start + BatchTurns, turns[c]} /\ BatchEnd(start, c) <= turns[c]
  BY <1>1, MinOfTwo DEF BatchEnd
<1> QED
  BY <1>1, <1>2, JobsAssumption

\* What a claim knows of its job is what the journal holds.
LEMMA BeginEffect ==
    ASSUME ThreadsOK, NEW w \in Workers, NEW j \in JobIds, jobs'[j] \in JobRecords, Begin(w, j)
    PROVE  Begins(w, j)
<1>1. PICK o \in JobRecords : o = jobs'[j]
  OBVIOUS
<1>2. PICK m : m = [Nothing EXCEPT !.job = j, !.attempt = o.attempts, !.packet = o.packet, !.result = o.result]
  OBVIOUS
<1>3. Nothing \in Claims
  BY DEF Nothing, Claims, Packets
<1>4. m \in Claims /\ m.job = j
  BY <1>2, <1>3 DEF Claims, JobRecords
<1>5. Moved(w, "claimed", m)
  BY <1>1, <1>2 DEF Begin, Goto, Keep, Moved
<1> QED
  BY <1>4, <1>5 DEF Begins

\* A claim sweeps, and takes up a waiting job, opens a batch or finds nothing.
LEMMA ClaimEffect ==
    ASSUME JournalOK, ThreadsOK, NEW w \in Workers, Claim(w)
    PROVE  /\ UNCHANGED <<turns, operations, notes, cancel, late, edits, exposed, crashes, overruns>>
           /\ at[w] = "idle" /\ progress' = Advanced(jobs, Exhausted)
           /\ \/ jobs' = Swept /\ UNCHANGED <<at, mine>>
              \/ \E j \in JobIds : TakesUp(j) /\ Begins(w, j)
              \/ \E c \in Conversations, count \in 1 .. MaxSegments, n \in Nat :
                     Opens(c, count, n) /\ Begins(w, First(c))
<1>1. /\ UNCHANGED <<turns, operations, notes, cancel, late, edits, exposed, crashes, overruns>>
      /\ at[w] = "idle" /\ progress' = Advanced(jobs, Exhausted)
  BY DEF Claim, MayClaim, ClaimNothing, ClaimWaiting, ClaimBatch, Begin, workerVars, history
<1>s. Swept \in [DOMAIN jobs -> JobRecords] /\ DOMAIN jobs \subseteq JobIds
  BY SweepEffect DEF JournalOK
<1>2. CASE ClaimNothing /\ UNCHANGED <<workerVars, history>>
  BY <1>1, <1>2 DEF ClaimNothing, workerVars
<1>3. ASSUME NEW j \in DOMAIN jobs, ClaimWaiting(j), Begin(w, j)
      PROVE  TakesUp(j) /\ Begins(w, j) /\ j \in JobIds
  <2>1. PICK q \in JobRecords :
            /\ jobs' = [Swept EXCEPT ![j] = q]
            /\ q.state = "proposing" /\ q.lease = "live" /\ q.attempts = Swept[j].attempts + 1
            /\ q.next = Swept[j].next
    BY <1>s, <1>3, TakenEffect DEF ClaimWaiting
  <2>2. Swept[j].attempts = jobs[j].attempts /\ Swept[j].next = jobs[j].next
    BY SweepEffect
  <2>3. TakesUp(j)
    BY <1>3, <2>1, <2>2 DEF TakesUp, ClaimWaiting
  <2>4. jobs'[j] = q
    BY <1>s, <2>1
  <2> QED
    BY <1>s, <1>3, <2>3, <2>4, BeginEffect
<1>4. ASSUME NEW c \in Conversations, NEW count \in 1 .. MaxSegments, ClaimBatch(c, count),
             Begin(w, [conv |-> c, start |-> progress'[c], segment |-> 0])
      PROVE  \E n \in Nat : Opens(c, count, n) /\ Begins(w, First(c))
  <2>1. PICK start \in Nat : start = progress'[c] /\ start < turns[c]
    <3>1. Advanced(jobs, Exhausted) \in [Conversations -> 0 .. MaxTurns]
      BY AdvancedIsMax DEF Exhausted
    <3>2. progress'[c] < turns[c]
      BY <1>1, <1>4 DEF ClaimBatch, Candidates
    <3> QED
      BY <1>1, <3>1, <3>2
  <2>2. PICK n \in 0 .. MaxTurns : n = BatchEnd(start, c) /\ start < n
    BY <2>1, BatchEnds
  <2>3. PICK ids : ids = Segments(c, count)
    OBVIOUS
  <2>4. ids \subseteq JobIds /\ First(c) \in ids
    <3>1. start \in 0 .. MaxTurns - 1 /\ count - 1 \in Nat /\ 0 .. count - 1 \subseteq 0 .. MaxSegments - 1
      BY <2>1, JobsAssumption DEF JournalOK
    <3>2. 0 \in 0 .. count - 1
      BY <3>1
    <3> QED
      BY <2>1, <2>3, <3>1, <3>2 DEF Segments, JobIds, First
  <2>5. PICK batch : batch = Batch(c, start, count)
    OBVIOUS
  <2>6. /\ batch \in [ids -> JobRecords]
        /\ \A i \in ids : /\ batch[i].next = (IF i.segment = count - 1 THEN n ELSE start)
                          /\ batch[i].state = "queued" /\ batch[i].lease = "none" /\ batch[i].attempts = 0
    <3>1. ASSUME NEW i \in ids
          PROVE  /\ batch[i] \in JobRecords
                 /\ batch[i].next = (IF i.segment = count - 1 THEN n ELSE start)
                 /\ batch[i].state = "queued" /\ batch[i].lease = "none" /\ batch[i].attempts = 0
      <4>0. start \in 0 .. MaxTurns
        BY <2>1, <2>2, JobsAssumption
      <4>1. PICK next \in 0 .. MaxTurns : next = IF i.segment = count - 1 THEN n ELSE start
        <5>1. CASE i.segment = count - 1
          BY <5>1, <2>2
        <5>2. CASE i.segment # count - 1
          BY <5>2, <4>0
        <5> QED
          BY <5>1, <5>2
      <4>2. batch[i] = [next |-> next, state |-> "queued", result |-> NoResult, packet |-> NoResult,
                        attempts |-> 0, retry |-> "due", lease |-> "none"]
        BY <2>1, <2>2, <2>3, <2>5, <4>1 DEF Batch, Segments
      <4> QED
        BY <4>1, <4>2 DEF JobRecords, Waiting, Packets
    <3>2. DOMAIN batch = ids /\ batch = [i \in ids |-> batch[i]]
      BY <2>1, <2>3, <2>5 DEF Batch, Segments
    <3> QED
      BY <3>1, <3>2
  <2>7. PICK table : table = [i \in DOMAIN jobs \cup ids |-> IF i \in ids THEN batch[i] ELSE Swept[i]]
    OBVIOUS
  <2>8. table \in [DOMAIN jobs \cup ids -> JobRecords]
    BY <1>s, <2>6, <2>7
  <2>9. PICK q \in JobRecords :
            /\ jobs' = [table EXCEPT ![First(c)] = q]
            /\ q.state = "proposing" /\ q.lease = "live" /\ q.attempts = 0 + 1
            /\ q.next = table[First(c)].next
    <3>1. jobs' = Taken(table, First(c))
      <4>1. Advanced(jobs, Exhausted)[c] = start /\ First(c) = [conv |-> c, start |-> start, segment |-> 0]
        BY <1>1, <2>1 DEF First
      <4>2. jobs' = Taken([i \in DOMAIN Swept \cup DOMAIN batch |->
                              IF i \in DOMAIN batch THEN batch[i] ELSE Swept[i]], First(c))
        BY <1>4, <2>5, <4>1 DEF ClaimBatch
      <4>3. DOMAIN Swept = DOMAIN jobs /\ DOMAIN batch = ids
        BY <1>s, <2>6
      <4> QED
        BY <2>7, <4>2, <4>3
    <3>2. table[First(c)] = batch[First(c)]
      BY <2>4, <2>7
    <3> QED
      BY <2>4, <2>6, <2>8, <3>1, <3>2, TakenEffect
  <2>10. Opens(c, count, n)
    <3>1. /\ jobs' \in [DOMAIN jobs \cup ids -> JobRecords]
          /\ \A i \in DOMAIN jobs \ ids : jobs'[i] = Swept[i]
          /\ \A i \in ids : i # First(c) => jobs'[i] = batch[i]
          /\ jobs'[First(c)] = q
      BY <2>4, <2>7, <2>8, <2>9
    <3>2. Leased(Swept) = {} /\ c \in Candidates(Swept, progress')
      BY <1>1, <1>4 DEF ClaimBatch
    <3>3. q.next = IF First(c).segment = count - 1 THEN n ELSE start
      BY <2>4, <2>6, <2>7, <2>9
    <3> QED
      BY <2>1, <2>2, <2>3, <2>4, <2>6, <2>9, <3>1, <3>2, <3>3 DEF Opens
  <2>11. Begins(w, First(c))
    <3>1. jobs'[First(c)] \in JobRecords
      BY <2>3, <2>4, <2>10 DEF Opens
    <3> QED
      BY <1>4, <2>3, <2>4, <3>1, BeginEffect DEF First
  <2> QED
    BY <2>2, <2>10, <2>11
<1> QED
  BY <1>1, <1>2, <1>3, <1>4 DEF Claim

\* Every step is of one of these kinds.
LEMMA StepKinds ==
    ASSUME JournalOK, ThreadsOK, NotesOK, [Next]_vars
    PROVE  \/ \E w \in Workers : Works(w) \/ Leaves(w) \/ Claim(w) \/ Crash(w)
           \/ \E n \in AllNotes, how \in {"edit", "delete"} : UserChanges(n, how)
           \/ \E j \in JobIds : TimePasses(j)
           \/ Aside
<1>1. ASSUME NEW w \in Workers, Step(w) PROVE Works(w) \/ Leaves(w)
  BY <1>1, WorkSteps, LeaveSteps
<1>2. ASSUME NEW w \in Workers, CallArrives(w) \/ CallsLeave(w) \/ Close(w) PROVE Aside
  BY <1>2 DEF CallArrives, CallsLeave, Close, Interrupt, jobVars, history, Aside
<1>3. ASSUME NEW w \in Workers, NEW s \in Switches, SwitchOff(w, s) \/ SwitchOn(w, s) PROVE Aside
  BY <1>3 DEF SwitchOff, SwitchOn, Interrupt, jobVars, history, Aside
<1>4. ASSUME NEW c \in Conversations, Grow(c) PROVE Aside
  BY <1>4 DEF Grow, SaveTurn, workerVars, history, Aside
<1>5. CASE UNCHANGED vars
  BY <1>5 DEF vars, jobVars, workerVars, history, Aside
<1> QED
  BY <1>1, <1>2, <1>3, <1>4, <1>5 DEF Next

(***************************************************************************)
(* The journal, the threads and the notes                                  *)
(***************************************************************************)

\* A job that is rewritten leaves the journal in order.
LEMMA RewrittenOK ==
    ASSUME JournalOK, NEW j \in DOMAIN jobs, NEW q, Rewritten(j, q)
    PROVE  /\ DOMAIN jobs' = DOMAIN jobs /\ jobs' \in [DOMAIN jobs' -> JobRecords]
           /\ jobs'[j] = q /\ \A i \in DOMAIN jobs : i # j => jobs'[i] = jobs[i]
  BY DEF JournalOK, Rewritten

\* A record that is journaled stays with the others.
LEMMA JournalsOK ==
    ASSUME JournalOK, ThreadsOK, NEW w \in Workers, Journals(w), at[w] \in Recorded
    PROVE  /\ DOMAIN operations' = DOMAIN operations \cup {<<mine[w].job, mine[w].op>>}
           /\ DOMAIN operations' \subseteq NewNotes
           /\ operations' \in [DOMAIN operations' -> Records]
           /\ operations'[<<mine[w].job, mine[w].op>>].after = mine[w].record.after
           /\ operations'[<<mine[w].job, mine[w].op>>].before = mine[w].record.before
           /\ at[w] = "written" => operations'[<<mine[w].job, mine[w].op>>].done = "yes"
           /\ \A o \in DOMAIN operations : o # <<mine[w].job, mine[w].op>> => operations'[o] = operations[o]
<1>1. PICK record \in Records :
          /\ operations' = [p \in DOMAIN operations \cup {<<mine[w].job, mine[w].op>>} |->
                                IF p = <<mine[w].job, mine[w].op>> THEN record ELSE operations[p]]
          /\ record.before = mine[w].record.before /\ record.after = mine[w].record.after
          /\ at[w] = "written" => record.done = "yes"
  BY DEF Journals, Journal
<1>2. <<mine[w].job, mine[w].op>> \in NewNotes
  <2>1. /\ mine[w].job \in JobIds /\ Accepted(mine[w].result)
        /\ mine[w].op # 0 /\ mine[w].op <= Len(mine[w].result.ops)
    BY DEF ThreadsOK, Fits, Recorded, Writing, JournalOK
  <2> QED
    BY <2>1, OpUnderWay
<1> QED
  BY <1>1, <1>2 DEF JournalOK

\* What a finished job does to the progress of its conversation.
LEMMA FinishedProgress ==
    ASSUME JournalOK, NEW j \in DOMAIN jobs, NEW s, NEW r, FinishJob(j, s, r)
    PROVE  /\ UNCHANGED <<turns, operations>> /\ progress' \in [Conversations -> 0 .. MaxTurns]
           /\ \A c \in Conversations : c # j.conv => progress'[c] = progress[c]
           /\ s = "deferred" => progress' = progress
           /\ s # "deferred" => /\ jobs[j].next <= progress'[j.conv]
                                /\ progress'[j.conv] \in {progress[j.conv], jobs[j].next}
<1>1. UNCHANGED <<turns, operations>>
  BY DEF FinishJob
<1>2. CASE s = "deferred"
  <2>1. progress' = progress
    BY <1>2 DEF FinishJob
  <2> QED
    BY <1>1, <1>2, <2>1 DEF JournalOK
<1>3. CASE s # "deferred"
  <2>1. progress' = Advanced(jobs, {j})
    BY <1>3 DEF FinishJob
  <2>2. /\ Advanced(jobs, {j}) \in [Conversations -> 0 .. MaxTurns]
        /\ \A c \in Conversations :
              /\ progress[c] <= Advanced(jobs, {j})[c]
              /\ \/ Advanced(jobs, {j})[c] = progress[c]
                 \/ \E i \in {j} : i.conv = c /\ Advanced(jobs, {j})[c] = jobs[i].next
        /\ \A i \in {j} : jobs[i].next <= Advanced(jobs, {j})[i.conv]
    BY AdvancedIsMax
  <2> QED
    BY <1>1, <1>3, <2>1, <2>2 DEF JournalOK, JobIds
<1> QED
  BY <1>2, <1>3

\* Every step keeps the journal in order, and forgets no job and no operation.
LEMMA JournalStep ==
    ASSUME JournalOK, ThreadsOK, NotesOK, [Next]_vars
    PROVE  JournalOK' /\ DOMAIN jobs \subseteq DOMAIN jobs' /\ DOMAIN operations \subseteq DOMAIN operations'
<1>1. ASSUME NEW w \in Workers, Works(w)
      PROVE  JournalOK' /\ DOMAIN jobs \subseteq DOMAIN jobs' /\ DOMAIN operations \subseteq DOMAIN operations'
  <2>1. UNCHANGED <<turns, progress>> /\ mine[w].job \in DOMAIN jobs
    BY <1>1 DEF Works, ThreadsOK, Fits
  <2>2. DOMAIN jobs' = DOMAIN jobs /\ jobs' \in [DOMAIN jobs' -> JobRecords]
    <3>1. CASE jobs' = jobs
      BY <3>1 DEF JournalOK
    <3>2. CASE Staged(w)
      BY <3>2, <2>1, RewrittenOK DEF Staged
    <3> QED
      BY <1>1, <3>1, <3>2 DEF Works
  <2>3. /\ DOMAIN operations' \subseteq NewNotes /\ operations' \in [DOMAIN operations' -> Records]
        /\ DOMAIN operations \subseteq DOMAIN operations'
    <3>1. CASE operations' = operations
      BY <3>1 DEF JournalOK
    <3>2. CASE Journals(w) /\ at[w] \in Recorded
      BY <3>2, JournalsOK
    <3> QED
      BY <1>1, <3>1, <3>2 DEF Works, Recorded
  <2> QED
    BY <2>1, <2>2, <2>3 DEF JournalOK
<1>2. ASSUME NEW w \in Workers, Leaves(w)
      PROVE  JournalOK' /\ DOMAIN jobs \subseteq DOMAIN jobs' /\ DOMAIN operations \subseteq DOMAIN operations'
  <2>1. mine[w].job \in DOMAIN jobs /\ mine[w].result \in {NoResult} \cup Results
    BY <1>2 DEF Leaves, ThreadsOK, Fits, Claims
  <2>2. PICK s \in {"deferred"} \cup Terminal : FinishJob(mine[w].job, s, mine[w].result)
    BY <1>2 DEF Leaves
  <2>3. DOMAIN jobs' = DOMAIN jobs /\ jobs' \in [DOMAIN jobs' -> JobRecords]
    <3>1. PICK q : Rewritten(mine[w].job, q)
      BY <2>1, <2>2, FinishEffect
    <3> QED
      BY <2>1, <3>1, RewrittenOK
  <2>4. UNCHANGED <<turns, operations>> /\ progress' \in [Conversations -> 0 .. MaxTurns]
    BY <2>1, <2>2, FinishedProgress
  <2> QED
    BY <2>3, <2>4 DEF JournalOK
<1>3. ASSUME NEW w \in Workers, Claim(w)
      PROVE  JournalOK' /\ DOMAIN jobs \subseteq DOMAIN jobs' /\ DOMAIN operations \subseteq DOMAIN operations'
  <2>1. UNCHANGED <<turns, operations>> /\ progress' \in [Conversations -> 0 .. MaxTurns]
    <3>1. UNCHANGED <<turns, operations>> /\ progress' = Advanced(jobs, Exhausted)
      BY <1>3, ClaimEffect
    <3> QED
      BY <3>1, AdvancedIsMax DEF Exhausted
  <2>2. Swept \in [DOMAIN jobs -> JobRecords]
    BY SweepEffect
  <2>3. /\ DOMAIN jobs \subseteq DOMAIN jobs' /\ DOMAIN jobs' \subseteq JobIds
        /\ jobs' \in [DOMAIN jobs' -> JobRecords]
    <3>1. CASE jobs' = Swept
      BY <2>2, <3>1 DEF JournalOK
    <3>2. ASSUME NEW j \in JobIds, TakesUp(j)
          PROVE  DOMAIN jobs' = DOMAIN jobs /\ jobs' \in [DOMAIN jobs' -> JobRecords]
      BY <2>2, <3>2 DEF TakesUp
    <3>3. ASSUME NEW c \in Conversations, NEW count \in 1 .. MaxSegments, NEW n \in Nat, Opens(c, count, n)
          PROVE  /\ DOMAIN jobs \subseteq DOMAIN jobs' /\ DOMAIN jobs' \subseteq JobIds
                 /\ jobs' \in [DOMAIN jobs' -> JobRecords]
      BY <3>3 DEF Opens, JournalOK
    <3> QED
      BY <1>3, <3>1, <3>2, <3>3, ClaimEffect DEF JournalOK
  <2> QED
    BY <2>1, <2>3 DEF JournalOK
<1>4. ASSUME NEW j \in JobIds, TimePasses(j)
      PROVE  JournalOK' /\ DOMAIN jobs \subseteq DOMAIN jobs' /\ DOMAIN operations \subseteq DOMAIN operations'
  <2>1. Lapse(j) \/ RetryDue(j)
    BY <1>4 DEF TimePasses
  <2>2. UNCHANGED <<turns, progress, operations>>
    BY <2>1 DEF Lapse, RetryDue
  <2>3. DOMAIN jobs' = DOMAIN jobs /\ jobs' \in [DOMAIN jobs' -> JobRecords]
    BY <2>1, TimeEffect, RewrittenOK
  <2> QED
    BY <2>2, <2>3 DEF JournalOK
<1>5. CASE Aside \/ (\E w \in Workers : Crash(w))
           \/ \E n \in AllNotes, how \in {"edit", "delete"} : UserChanges(n, how)
  <2>1. UNCHANGED <<progress, jobs, operations>> /\ (turns' = turns \/ \E c \in Conversations : SaveTurn(c))
    BY <1>5 DEF Aside, Crash, UserChanges, jobVars
  <2>2. turns' \in [Conversations -> 0 .. MaxTurns]
    BY <2>1, JobsAssumption DEF JournalOK, SaveTurn
  <2> QED
    BY <2>1, <2>2 DEF JournalOK
<1> QED
  BY <1>1, <1>2, <1>3, <1>4, <1>5, StepKinds


\* What a thread knows still fits when jobs are added.
LEMMA FitsStays ==
    ASSUME DOMAIN jobs \subseteq DOMAIN jobs'
    PROVE  \A place, m : Fits(place, m) => Fits(place, m)'
  BY DEF Fits

\* Every step leaves each thread at a place that what it knows fits.
LEMMA ThreadsStep ==
    ASSUME JournalOK, ThreadsOK, NotesOK, [Next]_vars
    PROVE  ThreadsOK'
<1>1. DOMAIN jobs \subseteq DOMAIN jobs'
  BY JournalStep
<1>2. ASSUME NEW w \in Workers, NEW place \in Places, NEW m \in Claims, Moved(w, place, m), Fits(place, m)'
      PROVE  ThreadsOK'
  <2>1. at' \in [Workers -> Places] /\ mine' \in [Workers -> Claims]
    BY <1>2 DEF ThreadsOK, Moved
  <2>2. \A v \in Workers : Fits(at[v], mine[v])'
    <3>1. Fits(at[w], mine[w])'
      BY <1>2 DEF ThreadsOK, Moved
    <3>2. ASSUME NEW v \in Workers, v # w PROVE Fits(at[v], mine[v])'
      <4>1. at'[v] = at[v] /\ mine'[v] = mine[v]
        BY <1>2, <3>2 DEF ThreadsOK, Moved
      <4>2. Fits(at[v], mine[v])
        BY DEF ThreadsOK
      <4>3. PICK a, n : a = at[v] /\ n = mine[v]
        OBVIOUS
      <4> QED
        BY <1>1, <4>1, <4>2, <4>3, FitsStays
    <3> QED
      BY <3>1, <3>2
  <2> QED
    BY <2>1, <2>2 DEF ThreadsOK
<1>3. CASE UNCHANGED <<at, mine>>
  <2>1. ASSUME NEW v \in Workers PROVE Fits(at[v], mine[v])'
    <3>1. PICK a, n : a = at[v] /\ n = mine[v]
      OBVIOUS
    <3> QED
      BY <1>1, <1>3, <3>1, FitsStays DEF ThreadsOK
  <2> QED
    BY <1>3, <2>1 DEF ThreadsOK
<1>4. Nothing \in Claims /\ Fits("idle", Nothing)' /\ "idle" \in Places
  BY DEF Nothing, Claims, Packets, Fits, Writing, Recorded, Places
<1>5. ASSUME NEW w \in Workers, Works(w) PROVE ThreadsOK'
  BY <1>1, <1>2, <1>5, FitsStays DEF Works, Goes
<1>6. ASSUME NEW w \in Workers, Leaves(w) \/ Crash(w) PROVE ThreadsOK'
  BY <1>2, <1>4, <1>6 DEF Leaves, Crash, Goto, Keep, Moved
<1>7. ASSUME NEW w \in Workers, NEW j \in JobIds, j \in DOMAIN jobs', Begins(w, j) PROVE ThreadsOK'
  <2>1. PICK m \in Claims : Moved(w, "claimed", m) /\ m.job = j
    BY <1>7 DEF Begins
  <2>2. Fits("claimed", m)' /\ "claimed" \in Places
    <3>1. "claimed" \in Places /\ "claimed" \notin Writing \cup {"approved"} /\ "claimed" \notin Recorded
      BY DEF Places, Writing, Recorded
    <3>2. m.job \in DOMAIN jobs' /\ m.job # NoResult
      BY <1>7, <2>1, JobsAssumption
    <3> QED
      BY <3>1, <3>2 DEF Fits
  <2> QED
    BY <1>2, <2>1, <2>2
<1>8. ASSUME NEW w \in Workers, Claim(w) PROVE ThreadsOK'
  <2>1. ASSUME NEW j \in JobIds, TakesUp(j), Begins(w, j) PROVE ThreadsOK'
    BY <1>1, <1>7, <2>1 DEF TakesUp
  <2>2. ASSUME NEW c \in Conversations, NEW count \in 1 .. MaxSegments, NEW n \in Nat,
               Opens(c, count, n), Begins(w, First(c))
        PROVE  ThreadsOK'
    <3>1. First(c) \in Segments(c, count)
      <4>1. 0 \in 0 .. count - 1
        BY JobsAssumption
      <4> QED
        BY <4>1 DEF First, Segments
    <3>2. First(c) \in JobIds /\ First(c) \in DOMAIN jobs'
      BY <2>2, <3>1 DEF Opens
    <3> QED
      BY <1>7, <2>2, <3>2
  <2> QED
    BY <1>3, <1>8, <2>1, <2>2, ClaimEffect
<1>9. CASE Aside \/ (\E j \in JobIds : TimePasses(j))
           \/ \E n \in AllNotes, how \in {"edit", "delete"} : UserChanges(n, how)
  BY <1>3, <1>9 DEF Aside, TimePasses, UserChanges, workerVars
<1> QED
  BY <1>5, <1>6, <1>8, <1>9, StepKinds

\* Every step leaves notes and edits of their types.
LEMMA NotesStep ==
    ASSUME JournalOK, ThreadsOK, NotesOK, [Next]_vars
    PROVE  NotesOK'
<1>1. ASSUME NEW w \in Workers, Works(w) PROVE NotesOK'
  <2>1. CASE notes' = notes
    BY <1>1, <2>1 DEF Works, NotesOK
  <2>2. CASE Writes(w)
    <3>1. at[w] \in Recorded /\ at[w] \in Writing /\ at[w] # "idle"
      BY <2>2 DEF Writes, Recorded, Writing
    <3>2. mine[w].record \in Records
      BY <3>1 DEF ThreadsOK, Fits
    <3>3. mine[w].record.after \in Contents
      BY <3>2 DEF Records
    <3> QED
      BY <1>1, <2>2, <3>3 DEF Works, Writes, NotesOK
  <2> QED
    BY <1>1, <2>1, <2>2 DEF Works
<1>2. ASSUME NEW w \in Workers, Leaves(w) \/ Claim(w) PROVE NotesOK'
  BY <1>2, ClaimEffect DEF Leaves, NotesOK
<1>3. ASSUME NEW w \in Workers, Crash(w) PROVE NotesOK'
  BY <1>3 DEF Crash, NotesOK
<1>4. ASSUME NEW n \in AllNotes, NEW how \in {"edit", "delete"}, UserChanges(n, how) PROVE NotesOK'
  <2>1. edits' \in Seq([note : AllNotes, how : {"edit", "delete"}])
    <3>1. PICK e \in [note : AllNotes, how : {"edit", "delete"}] : e = [note |-> n, how |-> how]
      OBVIOUS
    <3>2. edits' = Append(edits, e)
      BY <1>4, <3>1 DEF UserChanges
    <3> QED
      BY <3>2, AppendProperties DEF NotesOK
  <2>2. notes' \in [AllNotes -> Contents]
    <3>1. <<"user", Len(edits) + 1>> \in Entries
      <4>1. Len(edits) + 1 \in Nat
        BY LenProperties DEF NotesOK
      <4> QED
        BY <4>1 DEF Entries
    <3>2. Append(notes[n], <<"user", Len(edits) + 1>>) \in Contents /\ <<>> \in Contents
      BY <3>1, AppendProperties, EmptySeq DEF NotesOK, Contents
    <3>3. PICK content \in Contents : notes' = [notes EXCEPT ![n] = content]
      BY <1>4, <3>2 DEF UserChanges
    <3> QED
      BY <3>3 DEF NotesOK
  <2> QED
    BY <1>4, <2>1, <2>2 DEF UserChanges, NotesOK
<1>5. ASSUME NEW j \in JobIds, TimePasses(j) PROVE NotesOK'
  <2>1. UNCHANGED <<notes, edits, crashes>>
    BY <1>5 DEF TimePasses, workerVars
  <2>2. overruns' = overruns \/ overruns' = overruns + 1
    BY <1>5 DEF TimePasses
  <2> QED
    BY <2>1, <2>2 DEF NotesOK
<1>6. CASE Aside
  BY <1>6 DEF Aside, NotesOK
<1> QED
  BY <1>1, <1>2, <1>3, <1>4, <1>5, <1>6, StepKinds


(***************************************************************************)
(* Writes of a worker that was told to stop                                *)
(***************************************************************************)

\* A worker told to stop finishes the write it is in, and looks before the next:
\* it is then refused.
LEMMA LateStep ==
    ASSUME JournalOK, ThreadsOK, NotesOK, LateOK, [Next]_vars
    PROVE  LateOK'
<1>1. ASSUME NEW w \in Workers, Step(w), ~ Finish(w), ~ FinishFailed(w), ~ Write(w) PROVE LateOK'
  <2>1. UNCHANGED <<late, cancel>>
    BY <1>1 DEF Step, Prepare, Lease, Review, Curate, Decide, OpenApply, Look, Record, Compare, Confirm
  <2>2. \A v \in Workers : v # w => at'[v] = at[v]
    BY <1>1, WorkSteps, GoesOn DEF Works
  <2>3. ASSUME late[w] = 1 PROVE cancel[w] = "set" /\ at'[w] \in {"applying", "failing", "finishing"}
    <3>1. cancel[w] = "set" /\ at[w] \in {"written", "applying", "failing", "finishing"}
      BY <2>3 DEF LateOK
    <3>2. Look(w) \/ Confirm(w)
      BY <1>1, <3>1 DEF Step, Prepare, Lease, Review, Curate, Decide, OpenApply, Record, Compare
    <3>3. CASE Look(w)
      BY <3>1, <3>3 DEF Look, Refused, Interrupted, Raise, Goto, ThreadsOK
    <3>4. CASE Confirm(w)
      <4>1. Goto(w, "failing") \/ Goto(w, "applying")
        BY <3>4 DEF Confirm, Raise
      <4> QED
        BY <3>1, <4>1 DEF Goto, ThreadsOK
    <3> QED
      BY <3>1, <3>2, <3>3, <3>4
  <2> QED
    BY <2>1, <2>2, <2>3 DEF LateOK
<1>2. ASSUME NEW w \in Workers, Write(w) PROVE LateOK'
  <2>1. at[w] = "writing" /\ cancel' = cancel /\ late[w] = 0
    BY <1>2 DEF Write, LateOK
  <2>2. late' = [late EXCEPT ![w] = IF cancel[w] = "set" THEN 1 ELSE 0]
    BY <1>2, <2>1 DEF Write
  <2>3. at'[w] = "written" /\ \A v \in Workers : v # w => at'[v] = at[v]
    BY <1>2 DEF Write, Goto, ThreadsOK
  <2> QED
    BY <2>1, <2>2, <2>3 DEF LateOK
<1>3. ASSUME NEW w \in Workers, Leaves(w) \/ Crash(w) PROVE LateOK'
  <2>1. /\ cancel' = [cancel EXCEPT ![w] = "clear"] /\ late' = [late EXCEPT ![w] = 0]
        /\ at' = [at EXCEPT ![w] = "idle"]
    BY <1>3 DEF Leaves, Crash, Goto, Moved
  <2> QED
    BY <2>1 DEF LateOK, ThreadsOK
<1>4. ASSUME NEW w \in Workers, Claim(w) PROVE LateOK'
  <2>1. UNCHANGED <<late, cancel>> /\ at[w] = "idle" /\ (at' = at \/ \E j : Begins(w, j))
    BY <1>4, ClaimEffect
  <2>2. \A v \in Workers : v # w => at'[v] = at[v]
    <3>1. at' = at \/ at' = [at EXCEPT ![w] = "claimed"]
      BY <2>1 DEF Begins, Moved
    <3> QED
      BY <3>1 DEF ThreadsOK
  <2>3. late[w] = 0
    BY <2>1 DEF LateOK
  <2> QED
    BY <2>1, <2>2, <2>3 DEF LateOK
<1>5. ASSUME UNCHANGED <<at, late>>, cancel' = cancel \/ \E w \in Workers : cancel' = [cancel EXCEPT ![w] = "set"]
      PROVE  LateOK'
  BY <1>5 DEF LateOK
<1>6. ASSUME NEW w \in Workers, CallArrives(w) \/ CallsLeave(w) \/ Close(w)
      PROVE  LateOK'
  BY <1>5, <1>6 DEF CallArrives, CallsLeave, Close, Interrupt
<1>7. ASSUME NEW w \in Workers, NEW s \in Switches, SwitchOff(w, s) \/ SwitchOn(w, s) PROVE LateOK'
  BY <1>5, <1>7 DEF SwitchOff, SwitchOn, Interrupt
<1>8. CASE \/ \E n \in AllNotes, how \in {"edit", "delete"} : UserChanges(n, how)
           \/ \E j \in JobIds : TimePasses(j)
           \/ \E c \in Conversations : Grow(c)
           \/ UNCHANGED vars
  BY <1>5, <1>8 DEF UserChanges, TimePasses, Grow, vars, workerVars
<1>9. ASSUME NEW w \in Workers, Step(w) PROVE LateOK'
  BY <1>1, <1>2, <1>3, <1>9, LeaveSteps
<1> QED
  BY <1>3, <1>4, <1>6, <1>7, <1>8, <1>9 DEF Next


(***************************************************************************)
(* Attempts                                                                *)
(***************************************************************************)

\* A worker that is idle has no job.
LEMMA IdleHasNone ==
    ASSUME ThreadsOK, NEW w \in Workers, at[w] = "idle"
    PROVE  \A j \in JobIds : mine[w].job # j
  BY JobsAssumption DEF ThreadsOK, Fits


\* A job is attempted once more than its bound allows only if a worker died with
\* it, or its lease lapsed: a sweep parks it otherwise.
LEMMA AttemptsStep ==
    ASSUME JournalOK, ThreadsOK, NotesOK, AttemptsOK, [Next]_vars
    PROVE  AttemptsOK'
<1>0. /\ MaxAttempts \in Nat /\ MaxAttempts # 0 /\ crashes \in Nat /\ overruns \in Nat
      /\ Allowed \in Nat /\ MaxAttempts <= Allowed
      /\ \A j \in DOMAIN jobs : jobs[j].attempts \in Nat
  BY JobsAssumption DEF NotesOK, Allowed, JournalOK, JobRecords
<1>q. "queued" \notin Held /\ "queued" \notin {"deferred"} \cup Terminal
  BY DEF Held, Terminal
<1>1. ASSUME NEW w \in Workers, Works(w) PROVE AttemptsOK'
  <2>1. /\ Allowed' = Allowed /\ \A v \in Workers : mine'[v].job = mine[v].job
        /\ mine[w].job \in DOMAIN jobs
    BY <1>1, GoesOn DEF Works, Allowed, ThreadsOK, Fits
  <2>2. CASE jobs' = jobs
    BY <2>1, <2>2 DEF AttemptsOK, Orphaned
  <2>3. CASE Staged(w)
    <3>1. PICK q : Rewritten(mine[w].job, q) /\ q.state \in Held /\ q.lease = jobs[mine[w].job].lease
      BY <2>3 DEF Staged
    <3>2. /\ DOMAIN jobs' = DOMAIN jobs /\ jobs'[mine[w].job] = q
          /\ \A i \in DOMAIN jobs : i # mine[w].job => jobs'[i] = jobs[i]
      BY <2>1, <3>1, RewrittenOK
    <3>3. q.attempts = jobs[mine[w].job].attempts
      BY <3>1 DEF Rewritten
    <3> QED
      BY <1>q, <2>1, <3>1, <3>2, <3>3 DEF AttemptsOK, Orphaned
  <2> QED
    BY <1>1, <2>2, <2>3 DEF Works
<1>2. ASSUME NEW w \in Workers, Leaves(w) PROVE AttemptsOK'
  <2>1. mine[w].job \in DOMAIN jobs /\ mine[w].result \in {NoResult} \cup Results
    BY <1>2 DEF Leaves, ThreadsOK, Fits, Claims
  <2>2. PICK s \in {"deferred"} \cup Terminal : FinishJob(mine[w].job, s, mine[w].result)
    BY <1>2 DEF Leaves
  <2>3. PICK q : Rewritten(mine[w].job, q) /\ q.state = s /\ q.lease = "none"
    BY <2>1, <2>2, FinishEffect
  <2>4. /\ DOMAIN jobs' = DOMAIN jobs /\ jobs'[mine[w].job] = q
        /\ \A i \in DOMAIN jobs : i # mine[w].job => jobs'[i] = jobs[i]
        /\ q.attempts = jobs[mine[w].job].attempts
    BY <2>1, <2>3, RewrittenOK DEF Rewritten
  <2>5. Allowed' = Allowed /\ \A v \in Workers : v # w => mine'[v] = mine[v]
    BY <1>2 DEF Leaves, Allowed, Moved, ThreadsOK
  <2>6. ASSUME NEW i \in DOMAIN jobs, i # mine[w].job, Orphaned(i)' PROVE Orphaned(i)
    BY <2>4, <2>5, <2>6 DEF Orphaned
  <2> QED
    BY <1>q, <2>3, <2>4, <2>5, <2>6 DEF AttemptsOK, Orphaned
<1>3. ASSUME NEW w \in Workers, Claim(w) PROVE AttemptsOK'
  <2>1. at[w] = "idle" /\ Allowed' = Allowed
    BY <1>3, ClaimEffect DEF Allowed
  <2>2. ASSUME NEW i \in DOMAIN jobs
        PROVE  /\ Swept[i].attempts = jobs[i].attempts
               /\ Swept[i].lease # "none" => Swept[i].lease = jobs[i].lease
               /\ Swept[i].state = "queued" => jobs[i].state = "queued"
               /\ Swept[i].state \in Waiting => Swept[i].attempts < Allowed
    <3>1. Swept[i].attempts = jobs[i].attempts
      BY SweepEffect
    <3>2. Parked(i) \/ TakenBack(i) \/ (i \notin Exhausted /\ Swept[i] = jobs[i])
      BY SweepEffect
    <3>3. CASE Parked(i)
      BY <3>1, <3>3 DEF Parked, Waiting
    <3>4. CASE TakenBack(i)
      BY <3>1, <3>4 DEF TakenBack, AttemptsOK, Orphaned
    <3>5. CASE i \notin Exhausted /\ Swept[i] = jobs[i]
      <4>1. jobs[i].state = "queued" => jobs[i].attempts < Allowed
        BY <1>0 DEF AttemptsOK
      <4>2. jobs[i].state = "deferred" => jobs[i].attempts < Allowed
        BY <1>0, <3>5 DEF Exhausted
      <4> QED
        BY <3>5, <4>1, <4>2 DEF Waiting
    <3> QED
      BY <3>1, <3>2, <3>3, <3>4, <3>5
  <2>3. ASSUME \A v \in Workers : v # w => mine'[v] = mine[v], NEW i \in DOMAIN jobs,
               i \in DOMAIN jobs', jobs'[i] = Swept[i]
        PROVE  /\ jobs'[i].attempts <= Allowed /\ (Orphaned(i)' => jobs'[i].attempts < Allowed)
               /\ jobs'[i].state = "queued" => jobs'[i].attempts = 0
    <3>1. i \in JobIds
      BY DEF JournalOK
    <3>2. ASSUME Orphaned(i)' PROVE Orphaned(i)
      <4>1. mine[w].job # i
        BY <2>1, <3>1, IdleHasNone
      <4>2. jobs'[i].lease # "none" => jobs'[i].lease = jobs[i].lease
        BY <2>2, <2>3
      <4> QED
        BY <2>3, <3>2, <4>1, <4>2 DEF Orphaned
    <3> QED
      BY <2>2, <2>3, <3>2 DEF AttemptsOK
  <2>4. CASE jobs' = Swept /\ UNCHANGED mine
    <3>1. DOMAIN jobs' = DOMAIN jobs
      BY <2>4, SweepEffect
    <3> QED
      BY <2>1, <2>3, <2>4, <3>1 DEF AttemptsOK
  <2>5. ASSUME NEW j \in JobIds, TakesUp(j), Begins(w, j) PROVE AttemptsOK'
    <3>1. PICK q \in JobRecords :
              /\ jobs' = [Swept EXCEPT ![j] = q] /\ q.state = "proposing"
              /\ q.attempts = jobs[j].attempts + 1
      BY <2>5 DEF TakesUp
    <3>2. /\ j \in DOMAIN jobs /\ DOMAIN jobs' = DOMAIN jobs /\ jobs'[j] = q
          /\ \A i \in DOMAIN jobs : i # j => jobs'[i] = Swept[i]
      BY <2>5, <3>1, SweepEffect DEF TakesUp
    <3>3. mine'[w].job = j /\ \A v \in Workers : v # w => mine'[v] = mine[v]
      BY <2>5 DEF Begins, Moved, ThreadsOK
    <3>4. jobs'[j].attempts <= Allowed /\ ~ Orphaned(j)' /\ jobs'[j].state # "queued"
      <4>1. jobs[j].attempts < Allowed
        <5>1. Swept[j].state \in Waiting
          BY <2>5 DEF TakesUp, Eligible
        <5> QED
          BY <2>2, <3>2, <5>1
      <4>2. q.lease = "live"
        BY <2>5, <3>2, SweepEffect DEF TakesUp
      <4> QED
        BY <1>0, <3>1, <3>2, <3>3, <4>1, <4>2 DEF Orphaned
    <3> QED
      BY <2>1, <2>3, <3>2, <3>3, <3>4 DEF AttemptsOK
  <2>6. ASSUME NEW c \in Conversations, NEW count \in 1 .. MaxSegments, NEW n \in Nat,
               Opens(c, count, n), Begins(w, First(c))
        PROVE  AttemptsOK'
    <3>1. mine'[w].job = First(c) /\ \A v \in Workers : v # w => mine'[v] = mine[v]
      BY <2>6 DEF Begins, Moved, ThreadsOK
    <3>2. /\ DOMAIN jobs' = DOMAIN jobs \cup Segments(c, count)
          /\ \A i \in DOMAIN jobs \ Segments(c, count) : jobs'[i] = Swept[i]
      BY <2>6 DEF Opens
    <3>3. ASSUME NEW i \in Segments(c, count)
          PROVE  /\ jobs'[i].attempts <= Allowed /\ ~ Orphaned(i)'
                 /\ jobs'[i].state = "queued" => jobs'[i].attempts = 0
      <4>1. CASE i = First(c)
        BY <1>0, <2>6, <3>1, <3>3, <4>1 DEF Opens, Orphaned
      <4>2. CASE i # First(c)
        BY <1>0, <2>6, <3>3, <4>2 DEF Opens, Orphaned
      <4> QED
        BY <4>1, <4>2
    <3> QED
      BY <2>1, <2>3, <3>1, <3>2, <3>3 DEF AttemptsOK
  <2> QED
    BY <1>3, <2>4, <2>5, <2>6, ClaimEffect
<1>4. ASSUME NEW w \in Workers, Crash(w) PROVE AttemptsOK'
  <2>1. jobs' = jobs /\ Allowed' = Allowed + 1
    BY <1>0, <1>4 DEF Crash, jobVars, Allowed
  <2>2. \A j \in DOMAIN jobs : jobs[j].attempts <= Allowed /\ (jobs[j].state = "queued" => jobs[j].attempts = 0)
    BY DEF AttemptsOK
  <2> QED
    BY <1>0, <2>1, <2>2 DEF AttemptsOK
<1>5. ASSUME NEW j \in JobIds, TimePasses(j) PROVE AttemptsOK'
  <2>1. Lapse(j) \/ RetryDue(j)
    BY <1>5 DEF TimePasses
  <2>2. PICK q : /\ Rewritten(j, q) /\ q.state = jobs[j].state
                 /\ \/ jobs[j].lease = "live" /\ q.lease = "lapsed"
                    \/ q.lease = jobs[j].lease
    BY <2>1, TimeEffect
  <2>3. /\ j \in DOMAIN jobs /\ DOMAIN jobs' = DOMAIN jobs /\ jobs'[j] = q
        /\ \A i \in DOMAIN jobs : i # j => jobs'[i] = jobs[i]
        /\ q.attempts = jobs[j].attempts /\ mine' = mine
    BY <1>5, <2>1, <2>2, TimeEffect, RewrittenOK DEF Rewritten, TimePasses, workerVars
  <2>4. CASE overruns' = overruns + 1
    <3>1. Allowed' = Allowed + 1
      BY <1>0, <1>5, <2>4 DEF TimePasses, Allowed
    <3>2. \A i \in DOMAIN jobs : jobs'[i].attempts = jobs[i].attempts /\ jobs'[i].state = jobs[i].state
      BY <2>2, <2>3
    <3>3. \A i \in DOMAIN jobs : jobs[i].attempts <= Allowed /\ (jobs[i].state = "queued" => jobs[i].attempts = 0)
      BY DEF AttemptsOK
    <3> QED
      BY <1>0, <2>3, <3>1, <3>2, <3>3 DEF AttemptsOK
  <2>5. CASE overruns' = overruns
    <3>1. Allowed' = Allowed
      BY <1>5, <2>5 DEF TimePasses, Allowed
    <3>2. jobs[j].lease = "live" => Orphaned(j)
      BY <1>5, <2>5, <1>0 DEF TimePasses, Orphaned
    <3>3. ASSUME NEW i \in DOMAIN jobs, Orphaned(i)' PROVE Orphaned(i)
      BY <2>2, <2>3, <3>2, <3>3 DEF Orphaned
    <3> QED
      BY <2>2, <2>3, <3>1, <3>3 DEF AttemptsOK
  <2> QED
    BY <1>5, <2>4, <2>5 DEF TimePasses
<1>6. CASE Aside \/ \E n \in AllNotes, how \in {"edit", "delete"} : UserChanges(n, how)
  BY <1>6 DEF Aside, UserChanges, jobVars, Allowed, AttemptsOK, Orphaned
<1> QED
  BY <1>1, <1>2, <1>3, <1>4, <1>5, <1>6, StepKinds


(***************************************************************************)
(* Sections                                                                *)
(***************************************************************************)

\* A content with one entry more.
LEMMA Appended ==
    ASSUME NEW s \in Contents, NEW e \in Entries
    PROVE  /\ Within(s, Append(s, e)) /\ Has(Append(s, e), e)
           /\ \A x : Has(s, x) => Has(Append(s, e), x)
           /\ \A o : Holds(Append(s, e), o) => Holds(s, o) \/ SectionOf(e, o)
           /\ Once(s) /\ (e[1] = "section" => ~ Holds(s, <<e[2], e[3]>>)) => Once(Append(s, e))
<1>1. PICK t : t = Append(s, e)
  OBVIOUS
<1>2. /\ Len(s) \in Nat /\ Len(t) = Len(s) + 1
      /\ \A i \in 1 .. Len(s) : t[i] = s[i]
      /\ t[Len(s) + 1] = e
  BY <1>1, AppendProperties, LenProperties DEF Contents
<1>3. \A i \in 1 .. Len(t) : i \in 1 .. Len(s) \/ i = Len(s) + 1
  BY <1>2
<1>4. 1 .. Len(s) \subseteq 1 .. Len(t) /\ Len(s) + 1 \in 1 .. Len(t)
  BY <1>2
<1>5. Within(s, t) /\ Has(t, e) /\ \A x : Has(s, x) => Has(t, x)
  BY <1>2, <1>4 DEF Within, Has
<1>6. \A o : Holds(t, o) => Holds(s, o) \/ SectionOf(e, o)
  BY <1>2, <1>3 DEF Holds
<1>7. ASSUME Once(s), e[1] = "section" => ~ Holds(s, <<e[2], e[3]>>) PROVE Once(t)
  <2>1. ASSUME NEW i \in 1 .. Len(s), s[i][1] = "section", e[1] = "section", s[i][2] = e[2], s[i][3] = e[3]
        PROVE  FALSE
    BY <1>7, <2>1 DEF Holds, SectionOf
  <2>2. ASSUME NEW i \in 1 .. Len(t), NEW k \in 1 .. Len(t),
               t[i][1] = "section", t[k][1] = "section", t[i][2] = t[k][2], t[i][3] = t[k][3]
        PROVE  i = k
    <3>1. CASE i \in 1 .. Len(s) /\ k \in 1 .. Len(s)
      <4>1. t[i] = s[i] /\ t[k] = s[k]
        BY <1>2, <3>1
      <4> QED
        BY <1>7, <2>2, <3>1, <4>1 DEF Once
    <3>2. CASE i \in 1 .. Len(s) /\ k = Len(s) + 1
      <4>1. t[i] = s[i] /\ t[k] = e
        BY <1>2, <3>2
      <4> QED
        BY <2>1, <2>2, <3>2, <4>1
    <3>3. CASE i = Len(s) + 1 /\ k \in 1 .. Len(s)
      <4>1. t[k] = s[k] /\ t[i] = e
        BY <1>2, <3>3
      <4> QED
        BY <2>1, <2>2, <3>3, <4>1
    <3> QED
      BY <1>3, <3>1, <3>2, <3>3
  <2> QED
    BY <2>2 DEF Once
<1> QED
  BY <1>1, <1>5, <1>6, <1>7

\* A record that is in order stays in order when operations are journaled.
LEMMA RecordStays ==
    ASSUME DOMAIN operations \subseteq DOMAIN operations'
    PROVE  \A record, o : RecordOK(record, o) => RecordOK(record, o)'
  BY DEF RecordOK

\* The record of a change that is prepared is in order: the note holds sections
\* of journaled operations only, so not yet this one's.
LEMMA PreparedOK ==
    ASSUME JournalOK, ThreadsOK, NotesOK, SectionsOK, NEW w \in Workers, ~ Journaled(w),
           mine[w].job \in JobIds, Accepted(mine[w].result),
           mine[w].op # 0, mine[w].op <= Len(mine[w].result.ops)
    PROVE  RecordOK(Prepared(w), <<mine[w].job, mine[w].op>>)
<1>1. PICK s \in Contents, e \in Entries :
          /\ s = notes[Path(w)] /\ e = <<"section", mine[w].job, mine[w].op, mine[w].attempt>>
          /\ Prepared(w).before = s /\ Prepared(w).after = Append(s, e)
  BY PreparedRecord
<1>2. Path(w) \in AllNotes /\ <<mine[w].job, mine[w].op>> \in NewNotes
  BY OpUnderWay
<1>3. e[1] = "section" /\ e[2] = mine[w].job /\ e[3] = mine[w].op
  BY <1>1
<1>4. Once(s) /\ \A p \in NewNotes : Holds(s, p) => p \in DOMAIN operations
  BY <1>1, <1>2 DEF SectionsOK
<1>5. ~ Holds(s, <<e[2], e[3]>>)
  BY <1>2, <1>3, <1>4 DEF Journaled
<1>6. \A p \in NewNotes : SectionOf(e, p) => p = <<mine[w].job, mine[w].op>>
  BY <1>3 DEF SectionOf, NewNotes
<1> QED
  BY <1>1, <1>4, <1>5, <1>6, Appended DEF RecordOK

\* No note and no record ever holds the section of an operation twice, or of one
\* that is not in the journal or about to be put there.
LEMMA SectionsStep ==
    ASSUME JournalOK, ThreadsOK, NotesOK, SectionsOK, [Next]_vars
    PROVE  SectionsOK'
<1>0. DOMAIN operations \subseteq DOMAIN operations'
  BY JournalStep
<1>r. \A record, o : RecordOK(record, o) => RecordOK(record, o)'
  BY <1>0, RecordStays
<1>1. ASSUME NEW w \in Workers, Works(w) PROVE SectionsOK'
  <2>1. PICK place \in Places \ {"idle"}, m \in Claims :
            /\ at'[w] = place /\ mine'[w] = m /\ m.job = mine[w].job /\ Advances(w, place, m) /\ Fits(place, m)
            /\ \A v \in Workers : v # w => at'[v] = at[v] /\ mine'[v] = mine[v]
    BY <1>1 DEF Works, Goes, Moved, ThreadsOK
  <2>k. PICK key : key = <<mine[w].job, mine[w].op>>
    OBVIOUS
  <2>2. at[w] \in Recorded \ {"journaling"} => Journaled(w)
    BY DEF SectionsOK
  <2>3. at[w] \in Recorded => RecordOK(mine[w].record, key)
    BY <2>k DEF SectionsOK
  <2>4. ASSUME NEW n \in AllNotes
        PROVE  Once(notes'[n]) /\ \A p \in NewNotes : Holds(notes'[n], p) => p \in DOMAIN operations'
    <3>1. CASE notes'[n] = notes[n]
      BY <1>0, <3>1 DEF SectionsOK
    <3>2. CASE Writes(w) /\ notes'[n] # notes[n]
      <4>1. at[w] = "writing" /\ notes'[n] = mine[w].record.after
        BY <3>2 DEF Writes, NotesOK
      <4> QED
        BY <1>0, <2>2, <2>3, <2>k, <4>1 DEF RecordOK, Recorded, Journaled
    <3> QED
      BY <1>1, <3>1, <3>2 DEF Works
  <2>5. ASSUME NEW o \in DOMAIN operations' PROVE RecordOK(operations[o], o)'
    <3>1. CASE o \in DOMAIN operations /\ operations'[o] = operations[o]
      BY <1>r, <3>1 DEF SectionsOK
    <3>2. CASE Journals(w) /\ at[w] \in Recorded /\ ~ (o \in DOMAIN operations /\ operations'[o] = operations[o])
      <4>1. o = key /\ operations'[o].after = mine[w].record.after /\ operations'[o].before = mine[w].record.before
        BY <2>k, <3>2, JournalsOK
      <4>2. /\ Once(mine[w].record.after) /\ Within(mine[w].record.before, mine[w].record.after)
            /\ \A p \in NewNotes : Holds(mine[w].record.after, p) => p = o \/ p \in DOMAIN operations'
        BY <1>0, <2>3, <3>2, <4>1 DEF RecordOK
      <4> QED
        BY <4>1, <4>2 DEF RecordOK
    <3> QED
      BY <1>1, <3>1, <3>2 DEF Works, Recorded
  <2>6. ASSUME NEW v \in Workers, v # w
        PROVE  /\ at'[v] \in Recorded => RecordOK(mine[v].record, <<mine[v].job, mine[v].op>>)'
               /\ at'[v] \in Recorded \ {"journaling"} => Journaled(v)'
    <3>1. at'[v] = at[v] /\ mine'[v] = mine[v]
      BY <2>1, <2>6
    <3>2. ASSUME at[v] \in Recorded PROVE RecordOK(mine[v].record, <<mine[v].job, mine[v].op>>)'
      <4>1. PICK record, o : record = mine[v].record /\ o = <<mine[v].job, mine[v].op>>
        OBVIOUS
      <4>2. RecordOK(record, o)
        BY <3>2, <4>1 DEF SectionsOK
      <4> QED
        BY <1>r, <3>1, <4>1, <4>2
    <3> QED
      BY <1>0, <3>1, <3>2 DEF SectionsOK, Journaled
  <2>7. ASSUME place \in Recorded
        PROVE  /\ m.op = mine[w].op /\ RecordOK(m.record, key)
               /\ place # "journaling" => key \in DOMAIN operations'
    <3>1. mine[w].job \in JobIds
      BY <2>1 DEF Fits, JournalOK
    <3>2. CASE place = "journaling"
      <4>1. m.op = mine[w].op /\ m.result = mine[w].result /\ ~ Journaled(w) /\ m.record = Prepared(w)
        BY <2>1, <3>2 DEF Advances
      <4>2. Accepted(mine[w].result) /\ mine[w].op # 0 /\ mine[w].op <= Len(mine[w].result.ops)
        BY <2>1, <2>7, <4>1 DEF Fits, Writing
      <4> QED
        BY <2>k, <3>1, <3>2, <4>1, <4>2, PreparedOK
    <3>3. CASE place = "comparing"
      <4>1. CASE m.op = mine[w].op /\ Journaled(w) /\ m.record = operations[key]
        BY <1>0, <2>k, <3>3, <4>1 DEF SectionsOK, Journaled
      <4>2. CASE at[w] = "journaling" /\ m = mine[w]
        <5>1. Journals(w) /\ at[w] \in Recorded
          BY <1>1, <4>2 DEF Works, Recorded
        <5> QED
          BY <2>3, <2>k, <4>2, <5>1, JournalsOK
      <4> QED
        BY <2>1, <2>k, <3>3, <4>1, <4>2 DEF Advances
    <3>4. CASE place \in {"writing", "written"}
      <4>1. at[w] \in {"comparing", "writing"} /\ m = mine[w]
        BY <2>1, <3>4 DEF Advances
      <4> QED
        BY <1>0, <2>2, <2>3, <2>k, <4>1 DEF Recorded, Journaled
    <3> QED
      BY <2>7, <3>2, <3>3, <3>4 DEF Recorded
  <2>8. /\ at'[w] \in Recorded => RecordOK(mine[w].record, <<mine[w].job, mine[w].op>>)'
        /\ at'[w] \in Recorded \ {"journaling"} => Journaled(w)'
    <3>1. ASSUME place \in Recorded PROVE <<m.job, m.op>> = key /\ RecordOK(m.record, key)'
      BY <1>r, <2>1, <2>7, <2>k, <3>1
    <3> QED
      BY <2>1, <2>7, <3>1 DEF Journaled
  <2> QED
    BY <2>4, <2>5, <2>6, <2>8 DEF SectionsOK
<1>2. ASSUME UNCHANGED notes, operations' = operations,
             \A v \in Workers : (at'[v] = at[v] /\ mine'[v] = mine[v]) \/ at'[v] \notin Recorded
      PROVE  SectionsOK'
  <2>1. \A v \in Workers : at'[v] \in Recorded => at'[v] = at[v] /\ mine'[v] = mine[v]
    BY <1>2
  <2> QED
    BY <1>2, <2>1 DEF SectionsOK, RecordOK, Journaled
<1>3. ASSUME NEW w \in Workers, Leaves(w) \/ Claim(w) \/ Crash(w) PROVE SectionsOK'
  <2>1. UNCHANGED <<notes, operations>>
    <3>1. Claim(w) => UNCHANGED <<notes, operations>>
      BY ClaimEffect
    <3>2. Leaves(w) => UNCHANGED <<notes, operations>>
      BY DEF Leaves, FinishJob
    <3>3. Crash(w) => UNCHANGED <<notes, operations>>
      BY DEF Crash, jobVars
    <3> QED
      BY <1>3, <3>1, <3>2, <3>3
  <2>2. \/ UNCHANGED <<at, mine>>
        \/ \E place \in {"idle", "claimed"} : \E m : Moved(w, place, m)
    BY <1>3, ClaimEffect DEF Leaves, Crash, Goto, Keep, Moved, Begins
  <2> QED
    BY <1>2, <2>1, <2>2 DEF Moved, ThreadsOK, Recorded
<1>4. CASE Aside \/ \E j \in JobIds : TimePasses(j)
  <2>1. UNCHANGED <<notes, operations, at, mine>>
    BY <1>4 DEF Aside, TimePasses, Lapse, RetryDue, workerVars
  <2> QED
    BY <1>2, <2>1
<1>5. ASSUME NEW n \in AllNotes, NEW how \in {"edit", "delete"}, UserChanges(n, how) PROVE SectionsOK'
  <2>1. PICK e \in Entries : e = <<"user", Len(edits) + 1>>
    <3>1. Len(edits) + 1 \in Nat
      BY LenProperties DEF NotesOK
    <3> QED
      BY <3>1 DEF Entries
  <2>2. UNCHANGED <<operations, at, mine>> /\ \A i \in AllNotes : i # n => notes'[i] = notes[i]
    BY <1>5 DEF UserChanges, jobVars, NotesOK
  <2>3. notes'[n] = Append(notes[n], e) \/ notes'[n] = <<>>
    BY <1>5, <2>1 DEF UserChanges, NotesOK
  <2>4. Once(notes'[n]) /\ \A p \in NewNotes : Holds(notes'[n], p) => p \in DOMAIN operations
    <3>1. CASE notes'[n] = <<>>
      BY <3>1 DEF Once, Holds
    <3>2. CASE notes'[n] = Append(notes[n], e)
      <4>1. notes[n] \in Contents /\ e[1] # "section"
        BY <2>1 DEF NotesOK
      <4>2. \A o : ~ SectionOf(e, o)
        BY <4>1 DEF SectionOf
      <4> QED
        <5>1. Once(notes[n]) /\ \A p \in NewNotes : Holds(notes[n], p) => p \in DOMAIN operations
          BY DEF SectionsOK
        <5>2. /\ \A p : Holds(notes'[n], p) => Holds(notes[n], p) \/ SectionOf(e, p)
              /\ Once(notes[n]) => Once(notes'[n])
          <6>1. PICK s \in Contents : s = notes[n]
            BY <4>1
          <6>2. \A p : Holds(Append(s, e), p) => Holds(s, p) \/ SectionOf(e, p)
            BY Appended
          <6>3. Once(s) => Once(Append(s, e))
            BY <4>1, Appended
          <6> QED
            BY <3>2, <6>1, <6>2, <6>3
        <5> QED
          BY <4>2, <5>1, <5>2
    <3> QED
      BY <2>3, <3>1, <3>2
  <2> QED
    BY <2>2, <2>4 DEF SectionsOK, RecordOK, Journaled
<1> QED
  BY <1>1, <1>3, <1>4, <1>5, StepKinds


(***************************************************************************)
(* Edits                                                                   *)
(***************************************************************************)

\* The note of an edit is one there may be.
LEMMA EditedNote ==
    ASSUME NotesOK, NEW e \in DOMAIN edits
    PROVE  edits[e].note \in AllNotes
<1>1. e \in 1 .. Len(edits)
  BY LenProperties DEF NotesOK
<1>2. edits[e] \in [note : AllNotes, how : {"edit", "delete"}]
  BY <1>1, ElementOfSeq DEF NotesOK
<1> QED
  BY <1>2

\* An edit that was not made between a check and its write, and whose note was not
\* deleted since, is in the note, and in what any worker about to write compared.
LEMMA EditsStep ==
    ASSUME JournalOK, ThreadsOK, NotesOK, SectionsOK, EditsOK, [Next]_vars
    PROVE  EditsOK'
<1>1. ASSUME NEW w \in Workers, Works(w) PROVE EditsOK'
  <2>1. PICK place \in Places \ {"idle"}, m \in Claims :
            /\ at'[w] = place /\ mine'[w] = m /\ Advances(w, place, m)
            /\ \A v \in Workers : v # w => at'[v] = at[v] /\ mine'[v] = mine[v]
    BY <1>1 DEF Works, Goes, Moved, ThreadsOK
  <2>2. UNCHANGED <<edits, exposed>>
    BY <1>1 DEF Works
  <2>3. \A v \in Workers : v # w => Path(v)' = Path(v)
    BY <2>1 DEF Path, Op
  <2>4. ASSUME at'[w] = "writing"
        PROVE  /\ at[w] # "writing" /\ mine'[w] = mine[w] /\ Path(w)' = Path(w)
               /\ notes[Path(w)] = mine[w].record.before
    <3>1. at[w] = "comparing" /\ m = mine[w] /\ notes[Path(w)] = mine[w].record.before
      BY <2>1, <2>4 DEF Advances
    <3> QED
      BY <2>1, <3>1 DEF Path, Op
  <2>5. ASSUME NEW e \in DOMAIN edits \ exposed, ~ Gone(e)
        PROVE  /\ Has(notes'[edits[e].note], <<"user", e>>)
               /\ \A v \in Workers : at'[v] = "writing" /\ Path(v)' = edits[e].note
                      => Has(mine'[v].record.before, <<"user", e>>)
    <3>1. /\ Has(notes[edits[e].note], <<"user", e>>)
          /\ \A v \in Workers : at[v] = "writing" /\ Path(v) = edits[e].note
                 => Has(mine[v].record.before, <<"user", e>>)
      BY <2>5 DEF EditsOK, Kept
    <3>2. CASE notes' = notes
      <4>1. ASSUME at'[w] = "writing", Path(w)' = edits[e].note
            PROVE  Has(mine'[w].record.before, <<"user", e>>)
        BY <2>4, <3>1, <4>1
      <4> QED
        BY <2>1, <2>3, <3>1, <3>2, <4>1
    <3>3. CASE Writes(w)
      <4>1. at[w] = "writing" /\ at'[w] = "written" /\ notes' = [notes EXCEPT ![Path(w)] = mine[w].record.after]
        BY <3>3 DEF Writes
      <4>2. Within(mine[w].record.before, mine[w].record.after)
        BY <4>1 DEF SectionsOK, RecordOK, Recorded
      <4>3. Has(notes'[edits[e].note], <<"user", e>>)
        <5>1. CASE Path(w) = edits[e].note
          <6>1. Has(mine[w].record.before, <<"user", e>>)
            BY <3>1, <4>1, <5>1
          <6>2. Has(mine[w].record.after, <<"user", e>>)
            BY <4>2, <6>1 DEF Has, Within
          <6>3. edits[e].note \in AllNotes
            BY EditedNote
          <6> QED
            BY <4>1, <5>1, <6>2, <6>3 DEF NotesOK
        <5>2. CASE Path(w) # edits[e].note
          BY <3>1, <4>1, <5>2 DEF NotesOK
        <5> QED
          BY <5>1, <5>2
      <4> QED
        BY <2>1, <2>3, <3>1, <4>1, <4>3
    <3> QED
      BY <1>1, <3>2, <3>3 DEF Works
  <2>6. ASSUME NEW e \in DOMAIN edits \ exposed PROVE Kept(e)'
    <3>1. Gone(e) => Gone(e)'
      BY <2>2 DEF Gone
    <3> QED
      BY <2>2, <2>5, <3>1 DEF Kept
  <2> QED
    BY <2>2, <2>6 DEF EditsOK
<1>2. ASSUME UNCHANGED <<notes, edits, exposed>>,
             \A v \in Workers : (at'[v] = at[v] /\ mine'[v] = mine[v]) \/ at'[v] # "writing"
      PROVE  EditsOK'
  <2>1. \A v \in Workers : at'[v] = "writing" => at[v] = "writing" /\ mine'[v] = mine[v] /\ Path(v)' = Path(v)
    BY <1>2 DEF Path, Op
  <2>2. ASSUME NEW e \in DOMAIN edits \ exposed PROVE Kept(e)'
    <3>1. Gone(e) => Gone(e)'
      BY <1>2 DEF Gone
    <3>2. Kept(e)
      BY DEF EditsOK
    <3> QED
      BY <1>2, <2>1, <3>1, <3>2 DEF Kept
  <2> QED
    BY <1>2, <2>2 DEF EditsOK
<1>3. ASSUME NEW w \in Workers, Leaves(w) \/ Claim(w) \/ Crash(w) PROVE EditsOK'
  <2>1. UNCHANGED <<notes, edits, exposed>>
    <3>1. Claim(w) => UNCHANGED <<notes, edits, exposed>>
      BY ClaimEffect
    <3>2. Leaves(w) => UNCHANGED <<notes, edits, exposed>>
      BY DEF Leaves
    <3>3. Crash(w) => UNCHANGED <<notes, edits, exposed>>
      BY DEF Crash
    <3> QED
      BY <1>3, <3>1, <3>2, <3>3
  <2>2. \/ UNCHANGED <<at, mine>>
        \/ \E place \in {"idle", "claimed"} : \E m : Moved(w, place, m)
    BY <1>3, ClaimEffect DEF Leaves, Crash, Goto, Keep, Moved, Begins
  <2> QED
    BY <1>2, <2>1, <2>2 DEF Moved, ThreadsOK
<1>4. CASE Aside \/ \E j \in JobIds : TimePasses(j)
  <2>1. UNCHANGED <<notes, edits, exposed, at, mine>>
    BY <1>4 DEF Aside, TimePasses, workerVars
  <2> QED
    BY <1>2, <2>1
<1>5. ASSUME NEW n \in AllNotes, NEW how \in {"edit", "delete"}, UserChanges(n, how) PROVE EditsOK'
  <2>1. PICK last \in Nat : last = Len(edits) + 1 /\ DOMAIN edits = 1 .. Len(edits) /\ Len(edits) \in Nat
    BY LenProperties DEF NotesOK
  <2>2. PICK change \in [note : AllNotes, how : {"edit", "delete"}] :
            change.note = n /\ change.how = how /\ change = [note |-> n, how |-> how] /\ edits' = Append(edits, change)
    <3>1. PICK change \in [note : AllNotes, how : {"edit", "delete"}] : change = [note |-> n, how |-> how]
      OBVIOUS
    <3> QED
      BY <1>5, <3>1 DEF UserChanges
  <2>3. /\ DOMAIN edits' = DOMAIN edits \cup {last} /\ edits'[last] = change
        /\ \A e \in DOMAIN edits : edits'[e] = edits[e] /\ e <= last /\ e # last
    BY <2>1, <2>2, AppendProperties DEF NotesOK
  <2>4. UNCHANGED <<at, mine>> /\ \A v \in Workers : Path(v)' = Path(v)
    BY <1>5 DEF UserChanges, Path, Op
  <2>5. /\ exposed \subseteq exposed' /\ \A i \in AllNotes : i # n => notes'[i] = notes[i]
        /\ (\E v \in Workers : at[v] = "writing" /\ Path(v) = n) => last \in exposed'
    BY <1>5, <2>1 DEF UserChanges, NotesOK
  <2>6. how = "edit" => notes'[n] = Append(notes[n], <<"user", last>>)
    BY <1>5, <2>1 DEF UserChanges, NotesOK
  <2>7. <<"user", last>> \in Entries /\ notes[n] \in Contents
    BY DEF Entries, NotesOK
  <2>8. how = "edit" => Has(notes'[n], <<"user", last>>) /\ \A x : Has(notes[n], x) => Has(notes'[n], x)
    <3>1. PICK s \in Contents, u \in Entries : s = notes[n] /\ u = <<"user", last>>
      BY <2>7
    <3>2. Has(Append(s, u), u) /\ \A x : Has(s, x) => Has(Append(s, u), x)
      BY Appended
    <3> QED
      BY <2>6, <3>1, <3>2
  <2>9. ASSUME NEW e \in DOMAIN edits \ exposed, ~ Gone(e)'
        PROVE  /\ Has(notes'[edits[e].note], <<"user", e>>)
               /\ \A v \in Workers : at[v] = "writing" /\ Path(v) = edits[e].note
                      => Has(mine[v].record.before, <<"user", e>>)
    <3>1. ~ Gone(e)
      BY <2>3, <2>9 DEF Gone
    <3>2. /\ Has(notes[edits[e].note], <<"user", e>>)
          /\ \A v \in Workers : at[v] = "writing" /\ Path(v) = edits[e].note
                 => Has(mine[v].record.before, <<"user", e>>)
      BY <3>1 DEF EditsOK, Kept
    <3>3. ~ (how = "delete" /\ edits[e].note = n)
      <4>1. ASSUME how = "delete", edits[e].note = n PROVE FALSE
        <5>1. last \in DOMAIN edits' /\ last >= e /\ edits'[last] = [note |-> edits'[e].note, how |-> "delete"]
          BY <2>1, <2>2, <2>3, <4>1
        <5> QED
          BY <2>9, <5>1 DEF Gone
      <4> QED
        BY <4>1
    <3>4. Has(notes'[edits[e].note], <<"user", e>>)
      <4>1. CASE edits[e].note = n
        BY <2>8, <3>2, <3>3, <4>1
      <4>2. CASE edits[e].note # n
        <5>1. edits[e].note \in AllNotes
          BY EditedNote
        <5> QED
          BY <2>5, <3>2, <4>2, <5>1
      <4> QED
        BY <4>1, <4>2
    <3> QED
      BY <3>2, <3>4
  <2>10. ASSUME last \notin exposed', ~ Gone(last)'
         PROVE  /\ Has(notes'[n], <<"user", last>>)
                /\ \A v \in Workers : ~ (at[v] = "writing" /\ Path(v) = n)
    <3>1. how # "delete"
      <4>1. ASSUME how = "delete" PROVE FALSE
        <5>1. last \in DOMAIN edits' /\ last >= last /\ edits'[last] = [note |-> edits'[last].note, how |-> "delete"]
          BY <2>1, <2>2, <2>3, <4>1
        <5> QED
          BY <2>10, <5>1 DEF Gone
      <4> QED
        BY <4>1
    <3> QED
      BY <2>5, <2>8, <2>10, <3>1
  <2>11. ASSUME NEW e \in DOMAIN edits' \ exposed', ~ Gone(e)'
         PROVE  /\ Has(notes'[edits'[e].note], <<"user", e>>)
                /\ \A v \in Workers : at'[v] = "writing" /\ Path(v)' = edits'[e].note
                       => Has(mine'[v].record.before, <<"user", e>>)
    <3>1. CASE e \in DOMAIN edits
      <4>1. e \in DOMAIN edits \ exposed
        BY <2>5, <2>11, <3>1
      <4> QED
        BY <2>3, <2>4, <2>9, <2>11, <3>1, <4>1
    <3>2. CASE e = last
      BY <2>2, <2>3, <2>4, <2>10, <2>11, <3>2
    <3> QED
      BY <2>3, <2>11, <3>1, <3>2
  <2>12. ASSUME NEW e \in DOMAIN edits' \ exposed' PROVE Kept(e)'
    BY <2>11 DEF Kept
  <2> QED
    BY <2>12 DEF EditsOK
<1> QED
  BY <1>1, <1>3, <1>4, <1>5, StepKinds


(***************************************************************************)
(* One worker at a time, as long as no lease lapses under a living worker  *)
(***************************************************************************)

\* A sweep leaves the job of a worker whose lease is live alone.
LEMMA HeldIsLeft ==
    ASSUME JournalOK, NEW j \in DOMAIN jobs, jobs[j].state \in Held, jobs[j].lease = "live"
    PROVE  Swept[j] = jobs[j] /\ j \in Leased(Swept)
<1>1. j \notin Exhausted
  BY DEF Exhausted, Held
<1>2. Swept[j] = jobs[j]
  BY <1>1, SweepEffect DEF Parked, TakenBack
<1>3. j \in DOMAIN Swept
  BY DEF Swept
<1> QED
  BY <1>2, <1>3 DEF Leased

\* A claim that takes a job finds no other worker busy.
LEMMA ClaimIsAlone ==
    ASSUME JournalOK, ThreadsOK, SerialOK, overruns = 0, Leased(Swept) = {}
    PROVE  \A v \in Workers : ~ Busy(v)
<1>1. ASSUME NEW v \in Workers, Busy(v) PROVE FALSE
  <2>1. /\ mine[v].job \in DOMAIN jobs
        /\ jobs[mine[v].job].state \in Held /\ jobs[mine[v].job].lease = "live"
    BY <1>1 DEF SerialOK, Busy, ThreadsOK, Fits
  <2> QED
    BY <2>1, HeldIsLeft
<1> QED
  BY <1>1

\* The number of leases that lapsed under a living worker never falls.
LEMMA OverrunsGrow ==
    ASSUME JournalOK, ThreadsOK, NotesOK, [Next]_vars
    PROVE  overruns' = 0 => overruns = 0
<1>1. overruns' = overruns \/ overruns' = overruns + 1
  <2>1. ASSUME NEW w \in Workers, Works(w) \/ Leaves(w) PROVE overruns' = overruns
    BY <2>1 DEF Works, Leaves
  <2>2. ASSUME NEW w \in Workers, Claim(w) PROVE overruns' = overruns
    BY <2>2, ClaimEffect
  <2>3. ASSUME NEW w \in Workers, Crash(w) PROVE overruns' = overruns
    BY <2>3 DEF Crash
  <2>4. ASSUME NEW n \in AllNotes, NEW how \in {"edit", "delete"}, UserChanges(n, how) PROVE overruns' = overruns
    BY <2>4 DEF UserChanges
  <2>5. ASSUME NEW j \in JobIds, TimePasses(j) PROVE overruns' = overruns \/ overruns' = overruns + 1
    BY <2>5 DEF TimePasses
  <2>6. CASE Aside
    BY <2>6 DEF Aside
  <2> QED
    BY <2>1, <2>2, <2>3, <2>4, <2>5, <2>6, StepKinds
<1> QED
  BY <1>1 DEF NotesOK

\* Until a lease lapses under a living worker at most one worker is busy, and its
\* job is held under a live lease.
LEMMA SerialStep ==
    ASSUME JournalOK, ThreadsOK, NotesOK, SerialOK, [Next]_vars
    PROVE  SerialOK'
<1> SUFFICES ASSUME overruns' = 0
             PROVE  /\ \A w, v \in Workers : Busy(w)' /\ Busy(v)' => w = v
                    /\ \A w \in Workers : Busy(w)' =>
                           jobs'[mine'[w].job].state \in Held /\ jobs'[mine'[w].job].lease = "live"
  BY DEF SerialOK
<1>0. overruns = 0
  BY OverrunsGrow
<1>1. /\ \A w, v \in Workers : Busy(w) /\ Busy(v) => w = v
      /\ \A w \in Workers : Busy(w) => /\ mine[w].job \in DOMAIN jobs
                                       /\ jobs[mine[w].job].state \in Held /\ jobs[mine[w].job].lease = "live"
  BY <1>0 DEF SerialOK, ThreadsOK, Fits, Busy
<1>2. ASSUME NEW w \in Workers, Works(w)
      PROVE  /\ \A v \in Workers : v # w => ~ Busy(v)'
             /\ jobs'[mine'[w].job].state \in Held /\ jobs'[mine'[w].job].lease = "live"
  <2>1. Busy(w) /\ mine'[w].job = mine[w].job /\ \A v \in Workers : v # w => at'[v] = at[v]
    BY <1>2, GoesOn DEF Works, Busy
  <2>2. jobs' = jobs \/ Staged(w)
    BY <1>2 DEF Works
  <2>3. CASE Staged(w)
    <3>1. PICK q : Rewritten(mine[w].job, q) /\ q.state \in Held /\ q.lease = jobs[mine[w].job].lease
      BY <2>3 DEF Staged
    <3>2. jobs'[mine[w].job] = q
      BY <1>1, <2>1, <3>1, RewrittenOK
    <3> QED
      BY <1>1, <2>1, <3>1, <3>2 DEF Busy
  <2> QED
    BY <1>1, <2>1, <2>2, <2>3 DEF Busy
<1>3. ASSUME NEW w \in Workers, Leaves(w) PROVE \A v \in Workers : ~ Busy(v)'
  <2>1. Busy(w) /\ at' = [at EXCEPT ![w] = "idle"]
    BY <1>3 DEF Leaves, Moved, Busy
  <2> QED
    BY <1>1, <2>1 DEF Busy, ThreadsOK
<1>4. ASSUME \A v \in Workers : Busy(v)' => Busy(v) /\ mine'[v].job = mine[v].job,
             \A v \in Workers : Busy(v) => jobs'[mine[v].job] = jobs[mine[v].job]
      PROVE  /\ \A w, v \in Workers : Busy(w)' /\ Busy(v)' => w = v
             /\ \A w \in Workers : Busy(w)' =>
                    jobs'[mine'[w].job].state \in Held /\ jobs'[mine'[w].job].lease = "live"
  BY <1>1, <1>4
<1>5. ASSUME NEW w \in Workers, Claim(w)
      PROVE  /\ \A v, u \in Workers : Busy(v)' /\ Busy(u)' => v = u
             /\ \A v \in Workers : Busy(v)' =>
                    jobs'[mine'[v].job].state \in Held /\ jobs'[mine'[v].job].lease = "live"
  <2>1. CASE jobs' = Swept /\ UNCHANGED <<at, mine>>
    <3>1. \A v \in Workers : Busy(v) => jobs'[mine[v].job] = jobs[mine[v].job]
      BY <1>1, <2>1, HeldIsLeft
    <3> QED
      BY <1>4, <2>1, <3>1 DEF Busy
  <2>2. ASSUME NEW j \in JobIds, Begins(w, j), Leased(Swept) = {},
               jobs'[j].state \in Held /\ jobs'[j].lease = "live"
        PROVE  /\ \A v, u \in Workers : Busy(v)' /\ Busy(u)' => v = u
               /\ \A v \in Workers : Busy(v)' =>
                      jobs'[mine'[v].job].state \in Held /\ jobs'[mine'[v].job].lease = "live"
    <3>1. \A v \in Workers : ~ Busy(v)
      BY <1>0, <2>2, ClaimIsAlone
    <3>2. mine'[w].job = j /\ \A v \in Workers : v # w => at'[v] = at[v]
      BY <2>2 DEF Begins, Moved, ThreadsOK
    <3> QED
      BY <2>2, <3>1, <3>2 DEF Busy
  <2>3. ASSUME NEW j \in JobIds, TakesUp(j), Begins(w, j)
        PROVE  Leased(Swept) = {} /\ jobs'[j].state \in Held /\ jobs'[j].lease = "live"
    <3>1. j \in DOMAIN jobs
      BY <2>3 DEF TakesUp
    <3>2. j \in DOMAIN Swept
      BY <3>1, SweepEffect
    <3> QED
      BY <2>3, <3>2 DEF TakesUp, Held
  <2>4. ASSUME NEW c \in Conversations, NEW count \in 1 .. MaxSegments, NEW n \in Nat, Opens(c, count, n)
        PROVE  /\ First(c) \in JobIds /\ Leased(Swept) = {}
               /\ jobs'[First(c)].state \in Held /\ jobs'[First(c)].lease = "live"
    <3>1. First(c) \in Segments(c, count)
      <4>1. 0 \in 0 .. count - 1
        BY JobsAssumption
      <4> QED
        BY <4>1 DEF First, Segments
    <3> QED
      BY <2>4, <3>1 DEF Opens, Held
  <2> QED
    BY <1>5, <2>1, <2>2, <2>3, <2>4, ClaimEffect
<1>6. ASSUME NEW w \in Workers, Crash(w)
      PROVE  /\ \A v \in Workers : Busy(v)' => Busy(v) /\ mine'[v].job = mine[v].job
             /\ jobs' = jobs
  BY <1>6 DEF Crash, Goto, Keep, jobVars, Busy, ThreadsOK
<1>7. ASSUME NEW j \in JobIds, TimePasses(j)
      PROVE  /\ UNCHANGED <<at, mine>>
             /\ \A v \in Workers : Busy(v) => jobs'[mine[v].job] = jobs[mine[v].job]
  <2>1. UNCHANGED <<at, mine>> /\ (Lapse(j) \/ RetryDue(j))
    BY <1>7 DEF TimePasses, workerVars
  <2>2. PICK q : /\ Rewritten(j, q)
                 /\ \/ jobs[j].lease = "live" /\ q.lease = "lapsed"
                    \/ jobs[j].state \in Waiting
    BY <2>1, TimeEffect
  <2>3. j \in DOMAIN jobs /\ \A i \in DOMAIN jobs : i # j => jobs'[i] = jobs[i]
    BY <2>1, <2>2, TimeEffect, RewrittenOK
  <2>4. ASSUME NEW v \in Workers, Busy(v), mine[v].job = j PROVE FALSE
    <3>1. jobs[j].lease = "live" /\ jobs[j].state \in Held
      BY <1>1, <2>4
    <3>2. overruns' = overruns + 1
      BY <1>7, <2>4, <3>1 DEF TimePasses
    <3> QED
      BY <1>0, <3>2
  <2> QED
    BY <1>1, <2>1, <2>3, <2>4
<1>8. CASE Aside \/ \E n \in AllNotes, how \in {"edit", "delete"} : UserChanges(n, how)
  <2>1. UNCHANGED <<jobs, at, mine>>
    BY <1>8 DEF Aside, UserChanges, jobVars
  <2> QED
    BY <1>4, <2>1 DEF Busy
<1>9. ASSUME NEW w \in Workers, Works(w)
      PROVE  /\ \A v, u \in Workers : Busy(v)' /\ Busy(u)' => v = u
             /\ \A v \in Workers : Busy(v)' =>
                    jobs'[mine'[v].job].state \in Held /\ jobs'[mine'[v].job].lease = "live"
  BY <1>2, <1>9
<1>10. ASSUME NEW w \in Workers, Crash(w)
       PROVE  /\ \A v, u \in Workers : Busy(v)' /\ Busy(u)' => v = u
              /\ \A v \in Workers : Busy(v)' =>
                     jobs'[mine'[v].job].state \in Held /\ jobs'[mine'[v].job].lease = "live"
  BY <1>4, <1>6, <1>10
<1>11. ASSUME NEW j \in JobIds, TimePasses(j)
       PROVE  /\ \A v, u \in Workers : Busy(v)' /\ Busy(u)' => v = u
              /\ \A v \in Workers : Busy(v)' =>
                     jobs'[mine'[v].job].state \in Held /\ jobs'[mine'[v].job].lease = "live"
  BY <1>4, <1>7, <1>11 DEF Busy
<1> QED
  BY <1>3, <1>5, <1>8, <1>9, <1>10, <1>11, StepKinds


(***************************************************************************)
(* Whole results                                                           *)
(***************************************************************************)

\* An operation stays in the journal, and stays marked done there, unless a worker
\* is about to put its own record over it.
LEMMA InJournalStays ==
    ASSUME JournalOK, ThreadsOK, NotesOK, [Next]_vars, NEW j, NEW k, InJournal(j, k),
           overruns' = 0 => \A w \in Workers : ~ (at[w] = "journaling" /\ mine[w].job = j /\ mine[w].op = k)
    PROVE  InJournal(j, k)'
<1>1. <<j, k>> \in DOMAIN operations /\ <<j, k>> \in DOMAIN operations'
  BY JournalStep DEF InJournal
<1>2. ASSUME overruns' = 0 PROVE operations'[<<j, k>>].done = "yes"
  <2>1. operations[<<j, k>>].done = "yes"
    BY <1>2, OverrunsGrow DEF InJournal
  <2>2. ASSUME NEW w \in Workers, Works(w) PROVE operations'[<<j, k>>].done = "yes"
    <3>1. CASE operations' = operations
      BY <2>1, <3>1
    <3>2. CASE Journals(w) /\ at[w] \in {"journaling", "written"}
      <4>1. /\ at[w] = "written" => operations'[<<mine[w].job, mine[w].op>>].done = "yes"
            /\ \A o \in DOMAIN operations : o # <<mine[w].job, mine[w].op>> => operations'[o] = operations[o]
        BY <3>2, JournalsOK DEF Recorded
      <4>2. CASE <<j, k>> = <<mine[w].job, mine[w].op>>
        <5>1. at[w] = "written"
          BY <1>2, <3>2, <4>2
        <5> QED
          BY <4>1, <4>2, <5>1
      <4>3. CASE <<j, k>> # <<mine[w].job, mine[w].op>>
        BY <1>1, <2>1, <4>1, <4>3
      <4> QED
        BY <4>2, <4>3
    <3> QED
      BY <2>2, <3>1, <3>2 DEF Works
  <2>3. ASSUME NEW w \in Workers, Leaves(w) PROVE operations' = operations
    BY <2>3 DEF Leaves, FinishJob
  <2>4. ASSUME NEW w \in Workers, Claim(w) PROVE operations' = operations
    BY <2>4, ClaimEffect
  <2>5. ASSUME NEW w \in Workers, Crash(w) PROVE operations' = operations
    BY <2>5 DEF Crash, jobVars
  <2>6. ASSUME NEW i \in JobIds, TimePasses(i) PROVE operations' = operations
    BY <2>6 DEF TimePasses, Lapse, RetryDue
  <2>7. ASSUME NEW n \in AllNotes, NEW how \in {"edit", "delete"}, UserChanges(n, how)
        PROVE  operations' = operations
    BY <2>7 DEF UserChanges, jobVars
  <2>8. CASE Aside
    BY <2>1, <2>8 DEF Aside
  <2> QED
    BY <2>1, <2>2, <2>3, <2>4, <2>5, <2>6, <2>7, <2>8, StepKinds
<1> QED
  BY <1>1, <1>2 DEF InJournal

\* A job that counts as applied after a step did before, or was finished just now
\* by a worker that was through with all operations.
LEMMA AppliedBefore ==
    ASSUME JournalOK, ThreadsOK, NotesOK, [Next]_vars, NEW j \in DOMAIN jobs', jobs'[j].state = "applied"
    PROVE  \/ j \in DOMAIN jobs /\ jobs[j].state = "applied" /\ jobs'[j].result = jobs[j].result
           \/ \E w \in Workers : /\ at[w] = "finishing" /\ mine[w].outcome = "applied"
                                 /\ mine[w].job = j /\ jobs'[j].result = mine[w].result
<1>1. ASSUME NEW i \in DOMAIN jobs, NEW q, Rewritten(i, q),
             q.state = "applied" => \/ jobs[i].state = "applied" /\ q.result = jobs[i].result
                                    \/ \E w \in Workers : /\ at[w] = "finishing" /\ mine[w].outcome = "applied"
                                                          /\ mine[w].job = i /\ q.result = mine[w].result
      PROVE  \/ j \in DOMAIN jobs /\ jobs[j].state = "applied" /\ jobs'[j].result = jobs[j].result
             \/ \E w \in Workers : /\ at[w] = "finishing" /\ mine[w].outcome = "applied"
                                   /\ mine[w].job = j /\ jobs'[j].result = mine[w].result
  <2>1. /\ DOMAIN jobs' = DOMAIN jobs /\ jobs'[i] = q
        /\ \A h \in DOMAIN jobs : h # i => jobs'[h] = jobs[h]
    BY <1>1, RewrittenOK
  <2>2. CASE j = i
    BY <1>1, <2>1, <2>2
  <2>3. CASE j # i
    BY <2>1, <2>3
  <2> QED
    BY <2>2, <2>3
<1>2. CASE jobs' = jobs
  BY <1>2
<1>3. ASSUME NEW w \in Workers, Staged(w), mine[w].job \in DOMAIN jobs
      PROVE  j \in DOMAIN jobs /\ jobs[j].state = "applied" /\ jobs'[j].result = jobs[j].result
  <2>1. PICK q : Rewritten(mine[w].job, q) /\ q.state \in Held
    BY <1>3 DEF Staged
  <2>2. q.state # "applied"
    BY <2>1 DEF Held
  <2>3. /\ DOMAIN jobs' = DOMAIN jobs /\ jobs'[mine[w].job] = q
        /\ \A h \in DOMAIN jobs : h # mine[w].job => jobs'[h] = jobs[h]
    BY <1>3, <2>1, RewrittenOK
  <2> QED
    BY <2>2, <2>3
<1>4. ASSUME NEW w \in Workers, Leaves(w)
      PROVE  \/ j \in DOMAIN jobs /\ jobs[j].state = "applied" /\ jobs'[j].result = jobs[j].result
             \/ \E v \in Workers : /\ at[v] = "finishing" /\ mine[v].outcome = "applied"
                                   /\ mine[v].job = j /\ jobs'[j].result = mine[v].result
  <2>1. mine[w].job \in DOMAIN jobs /\ mine[w].result \in {NoResult} \cup Results
    BY <1>4 DEF Leaves, ThreadsOK, Fits, Claims
  <2>2. PICK s \in {"deferred"} \cup Terminal :
            /\ FinishJob(mine[w].job, s, mine[w].result)
            /\ s = "applied" => at[w] = "finishing" /\ mine[w].outcome = "applied"
    BY <1>4 DEF Leaves
  <2>3. PICK q : Rewritten(mine[w].job, q) /\ q.state = s /\ q.result = mine[w].result
    BY <2>1, <2>2, FinishEffect
  <2> QED
    BY <1>1, <2>1, <2>2, <2>3
<1>5. ASSUME NEW i \in DOMAIN jobs, Swept[i].state = "applied"
      PROVE  jobs[i].state = "applied" /\ Swept[i].result = jobs[i].result
  BY <1>5, SweepEffect DEF Parked, TakenBack
<1>6. ASSUME NEW w \in Workers, Claim(w)
      PROVE  j \in DOMAIN jobs /\ jobs[j].state = "applied" /\ jobs'[j].result = jobs[j].result
  <2>1. ASSUME j \in DOMAIN jobs, jobs'[j] = Swept[j]
        PROVE  jobs[j].state = "applied" /\ jobs'[j].result = jobs[j].result
    BY <1>5, <2>1
  <2>2. DOMAIN Swept = DOMAIN jobs
    BY SweepEffect
  <2>3. CASE jobs' = Swept
    BY <2>1, <2>2, <2>3
  <2>4. ASSUME NEW i \in JobIds, TakesUp(i) PROVE j \in DOMAIN jobs /\ jobs'[j] = Swept[j]
    <3>1. PICK q : jobs' = [Swept EXCEPT ![i] = q] /\ q.state = "proposing" /\ i \in DOMAIN jobs
      BY <2>4 DEF TakesUp
    <3> QED
      BY <2>2, <3>1
  <2>5. ASSUME NEW c \in Conversations, NEW count \in 1 .. MaxSegments, NEW n \in Nat, Opens(c, count, n)
        PROVE  j \in DOMAIN jobs /\ jobs'[j] = Swept[j]
    <3>1. j \notin Segments(c, count)
      BY <2>5 DEF Opens
    <3> QED
      BY <2>5, <3>1 DEF Opens
  <2> QED
    BY <1>6, <2>1, <2>3, <2>4, <2>5, ClaimEffect
<1>7. ASSUME NEW i \in JobIds, TimePasses(i)
      PROVE  j \in DOMAIN jobs /\ jobs[j].state = "applied" /\ jobs'[j].result = jobs[j].result
  <2>1. i \in DOMAIN jobs /\ \E q : Rewritten(i, q) /\ q.state = jobs[i].state /\ q.result = jobs[i].result
    BY <1>7, TimeEffect DEF TimePasses
  <2>2. PICK q : Rewritten(i, q) /\ q.state = jobs[i].state /\ q.result = jobs[i].result
    BY <2>1
  <2>3. /\ DOMAIN jobs' = DOMAIN jobs /\ jobs'[i] = q
        /\ \A h \in DOMAIN jobs : h # i => jobs'[h] = jobs[h]
    BY <2>1, <2>2, RewrittenOK
  <2> QED
    BY <2>2, <2>3
<1>8. ASSUME NEW w \in Workers, Works(w)
      PROVE  j \in DOMAIN jobs /\ jobs[j].state = "applied" /\ jobs'[j].result = jobs[j].result
  <2>1. mine[w].job \in DOMAIN jobs
    BY <1>8 DEF Works, ThreadsOK, Fits
  <2>2. jobs' = jobs \/ Staged(w)
    BY <1>8 DEF Works
  <2> QED
    BY <1>3, <2>1, <2>2
<1>9. CASE Aside \/ (\E w \in Workers : Crash(w))
           \/ \E n \in AllNotes, how \in {"edit", "delete"} : UserChanges(n, how)
  <2>1. jobs' = jobs
    BY <1>9 DEF Aside, Crash, UserChanges, jobVars
  <2> QED
    BY <1>2, <2>1
<1> QED
  BY <1>4, <1>6, <1>7, <1>8, <1>9, StepKinds


\* A worker has the operations before its own in the journal, and all of them when
\* it finishes its job as applied; so has every job that counts as applied.
LEMMA WholeStep ==
    ASSUME JournalOK, ThreadsOK, NotesOK, SerialOK, WholeOK, [Next]_vars
    PROVE  WholeOK'
<1>1. ASSUME NEW j, NEW k, InJournal(j, k),
             overruns = 0 => \A w \in Workers : ~ (at[w] = "journaling" /\ mine[w].job = j /\ mine[w].op = k)
      PROVE  InJournal(j, k)'
  BY <1>1, InJournalStays, OverrunsGrow
<1>2. ASSUME NEW v \in Workers, at[v] \in Writing, NEW j, j = mine[v].job, NEW k \in 1 .. mine[v].op - 1
      PROVE  InJournal(j, k)'
  <2>1. InJournal(j, k) /\ k # mine[v].op
    BY <1>2 DEF WholeOK, ThreadsOK, Claims
  <2>2. ASSUME overruns = 0, NEW w \in Workers, at[w] = "journaling" PROVE w = v
    BY <1>2, <2>2 DEF SerialOK, Busy, Writing, Recorded
  <2> QED
    BY <1>1, <2>1, <2>2
<1>3. ASSUME NEW v \in Workers, at[v] = "finishing", mine[v].outcome = "applied",
             NEW j, j = mine[v].job, NEW k \in 1 .. Len(mine[v].result.ops)
      PROVE  InJournal(j, k)'
  <2>1. InJournal(j, k)
    BY <1>3 DEF WholeOK
  <2>2. ASSUME overruns = 0, NEW w \in Workers, at[w] = "journaling" PROVE FALSE
    BY <1>3, <2>2 DEF SerialOK, Busy
  <2> QED
    BY <1>1, <2>1, <2>2
<1>4. ASSUME NEW j \in DOMAIN jobs, jobs[j].state = "applied", NEW k \in 1 .. Len(jobs[j].result.ops)
      PROVE  InJournal(j, k)'
  <2>1. InJournal(j, k)
    BY <1>4 DEF WholeOK
  <2>2. ASSUME overruns = 0, NEW w \in Workers, at[w] = "journaling", mine[w].job = j PROVE FALSE
    BY <1>4, <2>2 DEF SerialOK, Busy, Held
  <2> QED
    BY <1>1, <2>1, <2>2
<1>5. ASSUME NEW v \in Workers, at'[v] \in Writing \cup {"finishing"}, at'[v] # at[v] \/ mine'[v] # mine[v]
      PROVE  Works(v)
  <2>1. ASSUME NEW w \in Workers, Works(w) PROVE w = v
    BY <1>5, <2>1, GoesOn DEF Works
  <2>2. ASSUME NEW w \in Workers, NEW place \in {"idle", "claimed"}, NEW m, Moved(w, place, m) PROVE FALSE
    <3>1. CASE w = v
      BY <1>5, <2>2, <3>1 DEF Moved, ThreadsOK, Writing, Recorded
    <3>2. CASE w # v
      BY <1>5, <2>2, <3>2 DEF Moved, ThreadsOK
    <3> QED
      BY <3>1, <3>2
  <2>3. ASSUME NEW w \in Workers, Leaves(w) PROVE FALSE
    BY <2>2, <2>3 DEF Leaves
  <2>4. ASSUME NEW w \in Workers, Crash(w) PROVE FALSE
    BY <2>2, <2>4 DEF Crash, Goto, Keep, Moved
  <2>5. ASSUME NEW w \in Workers, Claim(w) PROVE FALSE
    <3>1. UNCHANGED <<at, mine>> \/ \E j : Begins(w, j)
      BY <2>5, ClaimEffect
    <3> QED
      BY <1>5, <2>2, <3>1 DEF Begins
  <2>6. ASSUME NEW n \in AllNotes, NEW how \in {"edit", "delete"}, UserChanges(n, how) PROVE FALSE
    BY <1>5, <2>6 DEF UserChanges
  <2>7. ASSUME NEW j \in JobIds, TimePasses(j) PROVE FALSE
    BY <1>5, <2>7 DEF TimePasses, workerVars
  <2>8. CASE Aside
    BY <1>5, <2>8 DEF Aside
  <2> QED
    BY <2>1, <2>3, <2>4, <2>5, <2>6, <2>7, <2>8, StepKinds
<1>6. ASSUME NEW v \in Workers, Works(v)
      PROVE  \E place \in Places, m \in Claims :
                 at'[v] = place /\ mine'[v] = m /\ m.job = mine[v].job /\ Advances(v, place, m)
  BY <1>6 DEF Works, Goes, Moved, ThreadsOK
<1>7. ASSUME NEW v \in Workers, at'[v] \in Writing, NEW k \in 1 .. mine'[v].op - 1,
             NEW j, j = mine'[v].job
      PROVE  InJournal(j, k)'
  <2>1. CASE at'[v] = at[v] /\ mine'[v] = mine[v]
    BY <1>2, <1>7, <2>1
  <2>2. CASE Works(v)
    <3>1. PICK place \in Places, m \in Claims :
              at'[v] = place /\ mine'[v] = m /\ m.job = mine[v].job /\ Advances(v, place, m)
      BY <1>6, <2>2
    <3>2. mine[v].op \in Nat /\ m.op \in Nat
      BY DEF ThreadsOK, Claims
    <3>3. CASE at[v] \in Writing /\ m.op = mine[v].op
      BY <1>2, <1>7, <3>1, <3>3
    <3>4. CASE place = "applying" /\ at[v] = "approved" /\ m.op = 1
      BY <1>7, <3>1, <3>4
    <3>5. CASE place = "applying" /\ at[v] = "written" /\ m.op = mine[v].op + 1
      <4>1. CASE k \in 1 .. mine[v].op - 1
        BY <1>2, <1>7, <3>1, <3>5, <4>1 DEF Writing, Recorded
      <4>2. CASE k = mine[v].op
        <5>1. Journals(v) /\ at[v] \in Recorded
          BY <2>2, <3>1, <3>5 DEF Works, Recorded
        <5>2. /\ <<j, k>> \in DOMAIN operations'
              /\ operations'[<<j, k>>].done = "yes"
          BY <1>7, <3>1, <3>5, <4>2, <5>1, JournalsOK
        <5> QED
          BY <5>2 DEF InJournal
      <4> QED
        BY <1>7, <3>1, <3>2, <3>5, <4>1, <4>2
    <3>6. \/ at[v] \in Writing /\ m.op = mine[v].op
          \/ place = "applying" /\ at[v] = "approved" /\ m.op = 1
          \/ place = "applying" /\ at[v] = "written" /\ m.op = mine[v].op + 1
      <4>1. CASE place = "applying"
        BY <3>1, <4>1 DEF Advances
      <4>2. CASE place \in {"journaling", "comparing", "writing", "written"}
        <5>1. m.op = mine[v].op /\ at[v] \in {"applying", "journaling", "comparing", "writing"}
          BY <3>1, <4>2 DEF Advances
        <5> QED
          BY <5>1 DEF Writing, Recorded
      <4> QED
        BY <1>7, <3>1, <4>1, <4>2 DEF Writing, Recorded
    <3> QED
      BY <3>3, <3>4, <3>5, <3>6
  <2> QED
    BY <1>5, <1>7, <2>1, <2>2
<1>8. ASSUME NEW v \in Workers, at'[v] = "finishing", mine'[v].outcome = "applied"
      PROVE  /\ mine'[v].result \in Results
             /\ \A j, k : j = mine'[v].job /\ k \in 1 .. Len(mine'[v].result.ops) => InJournal(j, k)'
  <2>1. CASE at'[v] = at[v] /\ mine'[v] = mine[v]
    <3>1. mine[v].result \in Results
      BY <1>8, <2>1 DEF WholeOK
    <3> QED
      BY <1>3, <1>8, <2>1, <3>1
  <2>2. CASE Works(v)
    <3>1. PICK m \in Claims : mine'[v] = m /\ m.job = mine[v].job /\ Advances(v, "finishing", m)
      BY <1>6, <1>8, <2>2
    <3>2. at[v] = "applying" /\ mine[v].op > Len(mine[v].result.ops) /\ m.result = mine[v].result
      BY <1>8, <3>1 DEF Advances
    <3>3. mine[v].result \in Results /\ at[v] \in Writing
      BY <3>2 DEF ThreadsOK, Fits, Accepted, Writing
    <3>4. mine[v].op \in Nat /\ Len(mine[v].result.ops) \in Nat
      BY <3>3, LenProperties DEF ThreadsOK, Claims, Results
    <3>5. ASSUME NEW j, NEW k, j = m.job, k \in 1 .. Len(m.result.ops) PROVE InJournal(j, k)'
      <4>1. k \in 1 .. mine[v].op - 1
        BY <3>2, <3>4, <3>5
      <4> QED
        BY <1>2, <3>1, <3>3, <3>5, <4>1
    <3> QED
      BY <3>1, <3>2, <3>3, <3>5
  <2> QED
    BY <1>5, <1>8, <2>1, <2>2
<1>9. ASSUME NEW j \in DOMAIN jobs', jobs'[j].state = "applied"
      PROVE  jobs'[j].result \in Results /\ \A k \in 1 .. Len(jobs'[j].result.ops) : InJournal(j, k)'
  <2>1. CASE j \in DOMAIN jobs /\ jobs[j].state = "applied" /\ jobs'[j].result = jobs[j].result
    <3>1. jobs[j].result \in Results
      BY <2>1 DEF WholeOK
    <3> QED
      BY <1>4, <2>1, <3>1
  <2>2. ASSUME NEW w \in Workers, at[w] = "finishing", mine[w].outcome = "applied",
               mine[w].job = j, jobs'[j].result = mine[w].result
        PROVE  jobs'[j].result \in Results /\ \A k \in 1 .. Len(jobs'[j].result.ops) : InJournal(j, k)'
    <3>1. mine[w].result \in Results
      BY <2>2 DEF WholeOK
    <3> QED
      BY <1>3, <2>2, <3>1
  <2> QED
    BY <1>9, <2>1, <2>2, AppliedBefore
<1> QED
  BY <1>7, <1>8, <1>9 DEF WholeOK


(***************************************************************************)
(* Batches and progress                                                    *)
(***************************************************************************)

\* The parts of a job's name.
LEMMA JobParts ==
    /\ \A j \in JobIds : j.conv \in Conversations /\ j.start \in Nat /\ j.segment \in Nat
    /\ \A i, j \in JobIds : Batched(i, j) /\ i.segment = j.segment => i = j
  BY JobsAssumption DEF JobIds, Batched

\* Batches stay in order when jobs get on: none is unsettled again or loses its
\* place, a job that leaves the queue comes after settled segments, and the
\* progress of a conversation moves to the end of a job that was just settled.
LEMMA GettingOn ==
    ASSUME NEW D \in SUBSET JobIds, NEW T \in [D -> JobRecords], NEW S \in [D -> JobRecords],
           NEW R \in [Conversations -> Nat], NEW Q \in [Conversations -> Nat],
           BatchesIn(T, R),
           \A j \in D : /\ S[j].next = T[j].next /\ (Settled(T, j) => Settled(S, j))
                        /\ S[j].state # "queued" => T[j].state # "queued" \/ LowerSettled(T, j),
           \A c \in Conversations :
               \/ Q[c] = R[c]
               \/ \E j \in D : /\ j.conv = c /\ Q[c] = T[j].next
                               /\ ~ Settled(T, j) /\ T[j].state # "queued" /\ Settled(S, j)
    PROVE  BatchesIn(S, Q)
<1>0. DOMAIN T = D /\ DOMAIN S = D /\ \A j \in D : T[j].next \in Nat /\ S[j].next \in Nat
  BY JobsAssumption DEF JobRecords
<1>1. \A j \in D : BatchIn(T, R, j)
  BY <1>0 DEF BatchesIn
<1>2. ASSUME NEW c \in Conversations, Q[c] # R[c]
      PROVE  /\ \A i \in D : i.conv = c => Settled(S, i)
             /\ \E j \in D : j.conv = c /\ j.start = R[c] /\ Q[c] = S[j].next
  <2>1. PICK j \in D : /\ j.conv = c /\ Q[c] = T[j].next
                       /\ ~ Settled(T, j) /\ T[j].state # "queued" /\ Settled(S, j)
    BY <1>2
  <2>2. R[c] = j.start /\ T[j].next # j.start
    BY <1>1, <1>2, <2>1 DEF BatchIn
  <2>3. \A i \in D : Batched(i, j) => i.segment <= j.segment /\ (i.segment < j.segment => Settled(T, i))
    BY <1>0, <1>1, <2>1, <2>2 DEF BatchIn, LowerSettled
  <2>4. ASSUME NEW i \in D, i.conv = c, ~ Settled(S, i) PROVE FALSE
    <3>1. ~ Settled(T, i) /\ i # j
      BY <2>1, <2>4
    <3>2. R[c] = i.start
      BY <1>1, <2>4, <3>1 DEF BatchIn
    <3>3. Batched(i, j)
      BY <2>1, <2>2, <2>4, <3>2 DEF Batched
    <3>4. i.segment # j.segment /\ i.segment \in Nat /\ j.segment \in Nat
      BY <3>1, <3>3, JobParts
    <3>5. i.segment <= j.segment /\ (i.segment < j.segment => Settled(T, i))
      BY <2>3, <3>3
    <3>6. i.segment < j.segment
      <4>1. PICK a \in Nat, b \in Nat : a = i.segment /\ b = j.segment
        BY <3>4
      <4>2. a <= b /\ a # b
        BY <3>4, <3>5, <4>1
      <4> QED
        BY ONLY <4>1, <4>2
    <3> QED
      BY <3>1, <3>5, <3>6
  <2> QED
    BY <2>1, <2>2, <2>4
<1>3. ASSUME NEW j \in D PROVE BatchIn(S, Q, j)
  <2>1. j.conv \in Conversations
    BY JobParts
  <2>2. ASSUME ~ Settled(S, j) PROVE Q[j.conv] = j.start
    <3>1. Q[j.conv] = R[j.conv]
      BY <1>2, <2>1, <2>2
    <3> QED
      BY <1>1, <2>2, <3>1 DEF BatchIn
  <2>3. S[j].state # "queued" => LowerSettled(S, j)
    <3>1. T[j].state # "queued" => LowerSettled(T, j)
      BY <1>1 DEF BatchIn
    <3>2. LowerSettled(T, j) => LowerSettled(S, j)
      BY <1>0 DEF LowerSettled
    <3> QED
      BY <3>1, <3>2
  <2> QED
    BY <1>0, <1>1, <2>2, <2>3 DEF BatchIn
<1>4. ASSUME NEW c \in Conversations PROVE CoveredIn(S, Q, c)
  <2>1. \A t \in 0 .. R[c] - 1 : \E j \in D : j.conv = c /\ j.start <= t /\ t < S[j].next
    BY <1>0 DEF BatchesIn, CoveredIn
  <2>2. CASE Q[c] = R[c]
    BY <1>0, <2>1, <2>2 DEF CoveredIn
  <2>3. CASE Q[c] # R[c]
    <3>1. PICK j \in D : j.conv = c /\ j.start = R[c] /\ Q[c] = S[j].next
      BY <1>2, <2>3
    <3>2. \A t \in 0 .. Q[c] - 1 : t \in 0 .. R[c] - 1 \/ (j.start <= t /\ t < S[j].next)
      BY <3>1
    <3> QED
      BY <1>0, <2>1, <3>1, <3>2 DEF CoveredIn
  <2> QED
    BY <2>2, <2>3
<1> QED
  BY <1>0, <1>3, <1>4 DEF BatchesIn

\* A sweep keeps the batches in order: a job it parks had been attempted, so it is
\* the first unsettled one of its batch.
LEMMA SweepBatches ==
    ASSUME JournalOK, BatchesIn(jobs, progress)
    PROVE  BatchesIn(Swept, Advanced(jobs, Exhausted))
<1>1. DOMAIN jobs \in SUBSET JobIds /\ jobs \in [DOMAIN jobs -> JobRecords]
  BY DEF JournalOK
<1>2. Swept \in [DOMAIN jobs -> JobRecords]
  BY SweepEffect
<1>3. Exhausted \in SUBSET (DOMAIN jobs)
  BY DEF Exhausted
<1>4. progress \in [Conversations -> Nat] /\ Advanced(jobs, Exhausted) \in [Conversations -> Nat]
  BY <1>3, AdvancedIsMax, JobsAssumption DEF JournalOK
<1>5. ASSUME NEW j \in DOMAIN jobs
      PROVE  /\ Swept[j].next = jobs[j].next /\ (Settled(jobs, j) => Settled(Swept, j))
             /\ Swept[j].state # "queued" => jobs[j].state # "queued"
             /\ j \in Exhausted => ~ Settled(jobs, j) /\ jobs[j].state # "queued" /\ Settled(Swept, j)
  <2>1. Swept[j].next = jobs[j].next
    BY SweepEffect
  <2>2. Parked(j) \/ TakenBack(j) \/ (j \notin Exhausted /\ Swept[j] = jobs[j])
    BY SweepEffect
  <2>3. j \in Exhausted => jobs[j].state = "deferred"
    BY DEF Exhausted
  <2>4. Held \cap Terminal = {} /\ "queued" \notin Held /\ "parked" \in Terminal /\ "deferred" \notin Terminal
    BY DEF Held, Terminal
  <2>5. CASE Parked(j)
    BY <2>1, <2>3, <2>4, <2>5 DEF Parked, Settled
  <2>6. CASE TakenBack(j)
    <3>1. j \notin Exhausted
      BY <2>3, <2>6 DEF TakenBack, Held
    <3> QED
      BY <2>1, <2>4, <2>6, <3>1 DEF TakenBack, Settled
  <2>7. CASE j \notin Exhausted /\ Swept[j] = jobs[j]
    BY <2>1, <2>7 DEF Settled
  <2> QED
    BY <2>2, <2>5, <2>6, <2>7
<1>6. \A c \in Conversations :
          \/ Advanced(jobs, Exhausted)[c] = progress[c]
          \/ \E j \in Exhausted : j.conv = c /\ Advanced(jobs, Exhausted)[c] = jobs[j].next
  BY <1>3, AdvancedIsMax
<1> QED
  BY <1>1, <1>2, <1>3, <1>4, <1>5, <1>6, GettingOn


\* A new batch: its conversation had no unsettled job, its name is new, and only
\* its last segment ends beyond its first turn.
LEMMA OpenBatches ==
    ASSUME JournalOK, BatchesIn(Swept, progress'), progress' \in [Conversations -> Nat],
           NEW c \in Conversations, NEW count \in 1 .. MaxSegments, NEW n \in Nat, Opens(c, count, n)
    PROVE  BatchesIn(jobs', progress')
<1>0. /\ DOMAIN Swept = DOMAIN jobs /\ DOMAIN jobs \subseteq JobIds
      /\ \A i \in DOMAIN jobs : BatchIn(Swept, progress', i)
  BY SweepEffect DEF JournalOK, BatchesIn
<1>1. /\ DOMAIN jobs' = DOMAIN jobs \cup Segments(c, count) /\ Segments(c, count) \subseteq JobIds
      /\ c \in Candidates(Swept, progress')
  BY DEF Opens
<1>2. /\ \A i \in Segments(c, count) : i.conv = c /\ i.start = progress'[c] /\ i.segment \in 0 .. count - 1
      /\ First(c) \in Segments(c, count)
      /\ \A i \in Segments(c, count) : i # First(c) => i.segment # 0
  <2>1. 0 \in 0 .. count - 1
    BY JobsAssumption
  <2> QED
    BY <2>1 DEF Segments, First
<1>3. \A i \in DOMAIN jobs : ~ (i.conv = c /\ i.start = progress'[c])
  <2>1. First(c) \notin DOMAIN jobs
    BY <1>0, <1>1 DEF Candidates, First
  <2> QED
    BY <1>0, <2>1 DEF BatchIn, First
<1>4. \A i \in DOMAIN jobs : i \notin Segments(c, count) /\ jobs'[i] = Swept[i]
  BY <1>2, <1>3 DEF Opens
<1>5. ASSUME NEW i \in DOMAIN jobs PROVE BatchIn(jobs', progress', i)
  <2>1. \A k \in DOMAIN jobs' : Batched(k, i) => k \in DOMAIN jobs
    BY <1>1, <1>2, <1>3 DEF Batched
  <2>2. \A k \in DOMAIN jobs : Settled(Swept, k) => Settled(jobs', k)
    BY <1>4 DEF Settled
  <2>3. LowerSettled(Swept, i) => LowerSettled(jobs', i)
    BY <1>0, <2>1, <2>2 DEF LowerSettled
  <2>4. ~ Settled(jobs', i) => ~ Settled(Swept, i)
    BY <2>2
  <2> QED
    BY <1>0, <1>1, <1>4, <2>1, <2>3, <2>4 DEF BatchIn
<1>6. ASSUME NEW i \in Segments(c, count) PROVE BatchIn(jobs', progress', i)
  <2>1. \A k \in DOMAIN jobs' : Batched(k, i) => k \in Segments(c, count)
    BY <1>1, <1>2, <1>3 DEF Batched
  <2>2. jobs'[i].next = (IF i.segment = count - 1 THEN n ELSE progress'[c]) /\ progress'[c] < n
    BY DEF Opens
  <2>3. jobs'[i].next # i.start =>
            i.start < jobs'[i].next /\ \A k \in DOMAIN jobs' : Batched(k, i) => k.segment <= i.segment
    BY <1>2, <2>1, <2>2
  <2>4. jobs'[i].state # "queued" => LowerSettled(jobs', i)
    <3>1. jobs'[i].state # "queued" => i = First(c)
      BY DEF Opens
    <3>2. \A k \in DOMAIN jobs' : Batched(k, First(c)) => ~ (k.segment < First(c).segment)
      <4>1. \A k \in DOMAIN jobs' : k.segment \in Nat
        BY <1>0, <1>1, JobParts
      <4> QED
        BY <4>1 DEF First
    <3> QED
      BY <3>1, <3>2 DEF LowerSettled
  <2>5. [conv |-> i.conv, start |-> i.start, segment |-> 0] \in DOMAIN jobs'
    BY <1>1, <1>2 DEF First
  <2> QED
    BY <1>2, <2>3, <2>4, <2>5 DEF BatchIn
<1>7. ASSUME NEW d \in Conversations PROVE CoveredIn(jobs', progress', d)
  <2>1. CoveredIn(Swept, progress', d)
    BY DEF BatchesIn
  <2> QED
    BY <1>0, <1>1, <1>4, <2>1 DEF CoveredIn
<1> QED
  BY <1>1, <1>5, <1>6, <1>7 DEF BatchesIn

\* Every step keeps the batches in order, until a lease lapses under a living
\* worker.
LEMMA BatchesStep ==
    ASSUME JournalOK, ThreadsOK, NotesOK, SerialOK, BatchesOK, [Next]_vars
    PROVE  BatchesOK'
<1> SUFFICES ASSUME overruns' = 0 PROVE BatchesIn(jobs', progress')
  BY DEF BatchesOK
<1>0. overruns = 0 /\ BatchesIn(jobs, progress)
  BY OverrunsGrow DEF BatchesOK
<1>1. /\ DOMAIN jobs \in SUBSET JobIds /\ jobs \in [DOMAIN jobs -> JobRecords]
      /\ progress \in [Conversations -> Nat]
  BY JobsAssumption DEF JournalOK
<1>2. ASSUME NEW i \in DOMAIN jobs, NEW q, Rewritten(i, q), progress' \in [Conversations -> Nat],
             Settled(jobs, i) => q.state \in Terminal,
             q.state # "queued" => jobs[i].state # "queued",
             \A c \in Conversations :
                 \/ progress'[c] = progress[c]
                 \/ /\ i.conv = c /\ progress'[c] = jobs[i].next
                    /\ ~ Settled(jobs, i) /\ jobs[i].state # "queued" /\ q.state \in Terminal
      PROVE  BatchesIn(jobs', progress')
  <2>1. /\ DOMAIN jobs' = DOMAIN jobs /\ jobs' \in [DOMAIN jobs -> JobRecords]
        /\ jobs'[i] = q /\ \A h \in DOMAIN jobs : h # i => jobs'[h] = jobs[h]
        /\ q.next = jobs[i].next
    BY <1>2, RewrittenOK DEF Rewritten
  <2>2. \A h \in DOMAIN jobs : /\ jobs'[h].next = jobs[h].next /\ (Settled(jobs, h) => Settled(jobs', h))
                               /\ jobs'[h].state # "queued" => jobs[h].state # "queued"
    BY <1>2, <2>1 DEF Settled
  <2>3. \A c \in Conversations :
            \/ progress'[c] = progress[c]
            \/ \E j \in DOMAIN jobs : /\ j.conv = c /\ progress'[c] = jobs[j].next
                                      /\ ~ Settled(jobs, j) /\ jobs[j].state # "queued" /\ Settled(jobs', j)
    BY <1>2, <2>1 DEF Settled
  <2> QED
    BY <1>0, <1>1, <1>2, <2>1, <2>2, <2>3, GettingOn
<1>3. ASSUME UNCHANGED <<jobs, progress>> PROVE BatchesIn(jobs', progress')
  BY <1>0, <1>3
<1>4. Held \cap Terminal = {} /\ "queued" \notin Held /\ "deferred" \notin Terminal
  BY DEF Held, Terminal
<1>5. ASSUME NEW w \in Workers, Works(w) PROVE BatchesIn(jobs', progress')
  <2>1. /\ progress' = progress /\ (jobs' = jobs \/ Staged(w))
        /\ mine[w].job \in DOMAIN jobs /\ jobs[mine[w].job].state \in Held
    BY <1>0, <1>5 DEF Works, SerialOK, Busy, ThreadsOK, Fits
  <2>2. CASE Staged(w)
    <3>1. PICK q : Rewritten(mine[w].job, q) /\ q.state \in Held
      BY <2>2 DEF Staged
    <3> QED
      BY <1>1, <1>2, <1>4, <2>1, <3>1 DEF Settled
  <2> QED
    BY <1>3, <2>1, <2>2
<1>6. ASSUME NEW w \in Workers, Leaves(w) PROVE BatchesIn(jobs', progress')
  <2>1. /\ mine[w].job \in DOMAIN jobs /\ mine[w].result \in {NoResult} \cup Results
        /\ jobs[mine[w].job].state \in Held
    BY <1>0, <1>6 DEF Leaves, SerialOK, Busy, ThreadsOK, Fits, Claims
  <2>2. PICK s \in {"deferred"} \cup Terminal : FinishJob(mine[w].job, s, mine[w].result)
    BY <1>6 DEF Leaves
  <2>3. PICK q : Rewritten(mine[w].job, q) /\ q.state = s
    BY <2>1, <2>2, FinishEffect
  <2>4. progress' \in [Conversations -> 0 .. MaxTurns]
        /\ \A c \in Conversations :
               progress'[c] = progress[c] \/ (s # "deferred" /\ mine[w].job.conv = c
                                              /\ progress'[c] = jobs[mine[w].job].next)
    BY <2>1, <2>2, FinishedProgress
  <2>5. progress' \in [Conversations -> Nat]
    BY <2>4, JobsAssumption
  <2> QED
    BY <1>2, <1>4, <2>1, <2>3, <2>4, <2>5 DEF Settled
<1>7. ASSUME NEW w \in Workers, Claim(w) PROVE BatchesIn(jobs', progress')
  <2>1. /\ progress' = Advanced(jobs, Exhausted) /\ BatchesIn(Swept, progress')
        /\ progress' \in [Conversations -> Nat]
    <3>1. progress' = Advanced(jobs, Exhausted)
      BY <1>7, ClaimEffect
    <3>2. Advanced(jobs, Exhausted) \in [Conversations -> 0 .. MaxTurns]
      BY AdvancedIsMax DEF Exhausted
    <3> QED
      BY <1>0, <3>1, <3>2, SweepBatches, JobsAssumption
  <2>2. CASE jobs' = Swept
    BY <2>1, <2>2
  <2>3. ASSUME NEW j \in JobIds, TakesUp(j) PROVE BatchesIn(jobs', progress')
    <3>1. PICK q \in JobRecords : /\ jobs' = [Swept EXCEPT ![j] = q] /\ q.state = "proposing"
                                  /\ q.next = jobs[j].next
      BY <2>3 DEF TakesUp
    <3>2. /\ Swept \in [DOMAIN jobs -> JobRecords] /\ j \in DOMAIN jobs /\ Swept[j].next = jobs[j].next
          /\ DOMAIN Swept = DOMAIN jobs
      BY <2>3, SweepEffect DEF TakesUp
    <3>3. ~ Settled(Swept, j) /\ LowerSettled(Swept, j)
      <4>1. j \in Eligible(Swept)
        BY <2>3 DEF TakesUp
      <4>2. Swept[j].state \in Waiting /\ Waiting \cap Terminal = {}
        BY <4>1 DEF Eligible, Waiting, Terminal
      <4> QED
        BY <4>1, <4>2 DEF Eligible, Settled, LowerSettled, Batched
    <3>4. /\ jobs' \in [DOMAIN jobs -> JobRecords] /\ jobs'[j] = q
          /\ \A h \in DOMAIN jobs : h # j => jobs'[h] = Swept[h]
      BY <3>1, <3>2
    <3>5. \A h \in DOMAIN jobs :
              /\ jobs'[h].next = Swept[h].next /\ (Settled(Swept, h) => Settled(jobs', h))
              /\ jobs'[h].state # "queued" => Swept[h].state # "queued" \/ LowerSettled(Swept, h)
      BY <3>1, <3>2, <3>3, <3>4 DEF Settled
    <3> QED
      BY <1>1, <2>1, <3>2, <3>4, <3>5, GettingOn
  <2>4. ASSUME NEW c \in Conversations, NEW count \in 1 .. MaxSegments, NEW n \in Nat, Opens(c, count, n)
        PROVE  BatchesIn(jobs', progress')
    BY <2>1, <2>4, OpenBatches
  <2> QED
    BY <1>7, <2>2, <2>3, <2>4, ClaimEffect
<1>8. ASSUME NEW j \in JobIds, TimePasses(j) PROVE BatchesIn(jobs', progress')
  <2>1. j \in DOMAIN jobs /\ progress' = progress /\ \E q : Rewritten(j, q) /\ q.state = jobs[j].state
    BY <1>8, TimeEffect DEF TimePasses, Lapse, RetryDue
  <2>2. PICK q : Rewritten(j, q) /\ q.state = jobs[j].state
    BY <2>1
  <2> QED
    BY <1>1, <1>2, <2>1, <2>2 DEF Settled
<1>9. CASE Aside \/ (\E w \in Workers : Crash(w))
           \/ \E n \in AllNotes, how \in {"edit", "delete"} : UserChanges(n, how)
  <2>1. UNCHANGED <<jobs, progress>>
    BY <1>9 DEF Aside, Crash, UserChanges, jobVars
  <2> QED
    BY <1>3, <2>1
<1> QED
  BY <1>5, <1>6, <1>7, <1>8, <1>9, StepKinds


(***************************************************************************)
(* The invariant and the properties                                        *)
(***************************************************************************)

\* The ten parts.
MemoryInv ==
    /\ JournalOK /\ ThreadsOK /\ NotesOK /\ LateOK /\ AttemptsOK
    /\ SectionsOK /\ EditsOK /\ SerialOK /\ BatchesOK /\ WholeOK

\* The invariant holds of an empty journal, with every worker idle.
LEMMA InitHolds == Init => MemoryInv
<1> SUFFICES ASSUME Init PROVE MemoryInv
  OBVIOUS
<1>1. DOMAIN jobs = {} /\ DOMAIN operations = {} /\ DOMAIN edits = {}
  BY DEF Init, JobsInit
<1>2. JournalOK
  <2>1. jobs \in [{} -> JobRecords] /\ operations \in [{} -> Records]
    BY DEF Init, JobsInit
  <2> QED
    BY <1>1, <2>1, JobsAssumption DEF Init, JobsInit, JournalOK
<1>3. \A w \in Workers : at[w] = "idle" /\ mine[w] = Nothing
  BY DEF Init
<1>4. ThreadsOK
  <2>1. Nothing \in Claims /\ Fits("idle", Nothing) /\ "idle" \in Places
    BY DEF Nothing, Claims, Packets, Fits, Writing, Recorded, Places
  <2>2. at \in [Workers -> Places] /\ mine \in [Workers -> Claims]
    BY <2>1 DEF Init
  <2> QED
    BY <1>3, <2>1, <2>2 DEF ThreadsOK
<1>5. << <<"user", 0>> >> \in Contents /\ <<>> \in Contents
  <2>1. <<"user", 0>> \in Entries
    BY DEF Entries
  <2> QED
    BY <2>1, EmptySeq DEF Contents
<1>6. NotesOK
  <2>1. notes \in [AllNotes -> Contents]
    BY <1>5 DEF Init
  <2>2. edits \in Seq([note : AllNotes, how : {"edit", "delete"}])
    BY EmptySeq DEF Init
  <2> QED
    BY <2>1, <2>2 DEF Init, NotesOK
<1>7. LateOK
  BY DEF Init, LateOK
<1>8. AttemptsOK
  BY <1>1 DEF AttemptsOK
<1>9. SectionsOK
  <2>1. ASSUME NEW n \in AllNotes PROVE notes[n] = << <<"user", 0>> >> \/ notes[n] = <<>>
    BY DEF Init
  <2>2. Once(<<>>) /\ \A p : ~ Holds(<<>>, p)
    BY DEF Once, Holds
  <2>3. Once(<< <<"user", 0>> >>) /\ \A p : ~ Holds(<< <<"user", 0>> >>, p)
    BY DEF Once, Holds, SectionOf
  <2>4. "idle" \notin Recorded
    BY DEF Recorded
  <2> QED
    BY <1>1, <1>3, <2>1, <2>2, <2>3, <2>4 DEF SectionsOK
<1>10. EditsOK
  BY <1>1 DEF EditsOK
<1>11. SerialOK
  BY <1>3 DEF SerialOK, Busy
<1>12. BatchesOK
  <2>1. \A c \in Conversations : progress[c] = 0
    BY DEF Init, JobsInit
  <2> QED
    BY <1>1, <2>1 DEF BatchesOK, BatchesIn, CoveredIn
<1>13. WholeOK
  BY <1>1, <1>3 DEF WholeOK, Writing, Recorded
<1> QED
  BY <1>2, <1>4, <1>6, <1>7, <1>8, <1>9, <1>10, <1>11, <1>12, <1>13 DEF MemoryInv

\* The journal, the threads and the notes are in order, and what the properties
\* rest on holds of them, in every state of any number of processes.
THEOREM MemoryInvariant == Spec => []MemoryInv
<1>1. MemoryInv /\ [Next]_vars => MemoryInv'
  BY JournalStep, ThreadsStep, NotesStep, LateStep, AttemptsStep, SectionsStep, EditsStep,
     SerialStep, BatchesStep, WholeStep DEF MemoryInv
<1> QED
  BY <1>1, InitHolds, PTL DEF Spec

\* After a pause, a switched-off setting, a close or a foreground call a worker
\* writes at most one more note in this attempt (apply.py looks before each
\* operation).
THEOREM LateWritesBounded == Spec => []OneLateWrite
<1>1. MemoryInv => OneLateWrite
  BY DEF MemoryInv, LateOK, OneLateWrite
<1> QED
  BY <1>1, MemoryInvariant, PTL

\* A job is attempted at most as often as its bound says, and once more for each
\* worker that died or outlived its lease (claim parks before it takes back).
THEOREM AttemptsStayBounded == Spec => []AttemptsBounded
<1>1. MemoryInv => AttemptsBounded
  BY DEF MemoryInv, AttemptsOK, Allowed, AttemptsBounded
<1> QED
  BY <1>1, MemoryInvariant, PTL

\* However often a job is replayed, and whoever replays it, no note holds the
\* section of one operation twice (apply.py takes up the journal record as it is).
THEOREM SectionsAreWrittenOnce == Spec => []SectionOnce
<1>1. MemoryInv => SectionOnce
  <2>1. ASSUME MemoryInv, NEW n \in AllNotes
        PROVE  \A i, k \in DOMAIN notes[n] :
                   notes[n][i][1] = "section" /\ notes[n][k][1] = "section"
                   /\ notes[n][i][2] = notes[n][k][2] /\ notes[n][i][3] = notes[n][k][3] => i = k
    <3>1. Once(notes[n]) /\ notes[n] \in Contents
      BY <2>1 DEF MemoryInv, SectionsOK, NotesOK
    <3>2. DOMAIN notes[n] = 1 .. Len(notes[n])
      BY <3>1, LenProperties DEF Contents
    <3> QED
      BY <3>1, <3>2 DEF Once
  <2> QED
    BY <2>1 DEF SectionOnce
<1> QED
  BY <1>1, MemoryInvariant, PTL

\* What the user wrote into a note stays there, unless the note was deleted since
\* or the edit fell between a worker's check and its replacement.
THEOREM EditsAreKept == Spec => []EditsKept
<1>1. MemoryInv => EditsKept
  <2>1. ASSUME MemoryInv, NEW e \in DOMAIN edits \ exposed
        PROVE  \/ \E d \in DOMAIN edits : d >= e /\ edits[d] = [note |-> edits[e].note, how |-> "delete"]
               \/ \E i \in DOMAIN notes[edits[e].note] : notes[edits[e].note][i] = <<"user", e>>
    <3>1. Kept(e) /\ notes[edits[e].note] \in Contents
      BY <2>1, EditedNote DEF MemoryInv, EditsOK, NotesOK
    <3>2. DOMAIN notes[edits[e].note] = 1 .. Len(notes[edits[e].note])
      BY <3>1, LenProperties DEF Contents
    <3> QED
      BY <3>1, <3>2 DEF Kept, Gone, Has
  <2> QED
    BY <2>1 DEF EditsKept, Contains
<1> QED
  BY <1>1, MemoryInvariant, PTL

\* Until a lease lapses under a living worker, progress never passes a batch of
\* which a segment is unsettled, and passes no turn that no batch covers.
THEOREM ProgressIsJustified == Spec => []ProgressJustified
<1>1. MemoryInv => ProgressJustified
  <2>1. ASSUME MemoryInv, overruns = 0, NEW c \in Conversations
        PROVE  /\ \A j \in DOMAIN jobs : j.conv = c /\ jobs[j].state \notin Terminal => progress[c] <= j.start
               /\ \A t \in 0 .. progress[c] - 1 : \E j \in DOMAIN jobs :
                      j.conv = c /\ j.start <= t /\ t < jobs[j].next
    <3>1. BatchesIn(jobs, progress) /\ DOMAIN jobs \subseteq JobIds
      BY <2>1 DEF MemoryInv, BatchesOK, JournalOK
    <3>2. \A j \in DOMAIN jobs : j.start \in Nat
      BY <3>1, JobParts
    <3>3. CoveredIn(jobs, progress, c) /\ \A j \in DOMAIN jobs : BatchIn(jobs, progress, j)
      BY <3>1 DEF BatchesIn
    <3>4. \A j \in DOMAIN jobs : j.conv = c /\ jobs[j].state \notin Terminal => progress[c] = j.start
      BY <3>3 DEF BatchIn, Settled
    <3>5. \A j \in DOMAIN jobs : j.conv = c /\ jobs[j].state \notin Terminal => progress[c] <= j.start
      BY <3>2, <3>4
    <3> QED
      BY <3>3, <3>5 DEF CoveredIn
  <2> QED
    BY <2>1 DEF ProgressJustified
<1> QED
  BY <1>1, MemoryInvariant, PTL

\* A job counts as applied only when every operation of its result is journaled,
\* and marked done unless a worker outlived its lease.
THEOREM AppliedIsWhole == Spec => []AppliedWhole
<1>1. MemoryInv => AppliedWhole
  <2>1. ASSUME MemoryInv, NEW j \in DOMAIN jobs, jobs[j].state = "applied", NEW k \in DOMAIN jobs[j].result.ops
        PROVE  /\ <<j, k>> \in DOMAIN operations
               /\ overruns = 0 => operations[<<j, k>>].done = "yes"
    <3>1. jobs[j].result \in Results /\ \A i \in 1 .. Len(jobs[j].result.ops) : InJournal(j, i)
      BY <2>1 DEF MemoryInv, WholeOK
    <3>2. DOMAIN jobs[j].result.ops = 1 .. Len(jobs[j].result.ops)
      BY <3>1, LenProperties DEF Results
    <3> QED
      BY <2>1, <3>1, <3>2 DEF InJournal
  <2> QED
    BY <2>1 DEF AppliedWhole
<1> QED
  BY <1>1, MemoryInvariant, PTL

\* What each process knows of the switches and of the calls, and what is saved.
SwitchesOK ==
    /\ off \in [Workers -> SUBSET (Switches \cup {"stop"})]
    /\ calls \in [Workers -> {"none", "some"}]
    /\ stored \subseteq Switches

\* Only the calls, the user, a close and a death change them.
LEMMA SwitchesStep == SwitchesOK /\ [Next]_vars => SwitchesOK'
<1> SUFFICES ASSUME SwitchesOK, [Next]_vars PROVE SwitchesOK'
  OBVIOUS
<1>1. UNCHANGED <<calls, off, stored>> => SwitchesOK'
  BY DEF SwitchesOK
<1>2. ASSUME NEW w \in Workers, Prepare(w) \/ Lease(w) \/ Review(w) \/ Curate(w) PROVE SwitchesOK'
  BY <1>1, <1>2 DEF Prepare, Lease, Review, Curate
<1>3. ASSUME NEW w \in Workers, Decide(w) \/ OpenApply(w) \/ Look(w) \/ Record(w) PROVE SwitchesOK'
  BY <1>1, <1>3 DEF Decide, OpenApply, Look, Record
<1>4. ASSUME NEW w \in Workers, Compare(w) \/ Write(w) \/ Confirm(w) PROVE SwitchesOK'
  BY <1>1, <1>4 DEF Compare, Write, Confirm
<1>5. ASSUME NEW w \in Workers, Finish(w) \/ FinishFailed(w) PROVE SwitchesOK'
  BY <1>1, <1>5 DEF Finish, FinishFailed, Leave
<1>6. ASSUME NEW w \in Workers, Step(w) PROVE SwitchesOK'
  BY <1>2, <1>3, <1>4, <1>5, <1>6 DEF Step
<1>7. ASSUME NEW w \in Workers, Claim(w) PROVE SwitchesOK'
  BY <1>1, <1>7 DEF Claim, Begin, workerVars
<1>8. ASSUME NEW w \in Workers, CallArrives(w) \/ CallsLeave(w) PROVE SwitchesOK'
  BY <1>8 DEF CallArrives, CallsLeave, SwitchesOK
<1>9. ASSUME NEW w \in Workers, Close(w) \/ Crash(w) PROVE SwitchesOK'
  BY <1>9 DEF Close, Crash, SwitchesOK
<1>10. ASSUME NEW w \in Workers, NEW s \in Switches, SwitchOff(w, s) \/ SwitchOn(w, s) PROVE SwitchesOK'
  BY <1>10 DEF SwitchOff, SwitchOn, SwitchesOK
<1>11. ASSUME NEW n \in AllNotes, NEW how \in {"edit", "delete"}, UserChanges(n, how) PROVE SwitchesOK'
  BY <1>1, <1>11 DEF UserChanges
<1>12. ASSUME NEW j \in JobIds, TimePasses(j) PROVE SwitchesOK'
  BY <1>1, <1>12 DEF TimePasses, workerVars
<1>13. ASSUME NEW c \in Conversations, Grow(c) PROVE SwitchesOK'
  BY <1>1, <1>13 DEF Grow, workerVars
<1>14. CASE UNCHANGED vars
  BY <1>1, <1>14 DEF vars, workerVars
<1> QED
  BY <1>6, <1>7, <1>8, <1>9, <1>10, <1>11, <1>12, <1>13, <1>14 DEF Next

\* The journal, the notes, the switches and the tokens hold what the program can
\* put there: states of jobs, counts of turns, settings that exist.
THEOREM MemoryTypeCorrect == Spec => []MemoryTypeOK
<1>1. Init => SwitchesOK
  BY DEF Init, SwitchesOK
<1>2. Spec => []SwitchesOK
  BY <1>1, SwitchesStep, PTL DEF Spec
<1>3. MemoryInv /\ SwitchesOK => MemoryTypeOK
  <2> SUFFICES ASSUME MemoryInv, SwitchesOK PROVE MemoryTypeOK
    OBVIOUS
  <2>1. JournalOK /\ NotesOK /\ LateOK
    BY DEF MemoryInv
  <2>2. ASSUME NEW j \in DOMAIN jobs
        PROVE  [f \in DOMAIN jobs[j] \ {"result", "packet"} |-> jobs[j][f]] \in Job
    <3>1. jobs[j] \in JobRecords
      BY <2>1 DEF JournalOK
    <3>2. DOMAIN jobs[j] \ {"result", "packet"} = {"next", "state", "attempts", "retry", "lease"}
      BY <3>1 DEF JobRecords
    <3>3. /\ jobs[j].next \in Nat /\ jobs[j].state \in Held \cup Waiting \cup Terminal
          /\ jobs[j].attempts \in Nat /\ jobs[j].retry \in {"due", "later"}
          /\ jobs[j].lease \in {"none", "live", "lapsed"}
      BY <3>1 DEF JobRecords
    <3> DEFINE q == [f \in {"next", "state", "attempts", "retry", "lease"} |-> jobs[j][f]]
    <3>4. q = [next |-> jobs[j].next, state |-> jobs[j].state, attempts |-> jobs[j].attempts,
               retry |-> jobs[j].retry, lease |-> jobs[j].lease]
      OBVIOUS
    <3>5. q \in Job
      BY <3>3, <3>4 DEF Job
    <3> QED
      BY <3>2, <3>5
  <2> QED
    BY <2>1, <2>2 DEF MemoryTypeOK, JournalOK, NotesOK, LateOK, SwitchesOK
<1> QED
  BY <1>2, <1>3, MemoryInvariant, PTL
=============================================================================
