--------------------------- MODULE AgentLoopProofs ---------------------------
(***************************************************************************)
(* The agent loop for any number of calls, tools, turns and modes, for     *)
(* transcripts of any length and ids that recur.  The properties speak of  *)
(* a transcript; what makes them inductive is where each of its calls      *)
(* stands:                                                                 *)
(*                                                                         *)
(*   - an executed call that has to be asked for has a consumed approval   *)
(*     for exactly its tool and arguments (EffectsOK);                     *)
(*   - a call whose id does not recur is answered, or queued, or parked,   *)
(*     and not two of these (OnceOK);                                      *)
(*   - the queue is a piece of the last turn, in order, so the calls that  *)
(*     a parked one leaves behind stand behind it in its turn (OrderOK);   *)
(*   - a call only begins or waits while the budget has room for it        *)
(*     (BudgetOK).                                                         *)
(***************************************************************************)
EXTENDS AgentLoop, PermissionServiceProofs, FiniteSetTheorems, SequenceTheorems

CallEntries == [kind : {"call"}, call : Calls, turn : Nat]
ResultEntries == [kind : {"result"}, id : CallIds, status : ResultStatuses]

LoopTypeOK ==
    /\ TypeOK /\ run \in Runs
    /\ transcript \in Seq(CallEntries \cup ResultEntries)
    /\ at \in {"parked", "resuming"} => parked \in CallIds

IdAt(i) == transcript[i].call.id

\* Executed although it has to be asked for: its approval was for it.
EffectsOK ==
    \A c \in Calls : effects[c] > 0 /\ MustAsk(run, c) =>
        /\ effects[c] = 1
        /\ KeyOf(run, c) \in consumed /\ decision[KeyOf(run, c)] \in AllowKinds
        /\ asked[KeyOf(run, c)] = [tool |-> c.tool, args |-> c.args]

\* What the queue, the parked call, the results and the executions belong to.
QueueOK ==
    /\ \A j \in ResultAt : \E i \in CallAt : i < j /\ IdAt(i) = transcript[j].id
    /\ \A n \in DOMAIN queue : \E i \in CallAt : transcript[i].call = queue[n]
    /\ \A c \in Calls : effects[c] > 0 => \E i \in CallAt : transcript[i].call = c
    /\ at \in {"provider", "parked", "ended"} => queue = << >>
    /\ at = "executing" => queue # << >>
    /\ at = "resuming" => \A n \in DOMAIN queue : queue[n].id = parked
    /\ at \in {"parked", "resuming"} =>
         Requested(<<run, parked>>) /\ \E i \in CallAt : IdAt(i) = parked

\* A result for the id of call i is still to come.
Owed(i) ==
    \/ \E n \in DOMAIN queue : queue[n].id = IdAt(i)
    \/ at = "parked" /\ parked = IdAt(i)

Once(i) ==
    /\ Cardinality(AnswersTo(i)) <= 1 /\ effects[transcript[i].call] <= 1
    /\ Owed(i) => AnswersTo(i) = {}
    /\ Owed(i) => \/ effects[transcript[i].call] = 0
                  \/ at = "executing" /\ Head(queue).id = IdAt(i)
    /\ \A m, n \in DOMAIN queue : queue[m].id = IdAt(i) /\ queue[n].id = IdAt(i) => m = n

OnceOK == \A i \in CallAt : Recurring(i) \/ Once(i)

\* Call i stands behind one of its turn that was asked for.
Behind(i) ==
    \E h \in CallAt :
        /\ h < i /\ transcript[h].turn = transcript[i].turn
        /\ Requested(<<run, IdAt(h)>>)
        /\ AnswersTo(h) # {} \/ (at \in {"parked", "resuming"} /\ IdAt(h) = parked)

\* The queue is the piece of the last turn behind place b of the transcript.
QueueFrom(b) ==
    \A n \in DOMAIN queue : /\ b + n \in CallAt /\ transcript[b + n].call = queue[n]
                            /\ transcript[b + n].turn = turns

OrderOK ==
    /\ at = "provider" => \A i \in CallAt : AnswersTo(i) # {} \/ Behind(i)
    /\ at \in {"calls", "executing"} => \E b \in 0..Len(transcript) :
          /\ QueueFrom(b)
          /\ \A i \in CallAt : \/ AnswersTo(i) # {} \/ Behind(i)
                               \/ \E n \in DOMAIN queue : i = b + n
    /\ at \in {"parked", "resuming"} =>
          \A i \in CallAt : AnswersTo(i) # {} \/ Behind(i) \/ IdAt(i) = parked
    /\ at = "resuming" /\ queue = << >> =>
          \A i \in CallAt : IdAt(i) = parked => AnswersTo(i) # {}

BudgetOK ==
    IdsDistinct =>
        /\ used <= MaxToolCalls
        /\ at \in {"executing", "parked"} => used < MaxToolCalls
        /\ at = "resuming" => used + Len(queue) <= MaxToolCalls

LoopInv ==
    /\ LoopTypeOK /\ PermInv
    /\ EffectsOK /\ QueueOK /\ OnceOK /\ OrderOK /\ BudgetOK

(***************************************************************************)
(* Transcripts                                                             *)
(***************************************************************************)

\* A transcript consists of calls and results.
LEMMA TranscriptParts ==
    ASSUME LoopTypeOK
    PROVE  /\ Len(transcript) \in Nat /\ DOMAIN transcript = 1..Len(transcript)
           /\ CallAt \cup ResultAt = 1..Len(transcript) /\ CallAt \cap ResultAt = {}
           /\ CallAt \subseteq Nat /\ ResultAt \subseteq Nat
           /\ \A i \in CallAt : /\ transcript[i].call \in Calls /\ transcript[i].turn \in Nat
                                /\ IdAt(i) \in CallIds
           /\ \A j \in ResultAt : transcript[j].id \in CallIds
           /\ IsFiniteSet(CallAt) /\ IsFiniteSet(ResultAt)
<1>1. transcript \in Seq(CallEntries \cup ResultEntries)
  BY DEF LoopTypeOK
<1>2. Len(transcript) \in Nat /\ DOMAIN transcript = 1..Len(transcript)
  BY <1>1
<1>3. \A i \in 1..Len(transcript) : transcript[i] \in CallEntries \cup ResultEntries
  BY <1>1
<1>4. IsFiniteSet(1..Len(transcript))
  BY <1>2, FS_Interval
<1>5. CallAt \subseteq 1..Len(transcript) /\ ResultAt \subseteq 1..Len(transcript)
  BY <1>2 DEF CallAt, ResultAt
<1>6. IsFiniteSet(CallAt) /\ IsFiniteSet(ResultAt)
  BY <1>4, <1>5, FS_Subset
<1> QED
  BY <1>2, <1>3, <1>5, <1>6 DEF CallAt, ResultAt, CallEntries, ResultEntries, IdAt, Calls

\* A result at the end of the transcript: it answers the calls with its id.
LEMMA ResultAppended ==
    ASSUME LoopTypeOK, NEW c \in Calls, NEW s \in ResultStatuses,
           transcript' = Append(transcript, Result(c, s))
    PROVE  /\ transcript' \in Seq(CallEntries \cup ResultEntries)
           /\ Len(transcript') = Len(transcript) + 1
           /\ CallAt' = CallAt /\ ResultAt' = ResultAt \cup {Len(transcript) + 1}
           /\ transcript'[Len(transcript) + 1].id = c.id
           /\ \A i \in 1..Len(transcript) : transcript'[i] = transcript[i]
           /\ \A i \in CallAt : /\ IdAt(i)' = IdAt(i)
                                /\ Namesakes(i)' = Namesakes(i)
                                /\ AnswersTo(i)' = IF IdAt(i) = c.id
                                                     THEN AnswersTo(i) \cup {Len(transcript) + 1}
                                                     ELSE AnswersTo(i)
<1>1. /\ transcript \in Seq(CallEntries \cup ResultEntries)
      /\ Result(c, s) \in ResultEntries /\ Result(c, s).kind = "result" /\ Result(c, s).id = c.id
  BY DEF LoopTypeOK, Result, ResultEntries, Calls
<1>2. /\ transcript' \in Seq(CallEntries \cup ResultEntries)
      /\ Len(transcript') = Len(transcript) + 1
      /\ DOMAIN transcript' = 1..(Len(transcript) + 1)
      /\ \A i \in 1..Len(transcript) : transcript'[i] = transcript[i]
      /\ transcript'[Len(transcript) + 1] = Result(c, s)
  BY <1>1
<1>3. /\ Len(transcript) \in Nat /\ DOMAIN transcript = 1..Len(transcript)
      /\ CallAt \subseteq 1..Len(transcript) /\ ResultAt \subseteq 1..Len(transcript)
  BY TranscriptParts
<1>4. CallAt' = CallAt /\ ResultAt' = ResultAt \cup {Len(transcript) + 1}
  BY <1>1, <1>2, <1>3 DEF CallAt, ResultAt
<1>5. ASSUME NEW i \in CallAt
      PROVE  /\ IdAt(i)' = IdAt(i) /\ Namesakes(i)' = Namesakes(i)
             /\ AnswersTo(i)' = IF IdAt(i) = c.id THEN AnswersTo(i) \cup {Len(transcript) + 1}
                                                  ELSE AnswersTo(i)
  <2>1. IdAt(i)' = IdAt(i)
    BY <1>2, <1>3 DEF IdAt
  <2>2. \A j \in CallAt : IdAt(j)' = IdAt(j)
    BY <1>2, <1>3 DEF IdAt
  <2>3. Namesakes(i)' = Namesakes(i)
    BY <1>4, <2>1, <2>2 DEF Namesakes, IdAt
  <2>4. \A j : j \in AnswersTo(i)' <=> j \in ResultAt' /\ transcript'[j].id = IdAt(i)
    BY <2>1 DEF AnswersTo, IdAt
  <2>5. \A j : j \in AnswersTo(i) <=> j \in ResultAt /\ transcript[j].id = IdAt(i)
    BY DEF AnswersTo, IdAt
  <2>6. \A j \in ResultAt : transcript'[j].id = transcript[j].id
    BY <1>2, <1>3
  <2>7. PICK L : L = Len(transcript) + 1
    OBVIOUS
  <2>8. ResultAt' = ResultAt \cup {L} /\ transcript'[L].id = c.id
    BY <1>1, <1>2, <1>4, <2>7
  <2>9. \A j : j \in AnswersTo(i)' <=> j \in AnswersTo(i) \/ (j = L /\ IdAt(i) = c.id)
    BY <2>4, <2>5, <2>6, <2>8
  <2> QED
    BY <2>1, <2>3, <2>7, <2>9
<1> QED
  BY <1>1, <1>2, <1>4, <1>5

\* What a turn of n calls has added to a transcript of length L.
TurnAdded(L, n, batch) ==
    /\ transcript' \in Seq(CallEntries \cup ResultEntries)
    /\ Len(transcript') = L + n
    /\ CallAt' = CallAt \cup {L + i : i \in 1..n}
    /\ ResultAt' = ResultAt
    /\ \A i \in 1..L : transcript'[i] = transcript[i]
    /\ \A i \in 1..n : /\ transcript'[L + i].call = batch[i]
                       /\ transcript'[L + i].turn = turns + 1
    /\ \A i \in CallAt : /\ IdAt(i)' = IdAt(i) /\ AnswersTo(i)' = AnswersTo(i)
                         /\ Namesakes(i) \subseteq Namesakes(i)'

\* The calls of a turn at the end of the transcript.
LEMMA TurnAppended ==
    ASSUME LoopTypeOK, NEW L \in Nat, L = Len(transcript),
           NEW n \in Nat, NEW batch \in [1..n -> Calls],
           transcript' = transcript \o [i \in DOMAIN batch |-> Asks(batch[i])]
    PROVE  TurnAdded(L, n, batch)
<1> DEFINE new == [i \in DOMAIN batch |-> Asks(batch[i])]
<1>1. /\ transcript \in Seq(CallEntries \cup ResultEntries) /\ turns \in Nat
  BY AgentLoopAssumption DEF LoopTypeOK, TypeOK
<1>2. new \in [1..n -> CallEntries] /\ \A i \in 1..n : new[i] = Asks(batch[i])
  BY <1>1 DEF Asks, CallEntries
<1>3. new \in Seq(CallEntries \cup ResultEntries) /\ Len(new) = n
  BY <1>2
<1> HIDE DEF new
<1>4. /\ transcript' \in Seq(CallEntries \cup ResultEntries)
      /\ Len(transcript') = L + n
      /\ DOMAIN transcript' = 1..(L + n)
      /\ \A i \in 1..L : transcript'[i] = transcript[i]
      /\ \A i \in 1..n : transcript'[L + i] = new[i]
  <2>1. transcript' = transcript \o new
    BY DEF new
  <2>2. /\ transcript \o new \in Seq(CallEntries \cup ResultEntries)
        /\ Len(transcript \o new) = Len(transcript) + Len(new)
        /\ \A i \in 1..Len(transcript) + Len(new) :
              (transcript \o new)[i] =
                  IF i <= Len(transcript) THEN transcript[i] ELSE new[i - Len(transcript)]
    BY ONLY <1>1, <1>3, ConcatProperties
  <2>3. /\ Len(transcript') = L + n
        /\ \A i \in 1..(L + n) :
              transcript'[i] = IF i <= L THEN transcript[i] ELSE new[i - L]
    BY <1>3, <2>1, <2>2
  <2>4. transcript' \in Seq(CallEntries \cup ResultEntries)
    BY <2>1, <2>2
  <2>5. ASSUME NEW i \in 1..n
        PROVE  transcript'[L + i] = new[i]
    <3>1. /\ L + i \in 1..(L + n) /\ ~(L + i <= L)
          /\ (L + i) - L = i
      OBVIOUS
    <3> QED
      BY <2>3, <3>1
  <2>6. \A i \in 1..L : i \in 1..(L + n) /\ i <= L
    OBVIOUS
  <2> QED
    BY <2>3, <2>4, <2>5, <2>6
<1>5. /\ L \in Nat /\ DOMAIN transcript = 1..L
      /\ CallAt \subseteq 1..L /\ ResultAt \subseteq 1..L
  BY TranscriptParts
<1>6. \A i \in 1..n : /\ transcript'[L + i].kind = "call"
                      /\ transcript'[L + i].call = batch[i]
                      /\ transcript'[L + i].turn = turns + 1
  BY <1>2, <1>4 DEF Asks
<1>7. \A j \in DOMAIN transcript' :
         j \in 1..L \/ \E i \in 1..n : j = L + i
  <2> SUFFICES ASSUME NEW j \in 1..(L + n), j \notin 1..L
               PROVE  \E i \in 1..n : j = L + i
    BY <1>4
  <2>1. j - L \in 1..n /\ j = L + (j - L)
    BY <1>5
  <2> QED
    BY <2>1
<1>8. CallAt' = CallAt \cup {L + i : i \in 1..n}
  <2>1. \A i \in 1..n : L + i \in DOMAIN transcript'
    BY <1>4, <1>5
  <2>2. \A j : j \in CallAt' <=> j \in DOMAIN transcript' /\ transcript'[j].kind = "call"
    BY DEF CallAt
  <2>3. \A j \in 1..L : j \in CallAt' <=> j \in CallAt
    BY <1>4, <1>5, <2>2 DEF CallAt
  <2>4. \A i \in 1..n : L + i \in CallAt'
    BY <1>6, <2>1, <2>2
  <2>5. \A j \in CallAt' : j \in 1..L \/ \E i \in 1..n : j = L + i
    BY <1>7, <2>2
  <2> QED
    BY <1>5, <2>3, <2>4, <2>5
<1>9. ResultAt' = ResultAt
  BY <1>4, <1>5, <1>6, <1>7 DEF ResultAt
<1>10. \A i \in CallAt : IdAt(i)' = IdAt(i)
  BY <1>4, <1>5 DEF IdAt
<1>11. ASSUME NEW i \in CallAt
       PROVE  AnswersTo(i)' = AnswersTo(i) /\ Namesakes(i) \subseteq Namesakes(i)'
  <2>1. \A j \in ResultAt : transcript'[j] = transcript[j]
    BY <1>4, <1>5
  <2> QED
    BY <1>8, <1>9, <1>10, <2>1 DEF AnswersTo, Namesakes, IdAt
<1> QED
  BY <1>4, <1>6, <1>8, <1>9, <1>10, <1>11 DEF TurnAdded

\* The first call of the queue and the calls behind it.
LEMMA QueueParts ==
    ASSUME queue \in Seq(Calls), queue # << >>
    PROVE  /\ Head(queue) = queue[1] /\ Head(queue) \in Calls /\ 1 \in DOMAIN queue
           /\ Len(queue) \in Nat \ {0} /\ DOMAIN queue = 1..Len(queue)
           /\ Tail(queue) \in Seq(Calls) /\ Len(Tail(queue)) = Len(queue) - 1
           /\ \A n \in DOMAIN Tail(queue) : /\ Tail(queue)[n] = queue[n + 1]
                                            /\ n \in Nat /\ n + 1 \in DOMAIN queue /\ n + 1 # 1
<1>1. Len(queue) \in Nat \ {0} /\ DOMAIN queue = 1..Len(queue) /\ Head(queue) = queue[1]
  BY EmptySeq
<1>2. /\ Tail(queue) \in Seq(Calls) /\ Len(Tail(queue)) = Len(queue) - 1
      /\ \A n \in 1..Len(Tail(queue)) : Tail(queue)[n] = queue[n + 1]
  BY HeadTailProperties
<1>3. DOMAIN Tail(queue) = 1..Len(Tail(queue))
  BY <1>2
<1>4. \A n \in 1..Len(Tail(queue)) : n \in Nat /\ n + 1 \in 1..Len(queue) /\ n + 1 # 1
  BY <1>1, <1>2
<1>5. 1 \in DOMAIN queue /\ queue[1] \in Calls
  BY <1>1
<1> QED
  BY <1>1, <1>2, <1>3, <1>4, <1>5

(***************************************************************************)
(* What a step does to the calls and their places                          *)
(***************************************************************************)

PlacesOK == QueueOK /\ OnceOK /\ OrderOK

\* The permission service only learns: no request, answer, use or grant is lost.
PermKept ==
    /\ rule' = rule /\ consumed \subseteq consumed' /\ grants \subseteq grants'
    /\ \A k \in Keys : /\ Requested(k) => asked'[k] = asked[k]
                       /\ decision[k] # "none" => decision'[k] = decision[k]

Background == LoopTypeOK /\ PlacesOK /\ run' = run /\ PermKept

Answers(c, s) ==
    /\ queue # << >> /\ c = Head(queue) /\ s \in ResultStatuses
    /\ transcript' = Append(transcript, Result(c, s)) /\ queue' = Tail(queue)
    /\ parked' = parked
    /\ \/ at \in {"calls", "executing"} /\ at' = "calls" /\ effects' = effects /\ turns' = turns
       \/ at = "resuming" /\ at' = "resuming" /\ (effects' = effects \/ Execute(c))

Dispatches(c) ==
    /\ at = "calls" /\ at' = "executing"
    /\ queue # << >> /\ c = Head(queue) /\ Execute(c)
    /\ UNCHANGED <<transcript, queue, parked, turns>>

Parks(c) ==
    /\ at = "calls" /\ at' = "parked"
    /\ queue # << >> /\ c = Head(queue)
    /\ parked' = c.id /\ queue' = << >> /\ Requested(KeyOf(run, c))'
    /\ UNCHANGED <<transcript, effects>>

Ends ==
    /\ at' = "ended" /\ queue' = << >>
    /\ \/ transcript' = transcript
       \/ /\ queue # << >>
          /\ \E s \in ResultStatuses : transcript' = Append(transcript, Result(Head(queue), s))
    /\ UNCHANGED <<effects, parked>>

Returns ==
    /\ queue = << >> /\ queue' = << >> /\ at' = "provider"
    /\ at \in {"calls", "provider"} \/ (at = "resuming" /\ parked' = NoCallId)
    /\ UNCHANGED <<transcript, effects>>

Stays == UNCHANGED <<transcript, queue, at, parked, effects, turns>>

\* A request that is there stays there.
LEMMA RequestsKept ==
    ASSUME PermKept, run \in Runs, run' = run
    PROVE  \A i \in CallIds : Requested(<<run, i>>) => Requested(<<run, i>>)'
  BY DEF PermKept, Requested, Keys

\* Call i is answered, or stands behind a call that was asked for, after a step
\* that appends a result, if it did so before.
LEMMA BehindKept ==
    ASSUME LoopTypeOK, run' = run, PermKept, CallAt \subseteq CallAt',
           NEW i \in CallAt, Behind(i),
           \A h \in CallAt : /\ transcript'[h] = transcript[h]
                             /\ AnswersTo(h) \subseteq AnswersTo(h)',
           at \in {"parked", "resuming"} => at' \in {"parked", "resuming"} /\ parked' = parked
    PROVE  Behind(i)'
<1>1. PICK h \in CallAt :
         /\ h < i /\ transcript[h].turn = transcript[i].turn /\ Requested(<<run, IdAt(h)>>)
         /\ AnswersTo(h) # {} \/ (at \in {"parked", "resuming"} /\ IdAt(h) = parked)
  BY DEF Behind
<1>2. IdAt(h) \in CallIds /\ run \in Runs
  BY TranscriptParts DEF LoopTypeOK
<1>3. h \in CallAt' /\ IdAt(h)' = IdAt(h) /\ transcript'[h].turn = transcript'[i].turn
  BY <1>1 DEF IdAt
<1>4. Requested(<<run, IdAt(h)>>)'
  <2>1. Requested(<<run, IdAt(h)>>) /\ <<run, IdAt(h)>> \in Keys
    BY <1>1, <1>2 DEF Keys
  <2>2. asked'[<<run, IdAt(h)>>] # NoCall
    BY <2>1 DEF PermKept, Requested
  <2> QED
    BY <1>3, <2>2 DEF Requested
<1>5. AnswersTo(h)' # {} \/ (at' \in {"parked", "resuming"} /\ IdAt(h)' = parked')
  BY <1>1, <1>3
<1> QED
  BY <1>1, <1>3, <1>4, <1>5 DEF Behind

\* A result for the first call of the queue.
LEMMA AnswersPlaces ==
    ASSUME Background, NEW c, NEW s, Answers(c, s)
    PROVE  PlacesOK'
<1> DEFINE L == Len(transcript) + 1
<1>1. /\ LoopTypeOK /\ QueueOK /\ OnceOK /\ OrderOK /\ PermKept /\ run' = run /\ run \in Runs
      /\ queue \in Seq(Calls) /\ queue # << >> /\ s \in ResultStatuses
  BY DEF Background, PlacesOK, Answers, LoopTypeOK, TypeOK
<1>2. /\ c = queue[1] /\ c \in Calls /\ c.id \in CallIds
      /\ 1 \in DOMAIN queue /\ DOMAIN queue = 1..Len(queue) /\ Len(queue) \in Nat \ {0}
      /\ Len(queue') = Len(queue) - 1
      /\ queue' = Tail(queue) /\ DOMAIN queue' = 1..Len(queue')
      /\ \A n \in DOMAIN queue' : /\ queue'[n] = queue[n + 1]
                                  /\ n \in Nat /\ n + 1 \in DOMAIN queue /\ n + 1 # 1
  BY <1>1, QueueParts DEF Answers, Calls
<1>3. /\ Len(transcript) \in Nat /\ Len(transcript') = L
      /\ CallAt' = CallAt /\ ResultAt' = ResultAt \cup {L} /\ transcript'[L].id = c.id
      /\ CallAt \subseteq 1..Len(transcript) /\ ResultAt \subseteq 1..Len(transcript)
      /\ \A i \in CallAt : /\ transcript'[i] = transcript[i] /\ IdAt(i)' = IdAt(i)
                           /\ transcript[i].call \in Calls /\ IdAt(i) \in CallIds
                           /\ Namesakes(i)' = Namesakes(i)
                           /\ AnswersTo(i)' = IF IdAt(i) = c.id THEN AnswersTo(i) \cup {L}
                                                                ELSE AnswersTo(i)
      /\ \A j \in ResultAt : transcript'[j] = transcript[j]
  BY <1>1, <1>2, ResultAppended, TranscriptParts DEF Answers
<1>4. parked' = parked /\ at \in {"calls", "executing", "resuming"} /\ at' \in {"calls", "resuming"}
      /\ (at = "resuming" <=> at' = "resuming")
  BY DEF Answers
<1>5. effects \in [Calls -> Nat]
  BY <1>1 DEF LoopTypeOK, TypeOK
<1>6. /\ \A d \in Calls : d # c => effects'[d] = effects[d]
      /\ effects'[c] = effects[c] \/ (at = "resuming" /\ effects'[c] = effects[c] + 1)
  BY <1>2, <1>5 DEF Answers, Execute
<1>7. PICK e \in CallAt : transcript[e].call = c
  BY <1>1, <1>2 DEF QueueOK
<1>8. QueueOK'
  <2>1. \A j \in ResultAt' : \E i \in CallAt' : i < j /\ IdAt(i)' = transcript'[j].id
    <3>1. \A j \in ResultAt : \E i \in CallAt : i < j /\ IdAt(i) = transcript[j].id
      BY <1>1 DEF QueueOK
    <3>2. e < L /\ IdAt(e)' = transcript'[L].id
      BY <1>3, <1>7 DEF IdAt
    <3> QED
      BY <1>3, <3>1, <3>2
  <2>2. \A n \in DOMAIN queue' : \E i \in CallAt' : transcript'[i].call = queue'[n]
    BY <1>1, <1>2, <1>3 DEF QueueOK
  <2>3. \A d \in Calls : effects'[d] > 0 => \E i \in CallAt' : transcript'[i].call = d
    <3>1. ASSUME NEW d \in Calls, d # c, effects'[d] > 0
          PROVE  \E i \in CallAt : transcript[i].call = d
      <4>1. effects[d] > 0
        BY <1>6, <3>1
      <4> QED
        BY <1>1, <4>1 DEF QueueOK
    <3> QED
      BY <1>3, <1>7, <3>1
  <2>4. at' = "resuming" => \A n \in DOMAIN queue' : queue'[n].id = parked'
    BY <1>1, <1>2, <1>4 DEF QueueOK
  <2>5. at' = "resuming" => Requested(<<run, parked>>)' /\ \E i \in CallAt' : IdAt(i)' = parked'
    <3>1. at = "resuming" => parked \in CallIds /\ Requested(<<run, parked>>)
                             /\ \E i \in CallAt : IdAt(i) = parked
      BY <1>1 DEF QueueOK, LoopTypeOK
    <3>2. at = "resuming" => asked'[<<run, parked>>] # NoCall
      BY <1>1, <3>1, RequestsKept DEF PermKept, Requested, Keys
    <3> QED
      BY <1>1, <1>3, <1>4, <3>1, <3>2 DEF Requested
  <2> QED
    BY <1>4, <2>1, <2>2, <2>3, <2>4, <2>5 DEF QueueOK, IdAt
<1>9. OnceOK'
  <2> SUFFICES ASSUME NEW i \in CallAt, ~Recurring(i)
               PROVE  Once(i)'
    BY <1>3 DEF OnceOK, Recurring
  <2>1. Once(i)
    BY <1>1 DEF OnceOK
  <2>2. AnswersTo(i) \subseteq ResultAt /\ L \notin AnswersTo(i)
    BY <1>3 DEF AnswersTo
  <2>3. Owed(i)' <=> \E n \in DOMAIN queue' : queue'[n].id = IdAt(i)
    BY <1>3, <1>4 DEF Owed
  <2>4. \A m, n \in DOMAIN queue' : queue'[m].id = IdAt(i) /\ queue'[n].id = IdAt(i) => m = n
    BY <1>2, <2>1 DEF Once
  <2>5. CASE IdAt(i) = c.id
    <3>1. Owed(i) /\ AnswersTo(i) = {}
      BY <1>2, <2>1, <2>5 DEF Owed, Once
    <3>2. AnswersTo(i)' = {L}
      BY <1>3, <2>5, <3>1
    <3>3. Cardinality(AnswersTo(i)') = 1
      BY <3>2, FS_Singleton
    <3>4. ~Owed(i)'
      BY <1>2, <2>1, <2>3, <2>5 DEF Once
    <3>5. transcript[i].call = c
      BY <1>7, <2>5 DEF Recurring, Namesakes, IdAt
    <3>6. effects'[c] <= 1
      BY <1>2, <1>5, <1>6, <2>1, <3>1, <3>5 DEF Once
    <3> QED
      BY <1>3, <2>4, <3>3, <3>4, <3>5, <3>6 DEF Once
  <2>6. CASE IdAt(i) # c.id
    <3>1. AnswersTo(i)' = AnswersTo(i) /\ IdAt(i)' = IdAt(i) /\ transcript'[i] = transcript[i]
      BY <1>3, <2>6
    <3>2. transcript[i].call # c /\ effects'[transcript[i].call] = effects[transcript[i].call]
      BY <1>3, <1>6, <2>6 DEF IdAt
    <3>3. Owed(i)' => Owed(i)
      BY <1>2, <2>3 DEF Owed
    <3>4. Owed(i)' => effects[transcript[i].call] = 0
      BY <1>1, <2>1, <2>6, <3>3 DEF Once, Answers
    <3> QED
      BY <2>1, <2>4, <3>1, <3>2, <3>3, <3>4 DEF Once
  <2> QED
    BY <2>5, <2>6
<1>10. OrderOK'
  <2>1. \A i \in CallAt : AnswersTo(i) # {} => AnswersTo(i)' # {}
    BY <1>3
  <2>2. \A i \in CallAt : Behind(i) => Behind(i)'
    BY <1>1, <1>3, <1>4, BehindKept
  <2>3. ASSUME at' = "calls"
        PROVE  \E b \in 0..Len(transcript') :
                  /\ QueueFrom(b)'
                  /\ \A i \in CallAt' : \/ AnswersTo(i)' # {} \/ Behind(i)'
                                        \/ \E n \in DOMAIN queue' : i = b + n
    <3>1. at \in {"calls", "executing"} /\ turns' = turns
      BY <2>3 DEF Answers
    <3>2. PICK b \in 0..Len(transcript) :
             /\ QueueFrom(b)
             /\ \A i \in CallAt : \/ AnswersTo(i) # {} \/ Behind(i)
                                  \/ \E n \in DOMAIN queue : i = b + n
      BY <1>1, <3>1 DEF OrderOK
    <3>3. b \in Nat /\ b + 1 \in 0..Len(transcript')
      BY <1>3, <3>2
    <3>4. \A n \in DOMAIN queue' : (b + 1) + n = b + (n + 1)
      BY <1>2, <3>3
    <3>5. QueueFrom(b + 1)'
      BY <1>2, <1>3, <3>1, <3>2, <3>4 DEF QueueFrom
    <3>6. ASSUME NEW i \in CallAt, NEW n \in DOMAIN queue, i = b + n
          PROVE  AnswersTo(i)' # {} \/ \E m \in DOMAIN queue' : i = (b + 1) + m
      <4>1. CASE n = 1
        <5>1. transcript[i].call = c
          BY <1>2, <3>2, <3>6, <4>1 DEF QueueFrom
        <5> QED
          BY <1>3, <5>1 DEF IdAt
      <4>2. CASE n # 1
        <5>1. n - 1 \in DOMAIN queue' /\ i = (b + 1) + (n - 1)
          BY <1>2, <3>3, <3>6, <4>2
        <5> QED
          BY <5>1
      <4> QED
        BY <4>1, <4>2
    <3>7. \A i \in CallAt' : \/ AnswersTo(i)' # {} \/ Behind(i)'
                             \/ \E n \in DOMAIN queue' : i = (b + 1) + n
      BY <1>3, <2>1, <2>2, <3>2, <3>6
    <3> QED
      BY <3>3, <3>5, <3>7
  <2>4. at' = "resuming" => \A i \in CallAt' : AnswersTo(i)' # {} \/ Behind(i)' \/ IdAt(i)' = parked'
    BY <1>1, <1>3, <1>4, <2>1, <2>2 DEF OrderOK
  <2>5. at' = "resuming" => \A i \in CallAt' : IdAt(i)' = parked' => AnswersTo(i)' # {}
    <3>1. at = "resuming" => c.id = parked
      BY <1>1, <1>2 DEF QueueOK
    <3> QED
      BY <1>3, <1>4, <3>1
  <2> QED
    BY <1>4, <2>3, <2>4, <2>5 DEF OrderOK
<1> QED
  BY <1>8, <1>9, <1>10 DEF PlacesOK

\* The first call of the queue is handed to its executor.
LEMMA DispatchesPlaces ==
    ASSUME Background, NEW c, Dispatches(c)
    PROVE  PlacesOK'
<1>1. /\ LoopTypeOK /\ QueueOK /\ OnceOK /\ OrderOK /\ PermKept /\ run' = run /\ run \in Runs
      /\ queue \in Seq(Calls) /\ queue # << >> /\ queue' = queue /\ at = "calls" /\ at' = "executing"
      /\ transcript' = transcript /\ turns' = turns
  BY DEF Background, PlacesOK, Dispatches, LoopTypeOK, TypeOK
<1>2. c = queue[1] /\ c \in Calls /\ 1 \in DOMAIN queue /\ Head(queue') = c
  BY <1>1, QueueParts DEF Dispatches
<1>3. effects \in [Calls -> Nat]
  BY <1>1 DEF LoopTypeOK, TypeOK
<1>4. /\ \A d \in Calls : d # c => effects'[d] = effects[d]
      /\ effects'[c] = effects[c] + 1
  BY <1>2, <1>3 DEF Dispatches, Execute
<1>5. /\ CallAt' = CallAt /\ ResultAt' = ResultAt
      /\ \A i \in CallAt : /\ IdAt(i)' = IdAt(i) /\ AnswersTo(i)' = AnswersTo(i)
                           /\ Namesakes(i)' = Namesakes(i) /\ transcript[i].call \in Calls
  BY <1>1, TranscriptParts DEF CallAt, ResultAt, IdAt, AnswersTo, Namesakes
<1>6. PICK e \in CallAt : transcript[e].call = c
  BY <1>1, <1>2 DEF QueueOK
<1>7. QueueOK'
  <2>1. \A d \in Calls : effects'[d] > 0 => \E i \in CallAt' : transcript'[i].call = d
    <3>1. ASSUME NEW d \in Calls, d # c, effects'[d] > 0
          PROVE  \E i \in CallAt : transcript[i].call = d
      <4>1. effects[d] > 0
        BY <1>4, <3>1
      <4> QED
        BY <1>1, <4>1 DEF QueueOK
    <3> QED
      BY <1>1, <1>5, <1>6, <3>1
  <2> QED
    BY <1>1, <1>5, <2>1 DEF QueueOK, IdAt
<1>8. OnceOK'
  <2> SUFFICES ASSUME NEW i \in CallAt, ~Recurring(i)
               PROVE  Once(i)'
    BY <1>5 DEF OnceOK, Recurring
  <2>1. Once(i)
    BY <1>1 DEF OnceOK
  <2>2. Owed(i)' <=> Owed(i)
    BY <1>1, <1>5 DEF Owed
  <2>3. CASE IdAt(i) = c.id
    <3>1. transcript[i].call = c
      BY <1>6, <2>3 DEF Recurring, Namesakes, IdAt
    <3>2. Owed(i) /\ effects[c] = 0
      BY <1>1, <1>2, <2>1, <2>3, <3>1 DEF Once, Owed
    <3>3. effects'[transcript[i].call] = 1 /\ at' = "executing" /\ Head(queue').id = IdAt(i)
      BY <1>1, <1>2, <1>4, <2>3, <3>1, <3>2
    <3> QED
      BY <1>1, <1>5, <2>1, <2>2, <3>3 DEF Once
  <2>4. CASE IdAt(i) # c.id
    <3>1. effects'[transcript[i].call] = effects[transcript[i].call]
      BY <1>4, <1>5, <2>4 DEF IdAt
    <3>2. Owed(i) => effects[transcript[i].call] = 0
      BY <1>1, <2>1 DEF Once
    <3> QED
      BY <1>1, <1>5, <2>1, <2>2, <3>1, <3>2 DEF Once
  <2> QED
    BY <2>3, <2>4
<1>9. OrderOK'
  <2>1. \A i \in CallAt : Behind(i) => Behind(i)'
    BY <1>1, <1>5, BehindKept
  <2>2. PICK b \in 0..Len(transcript) :
           /\ QueueFrom(b)
           /\ \A i \in CallAt : \/ AnswersTo(i) # {} \/ Behind(i)
                                \/ \E n \in DOMAIN queue : i = b + n
    BY <1>1 DEF OrderOK
  <2>3. QueueFrom(b)'
    BY <1>1, <1>5, <2>2 DEF QueueFrom
  <2> QED
    BY <1>1, <1>5, <2>1, <2>2, <2>3 DEF OrderOK
<1> QED
  BY <1>7, <1>8, <1>9 DEF PlacesOK

\* The loop parks on the first call of the queue and forgets those behind it.
LEMMA ParksPlaces ==
    ASSUME Background, NEW c, Parks(c)
    PROVE  PlacesOK'
<1>1. /\ LoopTypeOK /\ QueueOK /\ OnceOK /\ OrderOK /\ PermKept /\ run' = run /\ run \in Runs
      /\ queue \in Seq(Calls) /\ queue # << >> /\ queue' = << >>
      /\ at = "calls" /\ at' = "parked" /\ parked' = c.id
      /\ transcript' = transcript /\ effects' = effects /\ Requested(<<run, c.id>>)'
  BY DEF Background, PlacesOK, Parks, LoopTypeOK, TypeOK, KeyOf
<1>2. c = queue[1] /\ c \in Calls /\ c.id \in CallIds /\ 1 \in DOMAIN queue /\ DOMAIN queue = 1..Len(queue)
  BY <1>1, QueueParts DEF Parks, Calls
<1>3. /\ CallAt' = CallAt /\ ResultAt' = ResultAt /\ CallAt \subseteq Nat
      /\ \A i \in CallAt : /\ IdAt(i)' = IdAt(i) /\ AnswersTo(i)' = AnswersTo(i)
                           /\ Namesakes(i)' = Namesakes(i) /\ transcript[i].call \in Calls
  BY <1>1, TranscriptParts DEF CallAt, ResultAt, IdAt, AnswersTo, Namesakes
<1>4. PICK e \in CallAt : transcript[e].call = c
  BY <1>1, <1>2 DEF QueueOK
<1>5. DOMAIN queue' = {}
  BY <1>1
<1>6. QueueOK'
  <2>1. \E i \in CallAt' : IdAt(i)' = parked'
    BY <1>1, <1>3, <1>4 DEF IdAt
  <2>2. Requested(<<run, parked>>)'
    BY <1>1 DEF Requested
  <2> QED
    BY <1>1, <1>3, <1>5, <2>1, <2>2 DEF QueueOK, IdAt
<1>7. OnceOK'
  <2> SUFFICES ASSUME NEW i \in CallAt, ~Recurring(i)
               PROVE  Once(i)'
    BY <1>3 DEF OnceOK, Recurring
  <2>1. Once(i)
    BY <1>1 DEF OnceOK
  <2>2. Owed(i)' => Owed(i)
    BY <1>1, <1>2, <1>3, <1>5 DEF Owed
  <2>3. Owed(i) => effects[transcript[i].call] = 0
    BY <1>1, <2>1 DEF Once
  <2> QED
    BY <1>1, <1>3, <1>5, <2>1, <2>2, <2>3 DEF Once
<1>8. OrderOK'
  <2>1. \A i \in CallAt : Behind(i) => Behind(i)'
    BY <1>1, <1>3, BehindKept
  <2>2. PICK b \in 0..Len(transcript) :
           /\ QueueFrom(b)
           /\ \A i \in CallAt : \/ AnswersTo(i) # {} \/ Behind(i)
                                \/ \E n \in DOMAIN queue : i = b + n
    BY <1>1 DEF OrderOK
  <2>3. /\ b \in Nat /\ b + 1 \in CallAt /\ IdAt(b + 1) = c.id
        /\ \A n \in DOMAIN queue : transcript[b + n].turn = transcript[b + 1].turn
    <3>1. Len(transcript) \in Nat
      BY <1>1, TranscriptParts
    <3> QED
      BY <1>1, <1>2, <2>2, <3>1 DEF QueueFrom, IdAt
  <2>4. ASSUME NEW i \in CallAt, NEW n \in DOMAIN queue, i = b + n
        PROVE  Behind(i)' \/ IdAt(i)' = parked'
    <3>1. CASE n = 1
      BY <1>1, <1>3, <2>3, <2>4, <3>1
    <3>2. CASE n # 1
      <4>1. b + 1 < i
        BY <1>2, <2>3, <2>4, <3>2
      <4>2. transcript'[b + 1].turn = transcript'[i].turn
        BY <1>1, <2>3, <2>4
      <4>3. b + 1 \in CallAt' /\ IdAt(b + 1)' = parked'
        BY <1>1, <1>3, <2>3
      <4>4. Requested(<<run, IdAt(b + 1)>>)'
        BY <1>1, <4>3 DEF Requested
      <4> QED
        BY <1>1, <4>1, <4>2, <4>3, <4>4 DEF Behind
    <3> QED
      BY <3>1, <3>2
  <2>5. \A i \in CallAt' : AnswersTo(i)' # {} \/ Behind(i)' \/ IdAt(i)' = parked'
    BY <1>3, <2>1, <2>2, <2>4
  <2> QED
    BY <1>1, <2>5 DEF OrderOK
<1> QED
  BY <1>6, <1>7, <1>8 DEF PlacesOK

\* The loop returns, perhaps with a last result; nothing is owed any more.
LEMMA EndsPlaces ==
    ASSUME Background, Ends
    PROVE  PlacesOK'
<1> DEFINE L == Len(transcript) + 1
<1>1. /\ LoopTypeOK /\ QueueOK /\ OnceOK /\ queue \in Seq(Calls)
      /\ at' = "ended" /\ queue' = << >> /\ effects' = effects /\ DOMAIN queue' = {}
  BY DEF Background, PlacesOK, Ends, LoopTypeOK, TypeOK
<1>2. CASE transcript' = transcript
  <2>1. /\ CallAt' = CallAt /\ ResultAt' = ResultAt
        /\ \A i \in CallAt : /\ IdAt(i)' = IdAt(i) /\ AnswersTo(i)' = AnswersTo(i)
                             /\ Namesakes(i)' = Namesakes(i)
    BY <1>2 DEF CallAt, ResultAt, IdAt, AnswersTo, Namesakes
  <2>2. QueueOK'
    BY <1>1, <1>2, <2>1 DEF QueueOK, IdAt
  <2>3. OnceOK'
    BY <1>1, <1>2, <2>1 DEF OnceOK, Recurring, Once, Owed
  <2> QED
    BY <1>1, <2>2, <2>3 DEF PlacesOK, OrderOK
<1>3. ASSUME queue # << >>, NEW s \in ResultStatuses,
             transcript' = Append(transcript, Result(Head(queue), s))
      PROVE  PlacesOK'
  <2> DEFINE c == Head(queue)
  <2>1. c = queue[1] /\ c \in Calls /\ 1 \in DOMAIN queue
    BY <1>1, <1>3, QueueParts
  <2> HIDE DEF c
  <2>2. transcript' = Append(transcript, Result(c, s))
    BY <1>3 DEF c
  <2>3. /\ Len(transcript) \in Nat
        /\ CallAt' = CallAt /\ ResultAt' = ResultAt \cup {L} /\ transcript'[L].id = c.id
        /\ CallAt \subseteq 1..Len(transcript) /\ ResultAt \subseteq 1..Len(transcript)
        /\ \A i \in CallAt : /\ transcript'[i] = transcript[i] /\ IdAt(i)' = IdAt(i)
                             /\ Namesakes(i)' = Namesakes(i)
                             /\ AnswersTo(i)' = IF IdAt(i) = c.id THEN AnswersTo(i) \cup {L}
                                                                  ELSE AnswersTo(i)
        /\ \A j \in ResultAt : transcript'[j] = transcript[j]
    BY <1>1, <2>1, <2>2, ResultAppended, TranscriptParts
  <2>4. PICK e \in CallAt : transcript[e].call = c
    BY <1>1, <2>1 DEF QueueOK
  <2>5. QueueOK'
    <3>1. \A j \in ResultAt' : \E i \in CallAt' : i < j /\ IdAt(i)' = transcript'[j].id
      <4>1. \A j \in ResultAt : \E i \in CallAt : i < j /\ IdAt(i) = transcript[j].id
        BY <1>1 DEF QueueOK
      <4>2. e < L /\ IdAt(e)' = transcript'[L].id
        BY <2>3, <2>4 DEF IdAt
      <4> QED
        BY <2>3, <4>1, <4>2
    <3>2. \A d \in Calls : effects'[d] > 0 => \E i \in CallAt' : transcript'[i].call = d
      BY <1>1, <2>3 DEF QueueOK
    <3> QED
      BY <1>1, <3>1, <3>2 DEF QueueOK, IdAt
  <2>6. OnceOK'
    <3> SUFFICES ASSUME NEW i \in CallAt, ~Recurring(i)
                 PROVE  Once(i)'
      BY <2>3 DEF OnceOK, Recurring
    <3>1. Once(i) /\ ~Owed(i)'
      BY <1>1 DEF OnceOK, Owed
    <3>2. Cardinality(AnswersTo(i)') <= 1
      <4>1. CASE IdAt(i) = c.id
        <5>1. AnswersTo(i)' = {L}
          BY <2>1, <2>3, <3>1, <4>1 DEF Once, Owed
        <5>2. Cardinality(AnswersTo(i)') = 1
          BY <5>1, FS_Singleton
        <5> QED
          BY <5>2
      <4>2. CASE IdAt(i) # c.id
        BY <2>3, <3>1, <4>2 DEF Once
      <4> QED
        BY <4>1, <4>2
    <3>3. effects'[transcript'[i].call] <= 1
      BY <1>1, <2>3, <3>1 DEF Once
    <3> QED
      BY <1>1, <3>1, <3>2, <3>3 DEF Once
  <2> QED
    BY <1>1, <2>5, <2>6 DEF PlacesOK, OrderOK
<1> QED
  BY <1>2, <1>3 DEF Ends

\* Back to the head of the while loop, with an empty queue.
LEMMA ReturnsPlaces ==
    ASSUME Background, Returns
    PROVE  PlacesOK'
<1>1. /\ LoopTypeOK /\ QueueOK /\ OnceOK /\ OrderOK /\ PermKept /\ run' = run /\ run \in Runs
      /\ queue = << >> /\ queue' = << >> /\ at' = "provider"
      /\ transcript' = transcript /\ effects' = effects /\ DOMAIN queue = {} /\ DOMAIN queue' = {}
  BY DEF Background, PlacesOK, Returns, LoopTypeOK, TypeOK
<1>2. /\ CallAt' = CallAt /\ ResultAt' = ResultAt
      /\ \A i \in CallAt : /\ IdAt(i)' = IdAt(i) /\ AnswersTo(i)' = AnswersTo(i)
                           /\ Namesakes(i)' = Namesakes(i) /\ IdAt(i) \in CallIds
  BY <1>1, TranscriptParts DEF CallAt, ResultAt, IdAt, AnswersTo, Namesakes
<1>3. QueueOK'
  BY <1>1, <1>2 DEF QueueOK, IdAt
<1>4. OnceOK'
  BY <1>1, <1>2 DEF OnceOK, Recurring, Once, Owed
<1>5. OrderOK'
  <2>1. ASSUME NEW i \in CallAt, AnswersTo(i) = {}
        PROVE  Behind(i)
    BY <1>1, <2>1 DEF OrderOK, Returns
  <2>2. ASSUME NEW i \in CallAt, Behind(i)
        PROVE  Behind(i)'
    <3>1. PICK h \in CallAt :
             /\ h < i /\ transcript[h].turn = transcript[i].turn /\ Requested(<<run, IdAt(h)>>)
             /\ AnswersTo(h) # {} \/ (at = "resuming" /\ IdAt(h) = parked)
      BY <1>1, <2>2 DEF Behind, Returns
    <3>2. AnswersTo(h) # {}
      BY <1>1, <3>1 DEF OrderOK
    <3>3. Requested(<<run, IdAt(h)>>)' /\ run' = run /\ IdAt(h)' = IdAt(h)
      BY <1>1, <1>2, <3>1, RequestsKept
    <3>4. Requested(<<run, IdAt(h)>>)' => asked'[<<run, IdAt(h)>>] # NoCall
      BY <3>3 DEF Requested
    <3> QED
      BY <1>1, <1>2, <3>1, <3>2, <3>3, <3>4 DEF Behind, Requested
  <2> QED
    BY <1>1, <1>2, <2>1, <2>2 DEF OrderOK
<1> QED
  BY <1>3, <1>4, <1>5 DEF PlacesOK

\* A step that leaves the transcript and its places alone.
LEMMA StaysPlaces ==
    ASSUME Background, Stays
    PROVE  PlacesOK'
<1>1. /\ LoopTypeOK /\ QueueOK /\ OnceOK /\ OrderOK /\ PermKept /\ run' = run /\ run \in Runs
      /\ transcript' = transcript /\ queue' = queue /\ at' = at /\ parked' = parked
      /\ effects' = effects /\ turns' = turns
  BY DEF Background, PlacesOK, Stays, LoopTypeOK
<1>2. /\ CallAt' = CallAt /\ ResultAt' = ResultAt
      /\ \A i \in CallAt : /\ IdAt(i)' = IdAt(i) /\ AnswersTo(i)' = AnswersTo(i)
                           /\ Namesakes(i)' = Namesakes(i) /\ IdAt(i) \in CallIds
  BY <1>1, TranscriptParts DEF CallAt, ResultAt, IdAt, AnswersTo, Namesakes
<1>3. QueueOK'
  <2>1. at \in {"parked", "resuming"} => Requested(<<run, parked>>)'
    <3>1. at \in {"parked", "resuming"} => Requested(<<run, parked>>) /\ parked \in CallIds
      BY <1>1 DEF QueueOK, LoopTypeOK
    <3> QED
      BY <1>1, <3>1 DEF PermKept, Requested, Keys
  <2> QED
    BY <1>1, <1>2, <2>1 DEF QueueOK, IdAt
<1>4. OnceOK'
  BY <1>1, <1>2 DEF OnceOK, Recurring, Once, Owed
<1>5. OrderOK'
  <2>1. \A i \in CallAt : Behind(i) => Behind(i)'
    BY <1>1, <1>2, BehindKept
  <2>2. \A b \in 0..Len(transcript) : QueueFrom(b) => QueueFrom(b)'
    BY <1>1, <1>2 DEF QueueFrom
  <2>3. at \in {"calls", "executing"} =>
           \E b \in 0..Len(transcript') :
              /\ QueueFrom(b)'
              /\ \A i \in CallAt' : \/ AnswersTo(i)' # {} \/ Behind(i)'
                                    \/ \E n \in DOMAIN queue' : i = b + n
    BY <1>1, <1>2, <2>1, <2>2 DEF OrderOK
  <2> QED
    BY <1>1, <1>2, <2>1, <2>3 DEF OrderOK
<1> QED
  BY <1>3, <1>4, <1>5 DEF PlacesOK

\* A provider turn that asks for calls: only they are owed an answer.
LEMMA CallTurnPlaces ==
    ASSUME Background, CallTurn
    PROVE  PlacesOK'
<1>0. PICK L \in Nat : L = Len(transcript)
  BY TranscriptParts DEF Background
<1>1. /\ LoopTypeOK /\ QueueOK /\ OnceOK /\ OrderOK /\ PermKept /\ run' = run /\ run \in Runs
      /\ at = "provider" /\ at' = "calls" /\ turns' = turns + 1 /\ parked' = parked
      /\ effects' = effects
  BY DEF Background, PlacesOK, CallTurn, LoopTypeOK
<1>2. PICK batch \in Batches :
         /\ transcript' = transcript \o [i \in DOMAIN batch |-> Asks(batch[i])]
         /\ queue' = batch
  BY DEF CallTurn
<1>3. PICK n \in 1..MaxBatch : batch \in [1..n -> Calls]
  BY DEF Batches
<1>4. \A k, m \in 1..n : batch[k].id = batch[m].id => k = m
  BY <1>2, <1>3 DEF Batches, IsInjective
<1>5. n \in Nat /\ L \in Nat /\ queue' = batch /\ DOMAIN queue' = 1..n
  BY <1>1, <1>2, <1>3, AgentLoopAssumption
<1>6. /\ Len(transcript') = L + n
      /\ CallAt' = CallAt \cup {L + i : i \in 1..n} /\ ResultAt' = ResultAt
      /\ CallAt \subseteq 1..L /\ ResultAt \subseteq 1..L
      /\ \A i \in 1..L : transcript'[i] = transcript[i]
      /\ \A i \in 1..n : /\ transcript'[L + i].call = batch[i] /\ IdAt(L + i)' = batch[i].id
                         /\ transcript'[L + i].turn = turns'
      /\ \A i \in CallAt : /\ transcript'[i] = transcript[i] /\ IdAt(i)' = IdAt(i)
                           /\ AnswersTo(i)' = AnswersTo(i) /\ Namesakes(i) \subseteq Namesakes(i)'
      /\ \A j \in ResultAt : transcript'[j] = transcript[j]
  <2>1. /\ Len(transcript') = L + n
        /\ CallAt' = CallAt \cup {L + i : i \in 1..n} /\ ResultAt' = ResultAt
        /\ \A i \in 1..L : transcript'[i] = transcript[i]
        /\ \A i \in 1..n : /\ transcript'[L + i].call = batch[i]
                           /\ transcript'[L + i].turn = turns + 1
        /\ \A i \in CallAt : /\ IdAt(i)' = IdAt(i) /\ AnswersTo(i)' = AnswersTo(i)
                             /\ Namesakes(i) \subseteq Namesakes(i)'
    <3>1. /\ LoopTypeOK /\ L \in Nat /\ L = Len(transcript) /\ n \in Nat
          /\ batch \in [1..n -> Calls]
          /\ transcript' = transcript \o [i \in DOMAIN batch |-> Asks(batch[i])]
      BY <1>0, <1>1, <1>2, <1>3, <1>5
    <3>2. TurnAdded(L, n, batch)
      BY ONLY <3>1, TurnAppended
    <3> QED
      BY ONLY <3>2 DEF TurnAdded
  <2>2. CallAt \subseteq 1..L /\ ResultAt \subseteq 1..L
    BY <1>0, <1>1, TranscriptParts
  <2>3. \A i \in 1..n : IdAt(L + i)' = batch[i].id
    BY <2>1 DEF IdAt
  <2>4. \A i \in CallAt : transcript'[i] = transcript[i]
    BY <2>1, <2>2
  <2>5. \A j \in ResultAt : transcript'[j] = transcript[j]
    BY <2>1, <2>2
  <2>6. \A i \in 1..n : /\ transcript'[L + i].call = batch[i] /\ IdAt(L + i)' = batch[i].id
                       /\ transcript'[L + i].turn = turns'
    BY ONLY <1>1, <2>1, <2>3
  <2>7. \A i \in CallAt : /\ transcript'[i] = transcript[i] /\ IdAt(i)' = IdAt(i)
                          /\ AnswersTo(i)' = AnswersTo(i) /\ Namesakes(i) \subseteq Namesakes(i)'
    BY ONLY <2>1, <2>4
  <2> QED
    BY ONLY <2>1, <2>2, <2>5, <2>6, <2>7
<1>7. QueueOK'
  <2>1. \A j \in ResultAt' : \E i \in CallAt' : i < j /\ IdAt(i)' = transcript'[j].id
    BY <1>1, <1>6 DEF QueueOK
  <2>2. \A m \in DOMAIN queue' : \E i \in CallAt' : transcript'[i].call = queue'[m]
    BY <1>5, <1>6
  <2>3. ASSUME NEW d \in Calls, effects'[d] > 0
        PROVE  \E i \in CallAt' : transcript'[i].call = d
    <3>1. PICK i \in CallAt : transcript[i].call = d
      BY <1>1, <2>3 DEF QueueOK
    <3>2. i \in CallAt' /\ transcript'[i] = transcript[i]
      BY ONLY <1>6, <3>1
    <3> QED
      BY ONLY <3>1, <3>2
  <2> QED
    BY <1>1, <2>1, <2>2, <2>3 DEF QueueOK, IdAt
<1>8. OnceOK'
  <2>1. ASSUME NEW i \in CallAt, Namesakes(i)' = {i}
        PROVE  Once(i)'
    <3>1. Namesakes(i) = {i}
      BY <1>6, <2>1 DEF Namesakes
    <3>2. Once(i)
      BY <1>1, <3>1 DEF OnceOK, Recurring
    <3>3. \A m \in 1..n : batch[m].id # IdAt(i)
      <4> SUFFICES ASSUME NEW m \in 1..n, batch[m].id = IdAt(i) PROVE FALSE
        OBVIOUS
      <4>1. L + m \in Namesakes(i)'
        BY <1>6 DEF Namesakes, IdAt
      <4> QED
        BY <1>5, <1>6, <2>1, <4>1
    <3>4. ~Owed(i)' /\ \A m \in DOMAIN queue' : queue'[m].id # IdAt(i)'
      BY <1>1, <1>5, <1>6, <3>3 DEF Owed
    <3>5. transcript'[i] = transcript[i] /\ AnswersTo(i)' = AnswersTo(i) /\ IdAt(i)' = IdAt(i)
      BY <1>6
    <3> QED
      BY <1>1, <3>2, <3>4, <3>5 DEF Once
  <2>2. ASSUME NEW m \in 1..n, NEW p, p = L + m, Namesakes(p)' = {p}
        PROVE  Once(p)'
    <3>0. IdAt(p)' = batch[m].id /\ transcript'[p].call = batch[m] /\ p \in CallAt' /\ p \notin CallAt
      BY <1>5, <1>6, <2>2
    <3>1. \A i \in CallAt : IdAt(i) # batch[m].id
      <4> SUFFICES ASSUME NEW i \in CallAt, IdAt(i) = batch[m].id PROVE FALSE
        OBVIOUS
      <4>1. i \in Namesakes(p)'
        BY <1>6, <3>0 DEF Namesakes, IdAt
      <4> QED
        BY <2>2, <3>0, <4>1
    <3>2. \A j \in ResultAt : transcript[j].id # batch[m].id
      BY <1>1, <3>1 DEF QueueOK
    <3>3. AnswersTo(p)' = {}
      <4>1. \A j \in ResultAt' : transcript'[j].id # batch[m].id
        BY <1>6, <3>2
      <4>2. \A j \in AnswersTo(p)' : j \in ResultAt' /\ transcript'[j].id = IdAt(p)'
        BY DEF AnswersTo, IdAt
      <4> QED
        BY <3>0, <4>1, <4>2
    <3>4. Cardinality(AnswersTo(p)') = 0
      BY <3>3, FS_EmptySet
    <3>5. effects'[transcript'[p].call] = 0
      <4>1. batch[m] \in Calls /\ effects[batch[m]] \in Nat
        BY <1>1, <1>3 DEF LoopTypeOK, TypeOK
      <4>2. ~(effects[batch[m]] > 0)
        BY <1>1, <3>1, <4>1 DEF QueueOK, IdAt
      <4> QED
        BY <1>1, <3>0, <4>1, <4>2
    <3>6. \A k, l \in DOMAIN queue' : queue'[k].id = IdAt(p)' /\ queue'[l].id = IdAt(p)' => k = l
      BY <1>4, <1>5
    <3>7. Cardinality(AnswersTo(p)') <= 1 /\ effects'[transcript'[p].call] <= 1
      BY <3>4, <3>5
    <3> QED
      BY <3>3, <3>5, <3>6, <3>7 DEF Once
  <2>3. ASSUME NEW i \in CallAt', Namesakes(i)' = {i}
        PROVE  Once(i)'
    <3>1. CASE i \in CallAt
      BY <2>1, <2>3, <3>1
    <3>2. CASE i \notin CallAt
      <4>1. PICK m \in 1..n : i = L + m
        BY <1>6, <2>3, <3>2
      <4> QED
        BY <2>2, <2>3, <4>1
    <3> QED
      BY <3>1, <3>2
  <2> QED
    BY <2>3 DEF OnceOK, Recurring
<1>9. OrderOK'
  <2>1. \A i \in CallAt : Behind(i) => Behind(i)'
    BY <1>1, <1>6, BehindKept
  <2>2. QueueFrom(L)' /\ L \in 0..Len(transcript')
    BY <1>5, <1>6 DEF QueueFrom
  <2>3. \A i \in CallAt' : \/ AnswersTo(i)' # {} \/ Behind(i)'
                           \/ \E m \in DOMAIN queue' : i = L + m
    BY <1>1, <1>5, <1>6, <2>1 DEF OrderOK
  <2>4. \E b \in 0..Len(transcript') :
           /\ QueueFrom(b)'
           /\ \A i \in CallAt' : \/ AnswersTo(i)' # {} \/ Behind(i)'
                                 \/ \E m \in DOMAIN queue' : i = b + m
    BY <2>2, <2>3
  <2> QED
    BY <1>1, <2>4 DEF OrderOK
<1> QED
  BY <1>7, <1>8, <1>9 DEF PlacesOK

\* What resume_permission takes from the transcript: calls of the parked id, at
\* least one; exactly one if that id does not recur.
LEMMA PendingCallsTaken ==
    ASSUME LoopTypeOK, QueueOK, at = "parked", TakePendingCalls
    PROVE  /\ queue' \in Seq(Calls) /\ Len(queue') = Cardinality(ParkedAt) /\ Len(queue') # 0
           /\ \A n \in DOMAIN queue' : /\ queue'[n].id = parked
                                       /\ \E i \in CallAt : transcript[i].call = queue'[n]
           /\ \A i \in CallAt : IdAt(i) = parked /\ ~Recurring(i) => Len(queue') = 1
<1>1. PICK place \in [1..Cardinality(ParkedAt) -> ParkedAt] :
         queue' = [n \in DOMAIN place |-> transcript[place[n]].call]
  BY DEF TakePendingCalls
<1>2. IsFiniteSet(ParkedAt) /\ Cardinality(ParkedAt) \in Nat
  <2>1. ParkedAt \subseteq CallAt /\ IsFiniteSet(CallAt)
    BY TranscriptParts DEF ParkedAt
  <2> QED
    BY <2>1, FS_Subset, FS_CardinalityType
<1>3. \A j \in ParkedAt : j \in CallAt /\ transcript[j].call \in Calls /\ transcript[j].call.id = parked
  BY TranscriptParts DEF ParkedAt
<1>4. queue' \in [1..Cardinality(ParkedAt) -> Calls]
  BY <1>1, <1>3
<1>5. queue' \in Seq(Calls) /\ Len(queue') = Cardinality(ParkedAt) /\ DOMAIN queue' = 1..Cardinality(ParkedAt)
  BY <1>2, <1>4
<1>6. Cardinality(ParkedAt) # 0
  <2>1. PICK e \in CallAt : IdAt(e) = parked
    BY DEF QueueOK
  <2>2. ParkedAt # {}
    BY <2>1 DEF ParkedAt, IdAt
  <2> QED
    BY <1>2, <2>2, FS_EmptySet
<1>7. ASSUME NEW n \in DOMAIN queue'
      PROVE  queue'[n].id = parked /\ \E i \in CallAt : transcript[i].call = queue'[n]
  BY <1>1, <1>3, <1>5
<1>8. ASSUME NEW i \in CallAt, IdAt(i) = parked, ~Recurring(i)
      PROVE  Cardinality(ParkedAt) = 1
  <2>1. ParkedAt = {i}
    BY <1>8 DEF ParkedAt, Recurring, Namesakes, IdAt
  <2>2. Cardinality({i}) = 1
    BY FS_Singleton
  <2> QED
    BY <2>1, <2>2
<1> QED
  BY <1>5, <1>6, <1>7, <1>8

\* The parked calls are queued again.
LEMMA ResumesPlaces ==
    ASSUME Background, BeginResume
    PROVE  PlacesOK'
<1>1. /\ LoopTypeOK /\ QueueOK /\ OnceOK /\ OrderOK /\ PermKept /\ run' = run /\ run \in Runs
      /\ at = "parked" /\ at' = "resuming" /\ parked' = parked /\ TakePendingCalls
      /\ transcript' = transcript /\ effects' = effects /\ parked \in CallIds
  BY DEF Background, PlacesOK, BeginResume, LoopTypeOK
<1>2. /\ CallAt' = CallAt /\ ResultAt' = ResultAt
      /\ \A i \in CallAt : /\ IdAt(i)' = IdAt(i) /\ AnswersTo(i)' = AnswersTo(i)
                           /\ Namesakes(i)' = Namesakes(i)
  BY <1>1 DEF CallAt, ResultAt, IdAt, AnswersTo, Namesakes
<1>3. /\ queue' \in Seq(Calls) /\ Len(queue') # 0 /\ DOMAIN queue' = 1..Len(queue')
      /\ \A n \in DOMAIN queue' : /\ queue'[n].id = parked
                                  /\ \E i \in CallAt : transcript[i].call = queue'[n]
      /\ \A i \in CallAt : IdAt(i) = parked /\ ~Recurring(i) => Len(queue') = 1
  BY <1>1, PendingCallsTaken
<1>4. QueueOK'
  <2>1. Requested(<<run, parked>>)'
    BY <1>1 DEF QueueOK, PermKept, Requested, Keys
  <2> QED
    BY <1>1, <1>2, <1>3, <2>1 DEF QueueOK, IdAt
<1>5. OnceOK'
  <2> SUFFICES ASSUME NEW i \in CallAt, ~Recurring(i)
               PROVE  Once(i)'
    BY <1>2 DEF OnceOK, Recurring
  <2>1. Once(i)
    BY <1>1 DEF OnceOK
  <2>2. Owed(i)' => Owed(i)
    BY <1>1, <1>2, <1>3 DEF Owed
  <2>3. Owed(i) => effects[transcript[i].call] = 0
    BY <1>1, <2>1 DEF Once
  <2>4. \A m, n \in DOMAIN queue' : queue'[m].id = IdAt(i) /\ queue'[n].id = IdAt(i) => m = n
    <3> SUFFICES ASSUME NEW m \in DOMAIN queue', NEW n \in DOMAIN queue', queue'[m].id = IdAt(i)
                 PROVE  m = n
      OBVIOUS
    <3>1. Len(queue') = 1
      BY <1>3
    <3> QED
      BY <1>3, <3>1
  <2> QED
    BY <1>1, <1>2, <2>1, <2>2, <2>3, <2>4 DEF Once
<1>6. OrderOK'
  <2>1. \A i \in CallAt : Behind(i) => Behind(i)'
    BY <1>1, <1>2, BehindKept
  <2> QED
    BY <1>1, <1>2, <1>3, <2>1 DEF OrderOK
<1> QED
  BY <1>4, <1>5, <1>6 DEF PlacesOK

(***************************************************************************)
(* The permission service under the loop                                   *)
(***************************************************************************)

\* authorize forgets nothing, and a pending call has a request.
LEMMA AuthorizeKept ==
    ASSUME PermInv, NEW r \in Runs, NEW c \in Calls, NEW verdict \in Verdicts,
           Authorize(r, c, verdict)
    PROVE  PermInv' /\ PermKept /\ (verdict = "pending" => Requested(KeyOf(r, c))')
<1> DEFINE k == KeyOf(r, c)
<1>1. /\ k \in Keys /\ asked \in [Keys -> [tool : Tools, args : Args] \cup {NoCall}]
      /\ [tool |-> c.tool, args |-> c.args] # NoCall
  BY KeysAndScopes, PermissionAssumption DEF PermInv, PermTypeOK
<1> HIDE DEF k
<1>2. ASSUME UNCHANGED permVars PROVE PermKept
  BY <1>2 DEF PermKept, permVars
<1>3. ASSUME consumed' = consumed \cup {k}, UNCHANGED <<rule, asked, decision, grants, overdue>>
      PROVE  PermKept
  BY <1>3 DEF PermKept
<1>4. ASSUME ~Requested(k), asked' = [asked EXCEPT ![k] = [tool |-> c.tool, args |-> c.args]],
             UNCHANGED <<rule, decision, consumed, grants, overdue, passes>>
      PROVE  PermKept
  BY <1>1, <1>4 DEF PermKept, Requested
<1>5. PermKept
  BY <1>2, <1>3, <1>4 DEF Authorize, FirstAsk, AskedBefore, Consume, k
<1>6. ASSUME verdict = "pending" PROVE asked'[k] # NoCall
  <2>1. \/ asked' = [asked EXCEPT ![k] = [tool |-> c.tool, args |-> c.args]]
        \/ asked' = asked /\ Requested(k)
    BY <1>6 DEF Authorize, FirstAsk, AskedBefore, Consume, permVars, k
  <2> QED
    BY <1>1, <2>1 DEF Requested
<1>7. verdict = "pending" => Requested(KeyOf(r, c))'
  BY <1>6 DEF Requested, k, KeyOf
<1> QED
  BY <1>5, <1>7, AuthorizeInv

\* So does an answer to an open request.
LEMMA ResolveKept ==
    ASSUME PermInv, NEW k \in Keys, NEW kind \in Decisions, Resolve(k, kind)
    PROVE  PermInv' /\ PermKept
  BY ResolveInv DEF Resolve, PermKept, PermInv, PermTypeOK

\* A step that leaves the service alone keeps what it knows.
LEMMA IdleKept ==
    ASSUME PermInv, UNCHANGED permVars
    PROVE  PermInv' /\ PermKept
  BY DEF PermInv, PermTypeOK, ApprovalPassesOnce, GrantsJustified, permVars, PermKept

\* What has to be asked for after a step had to be asked for before it.
LEMMA AskedForBefore ==
    ASSUME PermKept, run' = run, NEW c \in Calls, MustAsk(run, c)'
    PROVE  MustAsk(run, c)
  BY DEF PermKept, MustAsk, FreePass, Refused

\* No call is executed: what was executed keeps its approval.
LEMMA EffectsKept ==
    ASSUME PermInv, EffectsOK, PermKept, run' = run, run \in Runs,
           NEW E \in SUBSET Calls, \A c \in E : effects'[c] = effects[c]
    PROVE  \A c \in E : effects'[c] > 0 /\ MustAsk(run, c)' =>
             /\ effects'[c] = 1
             /\ KeyOf(run, c) \in consumed' /\ decision'[KeyOf(run, c)] \in AllowKinds
             /\ asked'[KeyOf(run, c)] = [tool |-> c.tool, args |-> c.args]
<1> SUFFICES ASSUME NEW c \in E, effects'[c] > 0, MustAsk(run, c)'
             PROVE  /\ effects'[c] = 1
                    /\ KeyOf(run, c) \in consumed' /\ decision'[KeyOf(run, c)] \in AllowKinds
                    /\ asked'[KeyOf(run, c)] = [tool |-> c.tool, args |-> c.args]
  OBVIOUS
<1>1. c \in Calls /\ MustAsk(run, c) /\ effects'[c] = effects[c]
  BY AskedForBefore
<1>2. /\ KeyOf(run, c) \in Keys /\ [tool |-> c.tool, args |-> c.args] # NoCall
  BY <1>1, KeysAndScopes, PermissionAssumption
<1>3. /\ effects[c] = 1
      /\ KeyOf(run, c) \in consumed /\ decision[KeyOf(run, c)] \in AllowKinds
      /\ asked[KeyOf(run, c)] = [tool |-> c.tool, args |-> c.args]
  BY <1>1 DEF EffectsOK
<1>4. decision[KeyOf(run, c)] # "none"
  BY <1>3 DEF AllowKinds
<1> QED
  BY <1>1, <1>2, <1>3, <1>4 DEF PermKept, Requested

\* A call is executed that authorize allowed: for free, or with its approval.
LEMMA EffectsGrow ==
    ASSUME PermInv, EffectsOK, effects \in [Calls -> Nat], run' = run, run \in Runs,
           NEW c \in Calls, Authorize(run, c, "allowed"), Execute(c)
    PROVE  EffectsOK'
<1> DEFINE k == KeyOf(run, c)
<1>1. PermKept /\ "allowed" \in Verdicts
  BY AuthorizeKept DEF Verdicts
<1>2. effects'[c] = effects[c] + 1 /\ \A d \in Calls \ {c} : effects'[d] = effects[d]
  BY DEF Execute
<1>3. \A d \in Calls \ {c} : effects'[d] > 0 /\ MustAsk(run, d)' =>
             /\ effects'[d] = 1
             /\ KeyOf(run, d) \in consumed' /\ decision'[KeyOf(run, d)] \in AllowKinds
             /\ asked'[KeyOf(run, d)] = [tool |-> d.tool, args |-> d.args]
  <2> DEFINE E == Calls \ {c}
  <2>1. E \in SUBSET Calls /\ \A d \in E : effects'[d] = effects[d]
    BY <1>2
  <2> HIDE DEF E
  <2>2. \A d \in E : effects'[d] > 0 /\ MustAsk(run, d)' =>
             /\ effects'[d] = 1
             /\ KeyOf(run, d) \in consumed' /\ decision'[KeyOf(run, d)] \in AllowKinds
             /\ asked'[KeyOf(run, d)] = [tool |-> d.tool, args |-> d.args]
    BY <1>1, <2>1, EffectsKept
  <2> QED
    BY <2>2 DEF E
<1>4. ASSUME MustAsk(run, c)'
      PROVE  /\ effects'[c] = 1
             /\ KeyOf(run, c) \in consumed' /\ decision'[KeyOf(run, c)] \in AllowKinds
             /\ asked'[KeyOf(run, c)] = [tool |-> c.tool, args |-> c.args]
  <2>1. MustAsk(run, c)
    BY <1>1, <1>4, AskedForBefore
  <2>2. /\ k \notin consumed /\ asked[k].tool = c.tool /\ asked[k].args = c.args
        /\ asked[k] # NoCall /\ decision[k] \in AllowKinds
        /\ consumed' = consumed \cup {k} /\ decision' = decision /\ asked' = asked
    BY <2>1 DEF Authorize, MustAsk, FirstAsk, AskedBefore, Consume, Requested
  <2>3. effects[c] = 0
    <3>1. effects[c] \in Nat /\ KeyOf(run, c) \notin consumed
      BY <2>2
    <3>2. ~(effects[c] > 0)
      BY <2>1, <3>1 DEF EffectsOK
    <3> QED
      BY <3>1, <3>2
  <2>4. asked[k] \in [tool : Tools, args : Args]
    BY <2>2, KeysAndScopes DEF PermInv, PermTypeOK
  <2>5. asked[k] = [tool |-> c.tool, args |-> c.args]
    BY <2>2, <2>4
  <2> QED
    BY <1>2, <2>2, <2>3, <2>5
<1>5. \A d \in Calls : KeyOf(run, d)' = KeyOf(run, d)
  BY DEF KeyOf
<1> QED
  BY <1>3, <1>4, <1>5 DEF EffectsOK

\* Without an execution, approvals and executions agree as before.
LEMMA EffectsSame ==
    ASSUME PermInv, EffectsOK, PermKept, run' = run, run \in Runs, effects' = effects
    PROVE  EffectsOK'
<1>1. \A c \in Calls : effects'[c] > 0 /\ MustAsk(run, c)' =>
             /\ effects'[c] = 1
             /\ KeyOf(run, c) \in consumed' /\ decision'[KeyOf(run, c)] \in AllowKinds
             /\ asked'[KeyOf(run, c)] = [tool |-> c.tool, args |-> c.args]
  BY EffectsKept
<1>2. \A c \in Calls : KeyOf(run, c)' = KeyOf(run, c)
  BY DEF KeyOf
<1> QED
  BY <1>1, <1>2 DEF EffectsOK

(***************************************************************************)
(* The steps of the loop                                                   *)
(***************************************************************************)

\* What is owed to the first call of the queue is a result.
LEMMA HeadCall ==
    ASSUME LoopTypeOK, queue # << >>, NEW c, c = Head(queue)
    PROVE  /\ c \in Calls /\ c.id \in CallIds /\ c.tool \in Tools
           /\ Len(queue) \in Nat \ {0}
           /\ Tail(queue) \in Seq(Calls) /\ Len(Tail(queue)) = Len(queue) - 1
           /\ \A s \in ResultStatuses :
                 transcript' = Append(transcript, Result(c, s)) =>
                    transcript' \in Seq(CallEntries \cup ResultEntries) /\ (IdsDistinct' => IdsDistinct)
<1>1. queue \in Seq(Calls)
  BY DEF LoopTypeOK, TypeOK
<1>2. /\ c \in Calls /\ Len(queue) \in Nat \ {0}
      /\ Tail(queue) \in Seq(Calls) /\ Len(Tail(queue)) = Len(queue) - 1
  BY <1>1, QueueParts
<1>3. ASSUME NEW s \in ResultStatuses, transcript' = Append(transcript, Result(c, s))
      PROVE  transcript' \in Seq(CallEntries \cup ResultEntries) /\ (IdsDistinct' => IdsDistinct)
  <2>1. /\ transcript' \in Seq(CallEntries \cup ResultEntries) /\ CallAt' = CallAt
        /\ \A i \in CallAt : Namesakes(i)' = Namesakes(i)
    BY <1>2, <1>3, ResultAppended
  <2> QED
    BY <2>1 DEF IdsDistinct, Recurring
<1> QED
  BY <1>2, <1>3 DEF Calls

\* The transcript of a call turn.
LEMMA TurnTranscript ==
    ASSUME LoopTypeOK, CallTurn
    PROVE  /\ transcript' \in Seq(CallEntries \cup ResultEntries) /\ queue' \in Seq(Calls)
           /\ IdsDistinct' => IdsDistinct
<1>0. PICK L \in Nat : L = Len(transcript)
  BY TranscriptParts
<1>1. PICK batch \in Batches :
         /\ transcript' = transcript \o [i \in DOMAIN batch |-> Asks(batch[i])]
         /\ queue' = batch
  BY DEF CallTurn
<1>2. PICK n \in 1..MaxBatch : batch \in [1..n -> Calls]
  BY DEF Batches
<1>3. n \in Nat
  BY AgentLoopAssumption
<1>4. /\ transcript' \in Seq(CallEntries \cup ResultEntries)
      /\ CallAt \subseteq CallAt' /\ \A i \in CallAt : Namesakes(i) \subseteq Namesakes(i)'
  BY <1>0, <1>1, <1>2, <1>3, TurnAppended DEF TurnAdded
<1>5. IdsDistinct' => IdsDistinct
  <2>1. \A i \in CallAt : i \in Namesakes(i)
    BY DEF Namesakes
  <2> QED
    BY <1>4, <2>1 DEF IdsDistinct, Recurring
<1> QED
  BY <1>1, <1>2, <1>3, <1>4, <1>5

\* As long as no id recurs, there was none before; the places of a transcript
\* that stays are the same.
LEMMA SameTranscript ==
    ASSUME transcript' = transcript
    PROVE  IdsDistinct' <=> IdsDistinct
  BY DEF IdsDistinct, Recurring, Namesakes, CallAt

\* The parts of the invariant, put together after a step.
LEMMA InvParts ==
    ASSUME LoopInv, run' = run, PermInv', PermKept, PlacesOK', EffectsOK', BudgetOK',
           at' \in Places, outcome' \in TerminalStatuses \cup {"none"},
           signal' \in {"clear", "set"}, stopping' \in {"no", "yes"},
           turns' \in 0..MaxTurns, used' \in Nat, searches' \in Nat, retries' \in 0..1,
           transcript' \in Seq(CallEntries \cup ResultEntries), queue' \in Seq(Calls),
           parked' \in PendingCalls, effects' \in [Calls -> Nat],
           at' \in {"parked", "resuming"} => parked' \in CallIds
    PROVE  LoopInv'
<1>1. \A i \in DOMAIN transcript' : transcript'[i].kind \in {"call", "result"}
  BY DEF CallEntries, ResultEntries
<1>2. LoopTypeOK'
  BY <1>1 DEF LoopInv, LoopTypeOK, TypeOK, PermInv
<1> QED
  BY <1>2 DEF LoopInv, PlacesOK

\* No result, no execution and no call: only the places may change.
LEMMA QuietStep ==
    ASSUME LoopInv, run' = run, PermInv', PermKept, PlacesOK',
           transcript' = transcript, effects' = effects, used' = used,
           queue' \in {queue, << >>},
           at' \in {"executing", "resuming"} => at' = at /\ queue' = queue,
           at' = "parked" => at = "parked" \/ used < MaxToolCalls,
           at' \in Places, outcome' \in TerminalStatuses \cup {"none"},
           signal' \in {"clear", "set"}, stopping' \in {"no", "yes"},
           turns' \in 0..MaxTurns, searches' \in Nat, retries' \in 0..1,
           parked' \in PendingCalls, at' \in {"parked", "resuming"} => parked' \in CallIds
    PROVE  LoopInv'
<1>1. /\ LoopTypeOK /\ PermInv /\ EffectsOK /\ BudgetOK /\ run \in Runs
      /\ queue \in Seq(Calls) /\ transcript \in Seq(CallEntries \cup ResultEntries)
      /\ used \in Nat /\ effects \in [Calls -> Nat]
  BY DEF LoopInv, LoopTypeOK, TypeOK
<1>2. EffectsOK'
  BY <1>1, EffectsSame
<1>3. BudgetOK'
  <2> SUFFICES ASSUME IdsDistinct
               PROVE  /\ used <= MaxToolCalls
                      /\ at' \in {"executing", "parked"} => used < MaxToolCalls
                      /\ at' = "resuming" => used + Len(queue') <= MaxToolCalls
    BY SameTranscript DEF BudgetOK
  <2>1. /\ used <= MaxToolCalls
        /\ at \in {"executing", "parked"} => used < MaxToolCalls
        /\ at = "resuming" => used + Len(queue) <= MaxToolCalls
    BY <1>1 DEF BudgetOK
  <2> QED
    BY <2>1
<1>4. /\ queue' \in Seq(Calls) /\ transcript' \in Seq(CallEntries \cup ResultEntries)
      /\ used' \in Nat /\ effects' \in [Calls -> Nat]
  <2>1. << >> \in Seq(Calls) /\ (queue' = queue \/ queue' = << >>)
    OBVIOUS
  <2>2. queue' \in Seq(Calls)
    BY <1>1, <2>1
  <2> QED
    BY <1>1, <2>2
<1>5. /\ at' \in Places /\ outcome' \in TerminalStatuses \cup {"none"}
      /\ signal' \in {"clear", "set"} /\ stopping' \in {"no", "yes"}
      /\ turns' \in 0..MaxTurns /\ searches' \in Nat /\ retries' \in 0..1
      /\ parked' \in PendingCalls /\ (at' \in {"parked", "resuming"} => parked' \in CallIds)
  OBVIOUS
<1> QED
  BY <1>2, <1>3, <1>4, <1>5, InvParts

\* A result that costs no call.
LEMMA ConcludeStep ==
    ASSUME LoopInv, run' = run, PermInv', PermKept, at = "calls",
           NEW c, c = Head(queue), NEW s \in ResultStatuses, queue # << >>, Conclude(s),
           UNCHANGED <<outcome, turns, used, searches, retries, parked, effects>>,
           signal' = signal, stopping' \in {"no", "yes"}
    PROVE  LoopInv'
<1>1. /\ LoopTypeOK /\ PermInv /\ EffectsOK /\ BudgetOK /\ run \in Runs /\ TypeOK
      /\ PlacesOK
  BY DEF LoopInv, LoopTypeOK, PlacesOK
<1>2. /\ queue' \in Seq(Calls) /\ at' = "calls"
      /\ transcript' \in Seq(CallEntries \cup ResultEntries) /\ (IdsDistinct' => IdsDistinct)
  BY <1>1, HeadCall DEF Conclude
<1>3. PlacesOK'
  <2>1. Background /\ Answers(c, s)
    BY <1>1, <1>2 DEF Background, Answers, Conclude
  <2> QED
    BY <2>1, AnswersPlaces
<1>4. EffectsOK'
  BY <1>1, EffectsSame
<1>5. BudgetOK'
  BY <1>1, <1>2 DEF BudgetOK
<1> QED
  BY <1>1, <1>2, <1>3, <1>4, <1>5, InvParts DEF TypeOK, Places

\* Nothing happened yet.
LEMMA LoopInitInv == Init => LoopInv
<1> SUFFICES ASSUME Init PROVE LoopInv
  OBVIOUS
<1>1. PermInv
  BY PermInitInv DEF Init
<1>2. transcript = << >> /\ queue = << >> /\ CallAt = {} /\ ResultAt = {}
  BY DEF Init, CallAt, ResultAt
<1>3. LoopTypeOK
  BY <1>1, <1>2, AgentLoopAssumption
  DEF Init, LoopTypeOK, TypeOK, PermInv, Places, PendingCalls
<1>4. EffectsOK /\ QueueOK /\ OnceOK /\ OrderOK
  BY <1>2 DEF Init, EffectsOK, QueueOK, OnceOK, OrderOK
<1>5. BudgetOK
  BY AgentLoopAssumption DEF Init, BudgetOK
<1> QED
  BY <1>1, <1>3, <1>4, <1>5 DEF LoopInv

\* What the steps below start from.
LEMMA LoopFacts ==
    ASSUME LoopInv
    PROVE  /\ LoopTypeOK /\ TypeOK /\ PermInv /\ EffectsOK /\ BudgetOK /\ PlacesOK /\ run \in Runs
           /\ at \in Places /\ outcome \in TerminalStatuses \cup {"none"}
           /\ signal \in {"clear", "set"} /\ stopping \in {"no", "yes"}
           /\ turns \in 0..MaxTurns /\ MaxTurns \in Nat /\ turns \in Nat
           /\ used \in Nat /\ searches \in Nat /\ retries \in 0..1
           /\ queue \in Seq(Calls) /\ parked \in PendingCalls
           /\ at \in {"parked", "resuming"} => parked \in CallIds
           /\ transcript \in Seq(CallEntries \cup ResultEntries)
           /\ effects \in [Calls -> Nat] /\ MaxToolCalls \in Nat \ {0}
  BY AgentLoopAssumption DEF LoopInv, LoopTypeOK, TypeOK, PlacesOK

\* The loop returns.
LEMMA EndStep ==
    ASSUME LoopInv, run' = run, UNCHANGED permVars, NEW s \in TerminalStatuses, Terminate(s),
           UNCHANGED <<transcript, effects, used, signal, searches, parked>>,
           turns' \in 0..MaxTurns, retries' \in 0..1
    PROVE  LoopInv'
<1>1. PermInv' /\ PermKept /\ Background
  BY LoopFacts, IdleKept DEF Background
<1>2. /\ at' = "ended" /\ outcome' = s /\ queue' = << >> /\ stopping' = "no"
      /\ transcript' = transcript /\ effects' = effects /\ used' = used
      /\ signal' = signal /\ searches' = searches /\ parked' = parked
  BY DEF Terminate
<1>3. PlacesOK'
  BY <1>1, <1>2, EndsPlaces DEF Ends
<1>4. /\ at' \in Places /\ outcome' \in TerminalStatuses \cup {"none"}
      /\ signal' \in {"clear", "set"} /\ searches' \in Nat /\ parked' \in PendingCalls
  BY <1>2, LoopFacts DEF Places
<1>5. /\ queue' \in {queue, << >>}
      /\ at' \in {"executing", "resuming"} => at' = at /\ queue' = queue
      /\ at' # "parked"
  BY <1>2
<1> QED
  BY <1>1, <1>2, <1>3, <1>4, <1>5, QuietStep

\* The head of the while loop: the loop leaves, or the provider takes a turn.
LEMMA ProviderSteps ==
    ASSUME LoopInv, run' = run,
           \/ \E s \in {"blocked", "cancelled", "failed"} : LeaveBeforeCalls(s)
           \/ EmptyTurn \/ AnswerTurn
    PROVE  LoopInv'
<1>1. /\ LoopTypeOK /\ PlacesOK /\ PermInv /\ run \in Runs /\ at = "provider"
      /\ UNCHANGED permVars
  BY LoopFacts DEF LeaveBeforeCalls, EmptyTurn, AnswerTurn
<1>2. PermInv' /\ PermKept /\ Background
  BY <1>1, IdleKept DEF Background
<1>3. queue = << >>
  BY <1>1 DEF PlacesOK, QueueOK
<1>4. ASSUME NEW s \in {"blocked", "cancelled", "failed"}, LeaveBeforeCalls(s)
      PROVE  LoopInv'
  BY <1>1, <1>4, LoopFacts, EndStep DEF LeaveBeforeCalls, TerminalStatuses
<1>5. CASE AnswerTurn
  <2>1. turns' \in 0..MaxTurns /\ "completed" \in TerminalStatuses /\ retries' \in 0..1
    BY <1>5, LoopFacts DEF AnswerTurn, TerminalStatuses
  <2> QED
    BY <1>1, <1>5, <2>1, EndStep DEF AnswerTurn
<1>6. CASE EmptyTurn
  <2>1. turns' \in 0..MaxTurns
    BY <1>6, LoopFacts DEF EmptyTurn
  <2>2. CASE at' = at /\ queue' = queue /\ outcome' = outcome /\ stopping' = stopping /\ retries' = 1
    <3>1. PlacesOK'
      BY <1>1, <1>2, <1>3, <1>6, <2>2, ReturnsPlaces DEF EmptyTurn, Returns
    <3> QED
      BY <1>1, <1>2, <1>6, <2>1, <2>2, <3>1, LoopFacts, QuietStep DEF EmptyTurn
  <2>3. CASE Terminate(IF Gathered THEN "completed" ELSE "failed") /\ retries' = retries
    <3>1. (IF Gathered THEN "completed" ELSE "failed") \in TerminalStatuses
      BY DEF TerminalStatuses
    <3>2. retries' \in 0..1
      BY <2>3, LoopFacts
    <3>3. UNCHANGED <<transcript, effects, used, signal, searches, parked>>
      BY <1>6 DEF EmptyTurn
    <3> QED
      BY <1>1, <2>1, <2>3, <3>1, <3>2, <3>3, EndStep
  <2> QED
    BY <1>6, <2>2, <2>3 DEF EmptyTurn
<1> QED
  BY <1>4, <1>5, <1>6

\* A turn that asks for calls.
LEMMA CallTurnStep ==
    ASSUME LoopInv, run' = run, CallTurn
    PROVE  LoopInv'
<1>1. PermInv' /\ PermKept /\ Background
  BY LoopFacts, IdleKept DEF CallTurn, Background
<1>2. PlacesOK'
  BY <1>1, CallTurnPlaces
<1>3. /\ transcript' \in Seq(CallEntries \cup ResultEntries) /\ queue' \in Seq(Calls)
      /\ IdsDistinct' => IdsDistinct
  BY LoopFacts, TurnTranscript
<1>4. EffectsOK'
  BY <1>1, LoopFacts, EffectsSame DEF CallTurn
<1>5. BudgetOK'
  BY <1>3, LoopFacts DEF BudgetOK, CallTurn
<1>6. turns' \in 0..MaxTurns
  BY LoopFacts DEF CallTurn
<1> QED
  BY <1>1, <1>2, <1>3, <1>4, <1>5, <1>6, LoopFacts, InvParts DEF CallTurn, Places

\* A call is answered without being executed, or ends the run.
LEMMA AnswerSteps ==
    ASSUME LoopInv, run' = run, NEW c,
           \/ SkipCall(c) \/ RedirectCall(c) \/ RefuseCall(c) \/ BlockCall(c)
           \/ \E s \in ResultStatuses : ControlCall(c, s)
    PROVE  LoopInv'
<1>1. at = "calls" /\ queue # << >> /\ c = Head(queue)
  BY DEF SkipCall, RedirectCall, RefuseCall, BlockCall, ControlCall, MayAuthorize, Dispatching, Handling
<1>2. c \in Calls
  BY <1>1, LoopFacts, HeadCall
<1>3. {"cancelled", "failed", "denied"} \subseteq ResultStatuses /\ {"denied", "blocked"} \subseteq Verdicts
  BY DEF ResultStatuses, Verdicts
<1>4. CASE SkipCall(c)
  BY <1>1, <1>3, <1>4, LoopFacts, IdleKept, ConcludeStep DEF SkipCall
<1>5. CASE RedirectCall(c)
  BY <1>1, <1>3, <1>5, LoopFacts, IdleKept, ConcludeStep DEF RedirectCall
<1>6. ASSUME NEW s \in ResultStatuses, ControlCall(c, s) PROVE LoopInv'
  BY <1>1, <1>6, LoopFacts, IdleKept, ConcludeStep DEF ControlCall
<1>7. CASE RefuseCall(c)
  <2>1. PermInv' /\ PermKept
    BY <1>2, <1>3, <1>7, LoopFacts, AuthorizeKept DEF RefuseCall
  <2> QED
    BY <1>1, <1>3, <1>7, <2>1, LoopFacts, ConcludeStep DEF RefuseCall
<1>8. CASE BlockCall(c)
  <2>1. PermInv' /\ PermKept
    BY <1>2, <1>3, <1>8, LoopFacts, AuthorizeKept DEF BlockCall
  <2>2. /\ transcript' \in Seq(CallEntries \cup ResultEntries) /\ (IdsDistinct' => IdsDistinct)
    BY <1>1, <1>3, <1>8, LoopFacts, HeadCall DEF BlockCall
  <2>3. PlacesOK'
    <3>1. Background
      BY <2>1, LoopFacts DEF Background
    <3>2. Ends
      BY <1>1, <1>3, <1>8 DEF BlockCall, Terminate, Ends
    <3> QED
      BY <3>1, <3>2, EndsPlaces
  <2>4. EffectsOK'
    BY <1>8, <2>1, LoopFacts, EffectsSame DEF BlockCall
  <2>5. BudgetOK'
    BY <1>8, <2>2, LoopFacts DEF BudgetOK, BlockCall, Terminate
  <2>6. queue' \in Seq(Calls)
    BY <1>8 DEF BlockCall, Terminate
  <2> QED
    BY <1>8, <2>1, <2>2, <2>3, <2>4, <2>5, <2>6, LoopFacts, InvParts
    DEF BlockCall, Terminate, Places, TerminalStatuses
<1> QED
  BY <1>4, <1>5, <1>6, <1>7, <1>8

\* The end of a turn, and the head of the loop once more after a resumption.
LEMMA ReturnSteps ==
    ASSUME LoopInv, run' = run, EndOfTurn \/ RunAgain
    PROVE  LoopInv'
<1>1. CASE EndOfTurn /\ stopping = "yes"
  <2>1. /\ Terminate("cancelled") /\ "cancelled" \in TerminalStatuses /\ UNCHANGED permVars
        /\ UNCHANGED <<transcript, effects, used, signal, searches, parked>>
        /\ turns' \in 0..MaxTurns /\ retries' \in 0..1
    BY <1>1, LoopFacts DEF EndOfTurn, TerminalStatuses
  <2> QED
    BY <2>1, EndStep
<1>2. ASSUME UNCHANGED permVars, Returns, at \in {"calls", "resuming"}, queue' = queue,
             UNCHANGED <<outcome, signal, turns, used, stopping>>,
             parked' \in {parked, NoCallId}, searches' \in {searches, 0}, retries' \in {retries, 0}
      PROVE  LoopInv'
  <2>1. PermInv' /\ PermKept /\ Background
    BY <1>2, LoopFacts, IdleKept DEF Background
  <2>2. PlacesOK'
    BY <1>2, <2>1, ReturnsPlaces
  <2>3. /\ at' = "provider" /\ at' \in Places /\ transcript' = transcript /\ effects' = effects
        /\ used' = used
    BY <1>2 DEF Returns, Places
  <2>4. /\ outcome' \in TerminalStatuses \cup {"none"} /\ signal' \in {"clear", "set"}
        /\ stopping' \in {"no", "yes"} /\ turns' \in 0..MaxTurns /\ searches' \in Nat
        /\ retries' \in 0..1 /\ parked' \in PendingCalls
    BY <1>2, LoopFacts DEF PendingCalls
  <2> QED
    BY <1>2, <2>1, <2>2, <2>3, <2>4, QuietStep
<1>3. CASE EndOfTurn /\ stopping # "yes"
  BY <1>2, <1>3 DEF EndOfTurn, Returns
<1>4. CASE RunAgain
  BY <1>2, <1>4 DEF RunAgain, Returns
<1> QED
  BY <1>1, <1>3, <1>4

\* A call is parked: the budget still has room for it.
LEMMA ParkStep ==
    ASSUME LoopInv, run' = run, NEW c, ParkCall(c)
    PROVE  LoopInv'
<1>1. /\ at = "calls" /\ queue # << >> /\ c = Head(queue) /\ Authorize(run, c, "pending")
      /\ parked' = c.id /\ at' = "parked" /\ queue' = << >>
      /\ UNCHANGED <<outcome, signal, turns, used, searches, retries, transcript, stopping, effects>>
  BY DEF ParkCall, MayAuthorize, Dispatching, Handling
<1>2. used < MaxToolCalls
  BY LoopFacts DEF ParkCall, MayAuthorize, BudgetSpent
<1>3. c \in Calls /\ c.id \in CallIds /\ "pending" \in Verdicts
  BY <1>1, LoopFacts, HeadCall DEF Verdicts
<1>4. PermInv' /\ PermKept /\ Requested(KeyOf(run, c))'
  BY <1>1, <1>3, LoopFacts, AuthorizeKept
<1>5. PlacesOK'
  <2>1. Background
    BY <1>4, LoopFacts DEF Background
  <2>2. Parks(c)
    BY <1>1, <1>4 DEF Parks
  <2> QED
    BY <2>1, <2>2, ParksPlaces
<1>6. /\ at' \in Places /\ parked' \in PendingCalls /\ parked' \in CallIds
      /\ outcome' \in TerminalStatuses \cup {"none"} /\ signal' \in {"clear", "set"}
      /\ stopping' \in {"no", "yes"} /\ turns' \in 0..MaxTurns /\ searches' \in Nat
      /\ retries' \in 0..1
  BY <1>1, <1>3, LoopFacts DEF Places, PendingCalls
<1>7. /\ transcript' = transcript /\ effects' = effects /\ used' = used
      /\ queue' \in {queue, << >>}
      /\ at' \in {"executing", "resuming"} => at' = at /\ queue' = queue
  BY <1>1
<1> QED
  BY <1>2, <1>4, <1>5, <1>6, <1>7, QuietStep

\* A call begins: the budget still has room for it, and it is allowed.
LEMMA DispatchStep ==
    ASSUME LoopInv, run' = run, NEW c, DispatchCall(c)
    PROVE  LoopInv'
<1>1. /\ at = "calls" /\ queue # << >> /\ c = Head(queue) /\ Authorize(run, c, "allowed")
      /\ Execute(c) /\ at' = "executing"
      /\ UNCHANGED <<outcome, signal, turns, used, retries, transcript, queue, stopping, parked>>
  BY DEF DispatchCall, MayAuthorize, Dispatching, Handling
<1>2. used < MaxToolCalls
  BY LoopFacts DEF DispatchCall, MayAuthorize, BudgetSpent
<1>3. c \in Calls /\ "allowed" \in Verdicts
  BY <1>1, LoopFacts, HeadCall DEF Verdicts
<1>4. PermInv' /\ PermKept
  BY <1>1, <1>3, LoopFacts, AuthorizeKept
<1>5. PlacesOK'
  <2>1. Background
    BY <1>4, LoopFacts DEF Background
  <2>2. Dispatches(c)
    BY <1>1 DEF Dispatches
  <2> QED
    BY <2>1, <2>2, DispatchesPlaces
<1>6. EffectsOK'
  BY <1>1, <1>3, LoopFacts, EffectsGrow
<1>7. BudgetOK'
  BY <1>1, <1>2, LoopFacts, SameTranscript DEF BudgetOK
<1>8. at' \in Places /\ effects' \in [Calls -> Nat] /\ searches' \in Nat
  BY <1>1, <1>3, LoopFacts DEF Places, Execute, DispatchCall
<1> QED
  BY <1>1, <1>4, <1>5, <1>6, <1>7, <1>8, LoopFacts, InvParts

\* The executed call is answered and counted.
LEMMA FinishStep ==
    ASSUME LoopInv, run' = run, NEW s \in ResultStatuses, FinishCall(s)
    PROVE  LoopInv'
<1>1. /\ at = "executing" /\ at' = "calls" /\ used' = used + 1
      /\ transcript' = Append(transcript, Result(Head(queue), s)) /\ queue' = Tail(queue)
      /\ UNCHANGED <<permVars, outcome, signal, turns, searches, retries, parked, effects>>
  BY DEF FinishCall, Conclude
<1>2. queue # << >>
  BY <1>1, LoopFacts DEF PlacesOK, QueueOK
<1>3. PermInv' /\ PermKept /\ Background
  BY <1>1, LoopFacts, IdleKept DEF Background
<1>4. /\ transcript' \in Seq(CallEntries \cup ResultEntries) /\ queue' \in Seq(Calls)
      /\ IdsDistinct' => IdsDistinct
  BY <1>1, <1>2, LoopFacts, HeadCall
<1>5. PlacesOK'
  <2>1. Answers(Head(queue), s)
    BY <1>1, <1>2 DEF Answers
  <2> QED
    BY <1>3, <2>1, AnswersPlaces
<1>6. EffectsOK'
  BY <1>1, <1>3, LoopFacts, EffectsSame
<1>7. BudgetOK'
  BY <1>1, <1>4, LoopFacts DEF BudgetOK
<1>8. at' \in Places /\ used' \in Nat /\ stopping' \in {"no", "yes"}
  BY <1>1, LoopFacts DEF Places, FinishCall
<1> QED
  BY <1>1, <1>3, <1>4, <1>5, <1>6, <1>7, <1>8, LoopFacts, InvParts

\* The answer is there: the parked calls are taken from the transcript.
LEMMA BeginResumeStep ==
    ASSUME LoopInv, run' = run, BeginResume
    PROVE  LoopInv'
<1>1. /\ at = "parked" /\ at' = "resuming" /\ TakePendingCalls
      /\ UNCHANGED <<permVars, outcome, signal, turns, used, searches, retries, transcript,
                     stopping, parked, effects>>
  BY DEF BeginResume
<1>2. PermInv' /\ PermKept /\ Background
  BY <1>1, LoopFacts, IdleKept DEF Background
<1>3. PlacesOK'
  BY <1>2, ResumesPlaces
<1>4. /\ queue' \in Seq(Calls)
      /\ \A i \in CallAt : IdAt(i) = parked /\ ~Recurring(i) => Len(queue') = 1
  BY <1>1, LoopFacts, PendingCallsTaken DEF PlacesOK
<1>5. EffectsOK'
  BY <1>1, <1>2, LoopFacts, EffectsSame
<1>6. BudgetOK'
  <2>1. ASSUME IdsDistinct PROVE used + Len(queue') <= MaxToolCalls /\ used <= MaxToolCalls
    <3>1. used < MaxToolCalls /\ \E i \in CallAt : IdAt(i) = parked /\ ~Recurring(i)
      BY <1>1, <2>1, LoopFacts DEF BudgetOK, PlacesOK, QueueOK, IdsDistinct
    <3>2. Len(queue') = 1 /\ used \in Nat /\ MaxToolCalls \in Nat
      BY <1>4, <3>1, LoopFacts
    <3> QED
      BY <3>1, <3>2
  <2> QED
    BY <1>1, <2>1, SameTranscript DEF BudgetOK
<1>7. at' \in Places
  BY <1>1 DEF Places
<1> QED
  BY <1>1, <1>2, <1>3, <1>4, <1>5, <1>6, <1>7, LoopFacts, InvParts

\* A parked call is executed or refused.
LEMMA ResumeCallStep ==
    ASSUME LoopInv, run' = run, NEW c, NEW s \in ResultStatuses, ResumeCall(c, s)
    PROVE  LoopInv'
<1>1. /\ at = "resuming" /\ queue # << >> /\ c = Head(queue) /\ at' = at
      /\ transcript' = Append(transcript, Result(c, s)) /\ queue' = Tail(queue)
      /\ UNCHANGED <<outcome, signal, turns, searches, retries, stopping, parked>>
      /\ \/ Authorize(run, c, "allowed") /\ Execute(c) /\ used' = used + 1
         \/ Authorize(run, c, "denied") /\ effects' = effects /\ used' = used
  BY DEF ResumeCall
<1>2. /\ c \in Calls /\ {"allowed", "denied"} \subseteq Verdicts
      /\ transcript' \in Seq(CallEntries \cup ResultEntries) /\ queue' \in Seq(Calls)
      /\ Len(queue) \in Nat /\ Len(queue') = Len(queue) - 1 /\ (IdsDistinct' => IdsDistinct)
  BY <1>1, LoopFacts, HeadCall DEF Verdicts
<1>3. PermInv' /\ PermKept /\ Background
  BY <1>1, <1>2, LoopFacts, AuthorizeKept DEF Background
<1>4. PlacesOK'
  <2>1. Answers(c, s)
    BY <1>1 DEF Answers
  <2> QED
    BY <1>3, <2>1, AnswersPlaces
<1>5. EffectsOK'
  BY <1>1, <1>2, <1>3, LoopFacts, EffectsSame, EffectsGrow
<1>6. BudgetOK'
  <2>1. ASSUME IdsDistinct PROVE used' <= MaxToolCalls /\ used' + Len(queue') <= MaxToolCalls
    <3>1. used <= MaxToolCalls /\ used + Len(queue) <= MaxToolCalls
      BY <1>1, <2>1, LoopFacts DEF BudgetOK
    <3>2. /\ used \in Nat /\ Len(queue) \in Nat \ {0} /\ MaxToolCalls \in Nat
          /\ Len(queue') = Len(queue) - 1 /\ used' \in {used, used + 1}
      BY <1>1, <1>2, LoopFacts, HeadCall
    <3> QED
      BY <3>1, <3>2
  <2>2. at' = "resuming" /\ (IdsDistinct' => IdsDistinct)
    BY <1>1, <1>2
  <2> QED
    BY <2>1, <2>2 DEF BudgetOK
<1>7. used' \in Nat /\ effects' \in [Calls -> Nat]
  <2>1. used \in Nat /\ effects \in [Calls -> Nat]
    BY LoopFacts
  <2>2. effects' \in {effects, [effects EXCEPT ![c] = @ + 1]} /\ used' \in {used, used + 1}
    BY <1>1 DEF Execute
  <2>3. [effects EXCEPT ![c] = @ + 1] \in [Calls -> Nat]
    BY <1>2, <2>1
  <2> QED
    BY <2>1, <2>2, <2>3
<1> QED
  BY <1>1, <1>2, <1>3, <1>4, <1>5, <1>6, <1>7, LoopFacts, InvParts

\* A client or the timer answers, or somebody cancels.
LEMMA OutsideSteps ==
    ASSUME LoopInv, SignalCancel \/ \E kind \in UserDecisions : AnswerRequest(kind)
    PROVE  LoopInv'
<1>1. UNCHANGED <<run, at, outcome, turns, used, searches, retries, transcript, queue, stopping,
                  parked, effects>>
  BY DEF SignalCancel, AnswerRequest, loopVars
<1>2. signal' \in {"clear", "set"}
  BY LoopFacts DEF SignalCancel, AnswerRequest, loopVars
<1>3. PermInv' /\ PermKept
  <2>1. CASE SignalCancel
    BY <2>1, LoopFacts, IdleKept DEF SignalCancel
  <2>2. ASSUME NEW kind \in UserDecisions, AnswerRequest(kind) PROVE PermInv' /\ PermKept
    <3>1. <<run, parked>> \in Keys /\ kind \in Decisions
      BY <2>2, LoopFacts, AgentLoopAssumption DEF AnswerRequest, Keys
    <3> QED
      BY <2>2, <3>1, LoopFacts, ResolveKept DEF AnswerRequest
  <2> QED
    BY <2>1, <2>2
<1>4. PlacesOK'
  <2>1. Background /\ Stays
    BY <1>1, <1>3, LoopFacts DEF Background, Stays
  <2> QED
    BY <2>1, StaysPlaces
<1>5. EffectsOK'
  BY <1>1, <1>3, LoopFacts, EffectsSame
<1>6. BudgetOK'
  BY <1>1, LoopFacts, SameTranscript DEF BudgetOK
<1> QED
  BY <1>1, <1>2, <1>3, <1>4, <1>5, <1>6, LoopFacts, InvParts

\* Every step keeps the invariant.
LEMMA LoopStepInv == LoopInv /\ [Next]_vars => LoopInv'
<1> SUFFICES ASSUME LoopInv, [Next]_vars PROVE LoopInv'
  OBVIOUS
<1>1. CASE UNCHANGED vars
  <2>1. /\ UNCHANGED <<permVars, run, at, outcome, signal, turns, used, searches, retries,
                       transcript, queue, stopping, parked, effects>>
    BY <1>1 DEF vars, loopVars
  <2>2. PermInv' /\ PermKept /\ Background /\ Stays
    BY <2>1, LoopFacts, IdleKept DEF Background, Stays
  <2>3. PlacesOK' /\ EffectsOK'
    BY <2>1, <2>2, LoopFacts, StaysPlaces, EffectsSame
  <2>4. BudgetOK'
    BY <2>1, LoopFacts, SameTranscript DEF BudgetOK
  <2> QED
    BY <2>1, <2>2, <2>3, <2>4, LoopFacts, InvParts
<1>2. CASE LoopStep
  <2>1. run' = run
    BY <1>2 DEF LoopStep
  <2>2. CASE \/ \E s \in {"blocked", "cancelled", "failed"} : LeaveBeforeCalls(s)
             \/ EmptyTurn \/ AnswerTurn
    BY <2>1, <2>2, ProviderSteps
  <2>3. CASE CallTurn
    BY <2>1, <2>3, CallTurnStep
  <2>4. CASE EndOfTurn \/ RunAgain
    BY <2>1, <2>4, ReturnSteps
  <2>5. CASE BeginResume
    BY <2>1, <2>5, BeginResumeStep
  <2>6. ASSUME NEW c, \/ SkipCall(c) \/ RedirectCall(c) \/ RefuseCall(c) \/ BlockCall(c)
                      \/ \E s \in ResultStatuses : ControlCall(c, s)
        PROVE  LoopInv'
    BY <2>1, <2>6, AnswerSteps
  <2>7. ASSUME NEW c, ParkCall(c) PROVE LoopInv'
    BY <2>1, <2>7, ParkStep
  <2>8. ASSUME NEW c, DispatchCall(c) PROVE LoopInv'
    BY <2>1, <2>8, DispatchStep
  <2>9. ASSUME NEW c, NEW s \in ResultStatuses, ResumeCall(c, s) PROVE LoopInv'
    BY <2>1, <2>9, ResumeCallStep
  <2>10. ASSUME NEW s \in ResultStatuses, FinishCall(s) PROVE LoopInv'
    BY <2>1, <2>10, FinishStep
  <2> QED
    BY <1>2, <2>2, <2>3, <2>4, <2>5, <2>6, <2>7, <2>8, <2>9, <2>10 DEF LoopStep
<1>3. CASE SignalCancel \/ \E kind \in UserDecisions : AnswerRequest(kind)
  BY <1>3, OutsideSteps
<1> QED
  BY <1>1, <1>2, <1>3 DEF Next

(***************************************************************************)
(* Theorems                                                                *)
(***************************************************************************)

\* The inductive invariant of the agent loop.
THEOREM LoopInvariant == Spec => []LoopInv
  BY LoopInitInv, LoopStepInv, PTL DEF Spec

\* Type correctness of the loop and of the permission service under it.
THEOREM LoopTypeCorrect == Spec => []TypeOK
<1>1. LoopInv => TypeOK
  BY DEF LoopInv, LoopTypeOK
<1> QED
  BY <1>1, LoopInvariant, PTL

\* However ids recur and calls are resumed: a call that has to be asked for runs
\* at most once, with an answer that allows it, and no other call of its id has
\* run on that answer.
THEOREM EffectsAreApproved == Spec => []OneEffectPerApproval
<1>1. LoopInv => OneEffectPerApproval
  <2> SUFFICES ASSUME LoopInv, NEW c \in Calls, effects[c] > 0, MustAsk(run, c)
               PROVE  /\ effects[c] = 1
                      /\ decision[<<run, c.id>>] \in AllowKinds
                      /\ \A d \in Calls :
                            d.id = c.id /\ effects[d] > 0 /\ MustAsk(run, d) => d = c
    BY DEF OneEffectPerApproval
  <2>1. EffectsOK
    BY DEF LoopInv
  <2>2. /\ effects[c] = 1 /\ decision[<<run, c.id>>] \in AllowKinds
        /\ asked[<<run, c.id>>] = [tool |-> c.tool, args |-> c.args]
    BY <2>1 DEF EffectsOK, KeyOf
  <2>3. ASSUME NEW d \in Calls, d.id = c.id, effects[d] > 0, MustAsk(run, d)
        PROVE  d = c
    <3>1. asked[<<run, d.id>>] = [tool |-> d.tool, args |-> d.args]
      BY <2>1, <2>3 DEF EffectsOK, KeyOf
    <3>2. d.tool = c.tool /\ d.args = c.args
      BY <2>2, <2>3, <3>1
    <3> QED
      BY <2>3, <3>2 DEF Calls
  <2> QED
    BY <2>2, <2>3
<1> QED
  BY <1>1, LoopInvariant, PTL

\* A result never comes before its call, a call whose id does not recur gets at
\* most one, and what a turn leaves without an answer stood behind a parked call.
THEOREM CallsAndResultsPair == Spec => []Paired
<1>1. LoopInv => Paired
  <2> SUFFICES ASSUME LoopInv PROVE Paired
    OBVIOUS
  <2>1. QueueOK /\ OnceOK /\ OrderOK
    BY DEF LoopInv
  <2>2. \A j \in ResultAt : \E i \in CallAt : i < j /\ transcript[i].call.id = transcript[j].id
    BY <2>1 DEF QueueOK, IdAt
  <2>3. \A i \in CallAt : Recurring(i) \/ Cardinality(AnswersTo(i)) <= 1
    BY <2>1 DEF OnceOK, Once
  <2>4. ASSUME at = "provider", NEW i \in CallAt, AnswersTo(i) = {}
        PROVE  \E h \in CallAt :
                  /\ h < i /\ transcript[h].turn = transcript[i].turn
                  /\ Requested(<<run, transcript[h].call.id>>) /\ AnswersTo(h) # {}
    BY <2>1, <2>4 DEF OrderOK, Behind, IdAt
  <2> QED
    BY <2>2, <2>3, <2>4 DEF Paired
<1> QED
  BY <1>1, LoopInvariant, PTL

\* While ids do not recur, the tool calls of a run stay within their budget, the
\* calls of a resumption included.
THEOREM BudgetHolds == Spec => []BudgetKept
<1>1. LoopInv => BudgetKept
  BY DEF LoopInv, BudgetOK, BudgetKept
<1> QED
  BY <1>1, LoopInvariant, PTL

\* While ids do not recur, no call is executed more often than it was made.
THEOREM CallsRunAsCalled == Spec => []ExecutedAsCalled
<1>1. LoopInv => ExecutedAsCalled
  <2> SUFFICES ASSUME LoopInv, IdsDistinct, NEW c \in Calls
               PROVE  effects[c] <= Cardinality({i \in CallAt : transcript[i].call = c})
    BY DEF ExecutedAsCalled
  <2> DEFINE made == {i \in CallAt : transcript[i].call = c}
  <2>1. LoopTypeOK /\ QueueOK /\ OnceOK /\ effects[c] \in Nat
    BY DEF LoopInv, LoopTypeOK, TypeOK
  <2>2. IsFiniteSet(made) /\ Cardinality(made) \in Nat
    <3>1. IsFiniteSet(CallAt) /\ made \subseteq CallAt
      BY <2>1, TranscriptParts
    <3> QED
      BY <3>1, FS_Subset, FS_CardinalityType
  <2>3. CASE effects[c] = 0
    BY <2>2, <2>3
  <2>4. CASE effects[c] > 0
    <3>1. PICK i \in CallAt : transcript[i].call = c
      BY <2>1, <2>4 DEF QueueOK
    <3>2. effects[c] <= 1
      BY <2>1, <3>1 DEF OnceOK, Once, IdsDistinct
    <3>3. made # {}
      BY <3>1
    <3>4. Cardinality(made) # 0
      BY <2>2, <3>3, FS_EmptySet
    <3> QED
      BY <2>1, <2>2, <3>2, <3>4
  <2> QED
    BY <2>1, <2>3, <2>4
<1> QED
  BY <1>1, LoopInvariant, PTL
(***************************************************************************)
(* The loop as a user of the permission service                            *)
(***************************************************************************)

\* The call that is authorized is one the provider made.
LEMMA AuthorizedIsCall ==
    ASSUME LoopInv, NEW c \in ToSet(queue)
    PROVE  c \in Calls
<1>1. queue \in Seq(Calls)
  BY LoopFacts
<1> QED
  BY <1>1 DEF ToSet

\* A step of the loop asks the permission service once, or not at all.
LEMMA LoopAsks ==
    ASSUME LoopInv, LoopStep
    PROVE  [PermNext]_permVars
<1>0. run \in Runs /\ {"allowed", "denied", "pending", "blocked"} = Verdicts
  BY LoopFacts DEF Verdicts
<1>1. ASSUME NEW c \in ToSet(queue), NEW v \in Verdicts, Authorize(run, c, v)
      PROVE  PermNext
  BY <1>0, <1>1, AuthorizedIsCall DEF PermNext
<1>2. ASSUME NEW c \in ToSet(queue),
             \/ SkipCall(c) \/ RedirectCall(c) \/ ParkCall(c) \/ RefuseCall(c) \/ BlockCall(c)
             \/ DispatchCall(c)
      PROVE  [PermNext]_permVars
  BY <1>0, <1>1, <1>2 DEF SkipCall, RedirectCall, ParkCall, RefuseCall, BlockCall, DispatchCall
<1>3. ASSUME NEW c \in ToSet(queue), NEW s \in ResultStatuses, ControlCall(c, s) \/ ResumeCall(c, s)
      PROVE  [PermNext]_permVars
  BY <1>0, <1>1, <1>3 DEF ControlCall, ResumeCall
<1>4. CASE \/ \E s \in {"blocked", "cancelled", "failed"} : LeaveBeforeCalls(s)
           \/ EmptyTurn \/ AnswerTurn \/ CallTurn \/ EndOfTurn \/ BeginResume \/ RunAgain
           \/ \E s \in ResultStatuses : FinishCall(s)
  BY <1>4 DEF LeaveBeforeCalls, EmptyTurn, AnswerTurn, CallTurn, EndOfTurn, BeginResume, RunAgain,
              FinishCall
<1> QED
  BY <1>2, <1>3, <1>4 DEF LoopStep

\* So does every other step: an answer resolves the request the run is parked on.
LEMMA LoopUsesPermissions ==
    ASSUME LoopInv, [Next]_vars
    PROVE  [PermNext]_permVars
<1>1. ASSUME NEW kind \in UserDecisions, AnswerRequest(kind) PROVE PermNext
  <2>1. <<run, parked>> \in Keys /\ kind \in Decisions
    BY <1>1, LoopFacts, AgentLoopAssumption DEF AnswerRequest, Keys
  <2>2. Resolve(<<run, parked>>, kind)
    BY <1>1 DEF AnswerRequest
  <2> QED
    BY <2>1, <2>2 DEF PermNext
<1>2. CASE SignalCancel \/ UNCHANGED vars
  BY <1>2 DEF SignalCancel, vars
<1> QED
  BY <1>1, <1>2, LoopAsks DEF Next

\* The permission service under the loop is the one of PermissionService: what is
\* proved of that one alone holds here, with calls, resumptions and ids that recur.
THEOREM LoopImplementsPermissions == Spec => PermSpec
<1>1. Init => PermInit
  BY DEF Init
<1>2. LoopInv /\ [Next]_vars => [PermNext]_permVars
  BY LoopUsesPermissions
<1> QED
  BY <1>1, <1>2, LoopInvariant, PTL DEF Spec, PermSpec

\* While the loop runs, parks and resumes, the first decision of a request stays,
\* and an answer after the deadline allows nothing.
THEOREM LoopDecisionsHold == Spec => DecisionFinal /\ LateMeansExpired
  BY LoopImplementsPermissions, FirstDecisionStays, LateAnswersExpire
=============================================================================
