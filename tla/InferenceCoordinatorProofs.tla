--------------------- MODULE InferenceCoordinatorProofs ---------------------
(***************************************************************************)
(* Mutual exclusion of memory work and foreground work, for any number of  *)
(* callers and workers.  Admission reads two counters, so Exclusive is not *)
(* inductive by itself: it needs that the counters equal the numbers of    *)
(* threads inside and waiting (CountersExact), which is carried along.     *)
(***************************************************************************)
EXTENDS InferenceCoordinator, FiniteSetTheorems, TLAPS

IInv == TypeOK /\ CountersExact /\ Exclusive /\ HolderTold

\* The regions are finite sets, and an empty one is what a zero counter means.
LEMMA RegionsFinite ==
    /\ IsFiniteSet(Inside) /\ IsFiniteSet(Parked)
    /\ Cardinality(Inside) = 0 <=> Inside = {}
    /\ Cardinality(Parked) = 0 <=> Parked = {}
    /\ Cardinality(Inside) \in Nat /\ Cardinality(Parked) \in Nat
<1>1. Inside \in SUBSET Callers /\ Parked \in SUBSET Callers
  BY DEF Inside, Parked
<1>2. IsFiniteSet(Inside) /\ IsFiniteSet(Parked)
  BY <1>1, ActorsAssumption, FS_Subset
<1> QED
  BY <1>2, FS_EmptySet, FS_CardinalityType

\* Exact counters are natural numbers, after a step too.
LEMMA CountersNat ==
    /\ CountersExact => foreground \in Nat /\ waiting \in Nat
    /\ CountersExact' => foreground' \in Nat /\ waiting' \in Nat
<1>1. CountersExact => foreground \in Nat /\ waiting \in Nat
  BY RegionsFinite DEF CountersExact
<1>2. (CountersExact => foreground \in Nat /\ waiting \in Nat)'
  BY <1>1, PTL
<1> QED
  BY <1>1, <1>2

\* A caller that changes region moves one unit between the counted sets; the
\* counters of both regions change by exactly that.
LEMMA CallerMoves ==
    ASSUME TypeOK, NEW c \in Callers, NEW p \in {"outside", "waiting", "inside"},
           phase' = [phase EXCEPT ![c] = p]
    PROVE  /\ Inside' = IF p = "inside" THEN Inside \cup {c} ELSE Inside \ {c}
           /\ Parked' = IF p = "waiting" THEN Parked \cup {c} ELSE Parked \ {c}
           /\ Cardinality(Inside') =
                Cardinality(Inside)
                  + (IF p = "inside" THEN 1 ELSE 0)
                  - (IF phase[c] = "inside" THEN 1 ELSE 0)
           /\ Cardinality(Parked') =
                Cardinality(Parked)
                  + (IF p = "waiting" THEN 1 ELSE 0)
                  - (IF phase[c] = "waiting" THEN 1 ELSE 0)
<1>1. Inside' = IF p = "inside" THEN Inside \cup {c} ELSE Inside \ {c}
  BY DEF Inside, TypeOK
<1>2. Parked' = IF p = "waiting" THEN Parked \cup {c} ELSE Parked \ {c}
  BY DEF Parked, TypeOK
<1>3. (c \in Inside <=> phase[c] = "inside") /\ (c \in Parked <=> phase[c] = "waiting")
  BY DEF Inside, Parked
<1>4. /\ Cardinality(Inside \cup {c}) =
           IF c \in Inside THEN Cardinality(Inside) ELSE Cardinality(Inside) + 1
      /\ Cardinality(Inside \ {c}) =
           IF c \in Inside THEN Cardinality(Inside) - 1 ELSE Cardinality(Inside)
      /\ Cardinality(Parked \cup {c}) =
           IF c \in Parked THEN Cardinality(Parked) ELSE Cardinality(Parked) + 1
      /\ Cardinality(Parked \ {c}) =
           IF c \in Parked THEN Cardinality(Parked) - 1 ELSE Cardinality(Parked)
  BY RegionsFinite, FS_AddElement, FS_RemoveElement
<1>5. Cardinality(Inside) \in Int /\ Cardinality(Parked) \in Int
  BY RegionsFinite
<1>6. Cardinality(Inside') = Cardinality(Inside)
         + (IF p = "inside" THEN 1 ELSE 0) - (IF phase[c] = "inside" THEN 1 ELSE 0)
  <2>1. CASE p = "inside"
    BY <2>1, <1>1, <1>3, <1>4, <1>5
  <2>2. CASE p # "inside"
    BY <2>2, <1>1, <1>3, <1>4, <1>5
  <2> QED
    BY <2>1, <2>2
<1>7. Cardinality(Parked') = Cardinality(Parked)
         + (IF p = "waiting" THEN 1 ELSE 0) - (IF phase[c] = "waiting" THEN 1 ELSE 0)
  <2>1. CASE p = "waiting"
    BY <2>1, <1>2, <1>3, <1>4, <1>5
  <2>2. CASE p # "waiting"
    BY <2>2, <1>2, <1>3, <1>4, <1>5
  <2> QED
    BY <2>1, <2>2
<1> QED
  BY <1>1, <1>2, <1>6, <1>7

\* The invariant holds initially: nobody is inside and no lease is out.
LEMMA InitIInv == Init => IInv
<1> SUFFICES ASSUME Init PROVE IInv
  OBVIOUS
<1>1. TypeOK
  BY DEF Init, TypeOK
<1>2. Inside = {} /\ Parked = {}
  BY DEF Init, Inside, Parked
<1> QED
  BY <1>1, <1>2, RegionsFinite DEF Init, IInv, CountersExact, Exclusive, HolderTold

\* Every step of a caller keeps the invariant.
LEMMA CallerStepIInv ==
    ASSUME IInv, NEW c \in Callers, CallerStep(c)
    PROVE  IInv'
<1> USE DEF IInv
<1>1. CASE AdmitAtOnce(c)
  <2> phase' = [phase EXCEPT ![c] = "inside"] /\ phase[c] = "outside"
    BY <1>1 DEF AdmitAtOnce
  <2>1. TypeOK'
    BY <1>1 DEF TypeOK, AdmitAtOnce
  <2>2. Cardinality(Inside') = Cardinality(Inside) + 1 - 0
        /\ Cardinality(Parked') = Cardinality(Parked) + 0 - 0
    BY CallerMoves
  <2>3. CountersExact'
    BY <1>1, <2>2, RegionsFinite DEF AdmitAtOnce, CountersExact
  <2>4. Exclusive' /\ HolderTold'
    BY <1>1 DEF AdmitAtOnce, CountersExact, Exclusive, HolderTold
  <2> QED
    BY <2>1, <2>3, <2>4
<1>2. CASE AskForHandoff(c)
  <2>1. TypeOK'
    BY <1>2 DEF TypeOK, AskForHandoff
  <2>2. /\ Inside' = Inside
        /\ Cardinality(Inside') = foreground'
        /\ Cardinality(Parked') = waiting'
    <3>1. CASE door = "closed" \/ c \in stopped
      BY <1>2, <3>1 DEF AskForHandoff, Inside, Parked, CountersExact
    <3>2. CASE ~(door = "closed" \/ c \in stopped)
      <4>1. phase' = [phase EXCEPT ![c] = "waiting"] /\ phase[c] = "outside"
            /\ waiting' = waiting + 1
        BY <1>2, <3>2 DEF AskForHandoff
      <4>2. /\ Inside' = Inside \ {c} /\ c \notin Inside
            /\ Cardinality(Parked') = Cardinality(Parked) + 1 - 0
        BY <4>1, CallerMoves DEF Inside
      <4>3. Inside' = Inside
        BY <4>2
      <4>4. Cardinality(Parked') = waiting'
        BY <4>1, <4>2, RegionsFinite DEF CountersExact
      <4> QED
        BY <1>2, <4>3, <4>4 DEF AskForHandoff, CountersExact
    <3> QED
      BY <3>1, <3>2
  <2>3. CountersExact'
    BY <1>2, <2>2 DEF AskForHandoff, CountersExact
  <2>4. Exclusive' /\ HolderTold'
    BY <1>2, <2>2 DEF AskForHandoff, Exclusive, HolderTold, TypeOK
  <2> QED
    BY <2>1, <2>3, <2>4
<1>3. CASE Handoff(c)
  <2> phase' = [phase EXCEPT ![c] = "inside"] /\ phase[c] = "waiting"
    BY <1>3 DEF Handoff
  <2>1. Cardinality(Inside') = Cardinality(Inside) + 1 - 0
        /\ Cardinality(Parked') = Cardinality(Parked) + 0 - 1
    BY CallerMoves
  <2>2. CountersExact'
    BY <1>3, <2>1, RegionsFinite DEF Handoff, CountersExact
  <2>3. TypeOK'
    BY <1>3, <2>2, CountersNat DEF TypeOK, Handoff
  <2>4. Exclusive' /\ HolderTold'
    BY <1>3 DEF Handoff, CountersExact, Exclusive, HolderTold
  <2> QED
    BY <2>2, <2>3, <2>4
<1>4. CASE Interrupt(c) \/ Timeout(c)
  <2>1. phase' = [phase EXCEPT ![c] = "outside"] /\ phase[c] = "waiting"
        /\ waiting' = waiting - 1
        /\ UNCHANGED <<foreground, memory, told, door, holding>>
    BY <1>4 DEF Interrupt, Timeout
  <2>2. Inside' \subseteq Inside /\ Parked' \subseteq Parked
    BY <2>1, CallerMoves
  <2>3. Cardinality(Inside') = Cardinality(Inside) + 0 - 0
        /\ Cardinality(Parked') = Cardinality(Parked) + 0 - 1
    BY <2>1, CallerMoves
  <2>4. CountersExact'
    BY <2>1, <2>3, RegionsFinite DEF CountersExact
  <2>5. TypeOK'
    BY <1>4, <2>4, CountersNat DEF TypeOK, Interrupt, Timeout
  <2>6. Exclusive' /\ HolderTold'
    BY <2>1, <2>2 DEF Exclusive, HolderTold
  <2> QED
    BY <2>4, <2>5, <2>6
<1>5. CASE ReleaseForeground(c)
  <2> phase' = [phase EXCEPT ![c] = "outside"] /\ phase[c] = "inside"
    BY <1>5 DEF ReleaseForeground
  <2>1. Inside' \subseteq Inside /\ Parked' \subseteq Parked
    BY CallerMoves
  <2>2. Cardinality(Inside') = Cardinality(Inside) + 0 - 1
        /\ Cardinality(Parked') = Cardinality(Parked) + 0 - 0
    BY CallerMoves
  <2>3. CountersExact'
    BY <1>5, <2>2, RegionsFinite DEF ReleaseForeground, CountersExact
  <2>4. TypeOK'
    BY <1>5, <2>3, CountersNat DEF TypeOK, ReleaseForeground
  <2>5. Exclusive' /\ HolderTold'
    BY <1>5, <2>1 DEF ReleaseForeground, Exclusive, HolderTold
  <2> QED
    BY <2>3, <2>4, <2>5
<1>6. CASE Stop(c) \/ FreshStop(c)
  <2>1. TypeOK'
    BY <1>6 DEF TypeOK, Stop, FreshStop
  <2>2. UNCHANGED <<foreground, waiting, memory, told, door, phase, holding>>
    BY <1>6 DEF Stop, FreshStop
  <2>3. Inside' = Inside /\ Parked' = Parked
    BY <2>2 DEF Inside, Parked
  <2> QED
    BY <2>1, <2>2, <2>3 DEF CountersExact, Exclusive, HolderTold
<1> QED
  BY <1>1, <1>2, <1>3, <1>4, <1>5, <1>6 DEF CallerStep

\* Every other step keeps it: workers, pause, close and the clock move no caller.
LEMMA OtherStepIInv ==
    ASSUME IInv,
           \/ \E w \in Workers : WorkerStep(w)
           \/ PauseMemory \/ Close \/ IdleElapsed
           \/ UNCHANGED vars
    PROVE  IInv'
<1> USE DEF IInv
<1>0. UNCHANGED <<foreground, waiting, phase>> /\ Inside' = Inside /\ Parked' = Parked
  BY DEF WorkerStep, AcquireMemory, ReleaseMemory, PauseMemory, Close, IdleElapsed, vars,
         Inside, Parked
<1>1. ASSUME NEW w \in Workers, NEW manual \in BOOLEAN, AcquireMemory(w, manual)
      PROVE  IInv'
  <2>1. TypeOK'
    BY <1>1 DEF TypeOK, AcquireMemory
  <2>2. Inside = {} /\ Parked = {}
    BY <1>1, RegionsFinite DEF AcquireMemory, CountersExact
  <2>3. holding = {} /\ holding' = {w} /\ memory' = w
    BY <1>1 DEF AcquireMemory, CountersExact
  <2>4. w # NoWorker
    BY ActorsAssumption
  <2>5. door' = "open"
    BY <1>1 DEF AcquireMemory, TypeOK
  <2> QED
    BY <1>0, <2>1, <2>2, <2>3, <2>4, <2>5 DEF CountersExact, Exclusive, HolderTold
<1>2. ASSUME NEW w \in Workers, ReleaseMemory(w)
      PROVE  IInv'
  <2>1. TypeOK'
    BY <1>2 DEF TypeOK, ReleaseMemory
  <2>2. holding' = {} /\ memory' = NoWorker
    BY <1>2 DEF ReleaseMemory, CountersExact
  <2> QED
    BY <1>0, <2>1, <2>2 DEF CountersExact, Exclusive, HolderTold
<1>3. CASE PauseMemory \/ Close
  <2>1. TypeOK'
    BY <1>3 DEF TypeOK, PauseMemory, Close
  <2>2. UNCHANGED <<memory, holding>>
    BY <1>3 DEF PauseMemory, Close
  <2>3. CountersExact' /\ Exclusive'
    BY <1>0, <2>2 DEF CountersExact, Exclusive
  <2>4. HolderTold'
    BY <1>0, <1>3, <2>2 DEF PauseMemory, Close, HolderTold, TypeOK
  <2> QED
    BY <2>1, <2>3, <2>4
<1>4. CASE IdleElapsed \/ UNCHANGED vars
  <2>1. TypeOK'
    BY <1>4 DEF TypeOK, IdleElapsed, vars
  <2>2. UNCHANGED <<memory, told, door, holding>>
    BY <1>4 DEF IdleElapsed, vars
  <2> QED
    BY <1>0, <2>1, <2>2 DEF CountersExact, Exclusive, HolderTold
<1> QED
  BY <1>1, <1>2, <1>3, <1>4 DEF WorkerStep

\* The conjunction is inductive.
THEOREM InductiveInvariant == Spec => []IInv
<1>1. IInv /\ [Next]_vars => IInv'
  BY CallerStepIInv, OtherStepIInv DEF Next
<1> QED
  BY InitIInv, <1>1, PTL DEF Spec

\* Type correctness of the coordinator.
THEOREM TypeCorrect == Spec => []TypeOK
BY InductiveInvariant, PTL DEF IInv

\* Memory work and foreground work never overlap, and no two memory leases do:
\* the promise in the header of inference_coordinator.py.
THEOREM MutualExclusion == Spec => []Exclusive
BY InductiveInvariant, PTL DEF IInv

\* The counters are exact, however callers leave.
THEOREM CountersCorrect == Spec => []CountersExact
BY InductiveInvariant, PTL DEF IInv

\* A worker that is being waited for, or that holds the lease of a closed
\* coordinator, has been told to stop.
THEOREM HolderIsTold == Spec => []HolderTold
BY InductiveInvariant, PTL DEF IInv

\* After close() nobody is let in.
THEOREM ClosedLetsNobodyIn == Spec => NoEntryAfterClose
<1>1. TypeOK /\ [Next]_vars => [door = "closed" => (Inside' \subseteq Inside /\ holding' \subseteq holding)]_vars
  <2> SUFFICES ASSUME TypeOK, Next, door = "closed"
               PROVE  Inside' \subseteq Inside /\ holding' \subseteq holding
    BY DEF vars
  <2>0. door # "open"
    OBVIOUS
  <2>1. ASSUME NEW c \in Callers, CallerStep(c)
        PROVE  Inside' \subseteq Inside /\ holding' \subseteq holding
    <3>1. holding' = holding
          /\ \/ phase' = phase
             \/ phase' = [phase EXCEPT ![c] = "outside"]
             \/ phase' = [phase EXCEPT ![c] = "waiting"]
      BY <2>1, <2>0 DEF CallerStep, AdmitAtOnce, AskForHandoff, Handoff, Interrupt, Timeout,
                        ReleaseForeground, Stop, FreshStop
    <3>2. Inside' \subseteq Inside
      BY <3>1 DEF Inside, TypeOK
    <3> QED
      BY <3>1, <3>2
  <2>2. ASSUME NEW w \in Workers, WorkerStep(w)
        PROVE  Inside' \subseteq Inside /\ holding' \subseteq holding
    BY <2>2 DEF WorkerStep, AcquireMemory, ReleaseMemory, Inside
  <2>3. CASE PauseMemory \/ Close \/ IdleElapsed
    BY <2>3 DEF PauseMemory, Close, IdleElapsed, Inside
  <2> QED
    BY <2>1, <2>2, <2>3 DEF Next
<1> QED
  BY TypeCorrect, <1>1, PTL DEF Spec, NoEntryAfterClose
=============================================================================
