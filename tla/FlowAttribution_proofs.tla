----------------------- MODULE FlowAttribution_proofs -----------------------
(***************************************************************************)
(* Proofs about the NetFlow collector behind the ingest limiter.           *)
(*                                                                         *)
(* The limiter's part comes first: for every number of slots and any set   *)
(* of datagrams, the slots are never over-committed and none idles while a *)
(* task waits; and the tasks that wait form a line, which a task joins at  *)
(* its end and leaves from its front, although the line is spread over the *)
(* queue and the microtasks.  The rest is about what is remembered from    *)
(* one datagram to the next.                                               *)
(***************************************************************************)
EXTENDS FlowAttribution, FiniteSetTheorems, SequenceTheorems, TLAPS

-----------------------------------------------------------------------------
(* The slots.                                                              *)

Inv == TypeOK /\ SlotsInv

LEMMA InvInit == Init => Inv
<1> SUFFICES ASSUME Init
             PROVE  Inv
  OBVIOUS
<1>1. Holding = {} /\ Woken = {}
  BY DEF Init, Holding, Woken, In
<1>2. TypeOK
  BY DEF Init, TypeOK, Phases
<1> QED
  BY <1>1, <1>2, FS_EmptySet, MaxOK
  DEF Inv, SlotsInv, Init, WaitersQueued, WokenAreDue, Counted, Bounded

\* The cardinalities that the counts are about are numbers.
LEMMA CountsAreNumbers ==
  ASSUME Inv
  PROVE  /\ Cardinality(Holding) \in Nat
         /\ Cardinality(Woken) \in Nat
BY FS_CardinalityType DEF Inv, SlotsInv, Counted

\* With no microtask due, no task is between being woken and taking its slot.
LEMMA NoneWoken ==
  ASSUME Inv, micro = <<>>
  PROVE  Woken = {} /\ Cardinality(Woken) = 0
<1>1. Woken = {}
  BY DEF Inv, SlotsInv, WokenAreDue, Woken, In
<1> QED
  BY <1>1, FS_EmptySet

\* A datagram that finds a free slot starts at once.
LEMMA ArriveStarts ==
  ASSUME Inv, NEW t \in Tasks, Arrive(t), ~Full
  PROVE  Inv'
<1>1. /\ st[t] = "new" /\ micro = <<>> /\ micro' = micro /\ queue' = queue
      /\ active' = active + 1 /\ st' = [st EXCEPT ![t] = "running"]
  BY DEF Arrive, Start
<1>2. TypeOK'
  BY <1>1, AppendProperties DEF Inv, TypeOK, Phases
<1>3. Holding' = Holding \union {t} /\ t \notin Holding /\ Woken' = Woken
  BY <1>1 DEF Inv, TypeOK, Holding, Woken, In
<1>4. /\ IsFiniteSet(Holding')
      /\ Cardinality(Holding') = Cardinality(Holding) + 1
  BY <1>3, FS_AddElement DEF Inv, SlotsInv, Counted
<1>5. active < Max
  BY MaxOK DEF Full, Inv, TypeOK
<1>6. queue = <<>>
  BY <1>1, <1>5, NoneWoken, CountsAreNumbers, MaxOK DEF Inv, SlotsInv, Counted
<1>7. Counted' /\ Bounded'
  BY <1>1, <1>3, <1>4, <1>5, <1>6, NoneWoken, CountsAreNumbers, MaxOK
  DEF Inv, SlotsInv, Counted, Bounded
<1>8. WaitersQueued' /\ WokenAreDue'
  BY <1>1, <1>6 DEF Inv, SlotsInv, TypeOK, WaitersQueued, WokenAreDue
<1> QED
  BY <1>2, <1>7, <1>8 DEF Inv, SlotsInv

\* A datagram that finds none waits at the end of the queue.
LEMMA ArriveWaits ==
  ASSUME Inv, NEW t \in Tasks, Arrive(t), Full
  PROVE  Inv'
<1>1. /\ st[t] = "new" /\ micro = <<>> /\ micro' = micro
      /\ queue' = Append(queue, t)
      /\ active' = active /\ st' = [st EXCEPT ![t] = "queued"]
  BY DEF Arrive, Enqueue
<1>2. TypeOK'
  BY <1>1, AppendProperties DEF Inv, TypeOK, Phases
<1>3. Holding' = Holding /\ Woken' = Woken
  BY <1>1 DEF Inv, TypeOK, Holding, Woken, In
<1>4. Cardinality(Holding) = Max
  BY NoneWoken, <1>1, CountsAreNumbers, MaxOK
  DEF Full, Inv, SlotsInv, Counted, Bounded
<1>5. Counted' /\ Bounded'
  BY <1>1, <1>3, <1>4, NoneWoken, MaxOK DEF Inv, SlotsInv, Counted, Bounded
<1>6. WokenAreDue'
  BY <1>1 DEF Inv, SlotsInv, TypeOK, WokenAreDue
<1>7. /\ Len(queue) \in Nat /\ Len(queue') = Len(queue) + 1
      /\ \A i \in 1..Len(queue) : queue'[i] = queue[i]
      /\ queue'[Len(queue) + 1] = t
      /\ \A i \in 1..Len(queue) : queue[i] \in Tasks
  BY <1>1, AppendProperties, LenProperties, ElementOfSeq DEF Inv, TypeOK
<1>8. \A i \in 1..Len(queue) : queue[i] # t /\ st'[queue[i]] = "queued"
  BY <1>1, <1>7 DEF Inv, SlotsInv, TypeOK, WaitersQueued
<1>9. WaitersQueued'
  <2>1. \A i \in 1..Len(queue') : i \in 1..Len(queue) \/ i = Len(queue) + 1
    BY <1>7
  <2>2. st'[t] = "queued"
    BY <1>1 DEF Inv, TypeOK
  <2>3. \A i \in 1..Len(queue') : st'[queue'[i]] = "queued"
    BY <1>7, <1>8, <2>1, <2>2
  <2>4. \A i, j \in 1..Len(queue') : queue'[i] = queue'[j] => i = j
    BY <1>7, <1>8, <2>1 DEF Inv, SlotsInv, WaitersQueued
  <2> QED
    BY <2>3, <2>4 DEF WaitersQueued
<1> QED
  BY <1>2, <1>5, <1>6, <1>9 DEF Inv, SlotsInv

\* A body that settles keeps its slot until its `finally` runs.
LEMMA SettleKeeps ==
  ASSUME Inv, NEW t \in Tasks, Settle(t)
  PROVE  Inv'
<1>1. PICK outcome \in {"returned", "threw"} :
        /\ st[t] = "running" /\ st' = [st EXCEPT ![t] = outcome]
        /\ micro' = Append(micro, t)
        /\ queue' = queue /\ active' = active
  BY DEF Settle
<1>2. TypeOK'
  BY <1>1, AppendProperties DEF Inv, TypeOK, Phases
<1>3. Holding' = Holding /\ Woken' = Woken
  BY <1>1 DEF Inv, TypeOK, Holding, Woken, In
<1>4. Counted' /\ Bounded'
  BY <1>1, <1>3 DEF Inv, SlotsInv, Counted, Bounded
<1>5. \A i \in 1..Len(queue) : queue[i] \in Tasks
  BY ElementOfSeq DEF Inv, TypeOK
<1>6. WaitersQueued'
  BY <1>1, <1>5 DEF Inv, SlotsInv, TypeOK, WaitersQueued
<1>7. /\ Len(micro) \in Nat /\ Len(micro') = Len(micro) + 1
      /\ \A i \in 1..Len(micro) : micro'[i] = micro[i]
  BY <1>1, AppendProperties, LenProperties DEF Inv, TypeOK
<1>8. \A u \in Tasks : st'[u] = "woken" => st[u] = "woken"
  BY <1>1 DEF Inv, TypeOK
<1>9. WokenAreDue'
  BY <1>7, <1>8 DEF Inv, SlotsInv, WokenAreDue
<1> QED
  BY <1>2, <1>4, <1>6, <1>9 DEF Inv, SlotsInv

\* The microtask that runs leaves the others due.
LEMMA OthersStayDue ==
  ASSUME Inv, micro # <<>>, NEW u \in Tasks, st[u] = "woken", u # Head(micro)
  PROVE  \E i \in 1..Len(Tail(micro)) : Tail(micro)[i] = u
<1>1. PICK i \in 1..Len(micro) : micro[i] = u
  BY DEF Inv, SlotsInv, WokenAreDue
<1>2. i # 1
  BY <1>1
<1>3. /\ Len(micro) \in Nat /\ Len(Tail(micro)) = Len(micro) - 1
      /\ \A j \in 1..Len(Tail(micro)) : Tail(micro)[j] = micro[j + 1]
  BY HeadTailProperties, LenProperties DEF Inv, TypeOK
<1> QED
  BY <1>1, <1>2, <1>3

\* A slot is freed that nobody waits for.
LEMMA FinallyFrees ==
  ASSUME Inv, NEW t \in Tasks, Finally(t), queue = <<>>
  PROVE  Inv'
<1>1. /\ micro # <<>> /\ t = Head(micro) /\ st[t] \in {"returned", "threw"}
      /\ st' = [st EXCEPT ![t] = "done"] /\ micro' = Tail(micro)
      /\ queue' = queue /\ active' = active - 1
  BY DEF Finally, Frees, Freed
<1>2. Holding' = Holding \ {t} /\ t \in Holding /\ Woken' = Woken
  BY <1>1 DEF Inv, TypeOK, Holding, Woken, In
<1>3. IsFiniteSet(Holding') /\ Cardinality(Holding') = Cardinality(Holding) - 1
  BY <1>2, FS_RemoveElement DEF Inv, SlotsInv, Counted
<1>4. Cardinality(Holding') \in Nat
  BY <1>3, FS_CardinalityType
<1>5. TypeOK'
  BY <1>1, <1>3, <1>4, HeadTailProperties DEF Inv, SlotsInv, Counted, TypeOK, Phases
<1>6. Counted' /\ Bounded'
  BY <1>1, <1>2, <1>3, CountsAreNumbers, MaxOK DEF Inv, SlotsInv, Counted, Bounded
<1>7. WaitersQueued'
  BY <1>1 DEF WaitersQueued
<1>8. WokenAreDue'
  BY <1>1, OthersStayDue DEF Inv, TypeOK, WokenAreDue
<1> QED
  BY <1>5, <1>6, <1>7, <1>8 DEF Inv, SlotsInv

\* A slot is freed and promised to the first waiter at once.
LEMMA FinallyWakes ==
  ASSUME Inv, NEW t \in Tasks, Finally(t), queue # <<>>
  PROVE  Inv'
<1> DEFINE w == Head(queue)
<1>1. /\ micro # <<>> /\ t = Head(micro) /\ st[t] \in {"returned", "threw"}
      /\ st' = [st EXCEPT ![t] = "done", ![w] = "woken"]
      /\ micro' = Append(Tail(micro), w)
      /\ queue' = Tail(queue) /\ active' = active - 1
  BY DEF Finally, Frees, Freed
<1>2. /\ Len(queue) \in Nat \ {0} /\ w = queue[1] /\ w \in Tasks
      /\ Len(queue') = Len(queue) - 1
      /\ \A i \in 1..Len(queue') : queue'[i] = queue[i + 1]
      /\ \A i \in 1..Len(queue) : queue[i] \in Tasks
  BY <1>1, EmptySeq, HeadTailProperties, ElementOfSeq DEF Inv, TypeOK
<1>3. st[w] = "queued" /\ w # t
  BY <1>1, <1>2 DEF Inv, SlotsInv, WaitersQueued
<1>4. /\ Tail(micro) \in Seq(Tasks) /\ micro' \in Seq(Tasks)
      /\ Len(Tail(micro)) \in Nat /\ Len(micro') = Len(Tail(micro)) + 1
      /\ \A i \in 1..Len(Tail(micro)) : micro'[i] = Tail(micro)[i]
      /\ micro'[Len(Tail(micro)) + 1] = w
  BY <1>1, <1>2, HeadTailProperties, AppendProperties, LenProperties DEF Inv, TypeOK
<1> HIDE DEF w
<1>5. /\ Holding' = Holding \ {t} /\ t \in Holding
      /\ Woken' = Woken \union {w} /\ w \notin Woken
  BY <1>1, <1>2, <1>3 DEF Inv, TypeOK, Holding, Woken, In
<1>6. IsFiniteSet(Holding') /\ Cardinality(Holding') = Cardinality(Holding) - 1
  BY <1>5, FS_RemoveElement DEF Inv, SlotsInv, Counted
<1>7. IsFiniteSet(Woken') /\ Cardinality(Woken') = Cardinality(Woken) + 1
  BY <1>5, FS_AddElement DEF Inv, SlotsInv, Counted
<1>8. Cardinality(Holding') \in Nat
  BY <1>6, FS_CardinalityType
<1>9. TypeOK'
  <2>1. st' \in [Tasks -> Phases]
    BY <1>1 DEF Inv, TypeOK, Phases
  <2>2. active' \in Nat
    BY <1>1, <1>6, <1>8 DEF Inv, SlotsInv, Counted
  <2>3. queue' \in Seq(Tasks)
    BY <1>1, HeadTailProperties DEF Inv, TypeOK
  <2> QED
    BY <1>1, <1>4, <2>1, <2>2, <2>3 DEF Inv, TypeOK
<1>10. Counted' /\ Bounded'
  BY <1>1, <1>6, <1>7, CountsAreNumbers, MaxOK DEF Inv, SlotsInv, Counted, Bounded
<1>11. WaitersQueued'
  <2>1. \A i \in 1..Len(queue') : i + 1 \in 1..Len(queue) /\ i + 1 # 1
    BY <1>2
  <2>2. \A i \in 1..Len(queue') : queue'[i] # w /\ st[queue'[i]] = "queued"
    BY <1>2, <2>1 DEF Inv, SlotsInv, WaitersQueued
  <2>3. \A i \in 1..Len(queue') : st'[queue'[i]] = "queued"
    BY <1>1, <1>2, <2>1, <2>2 DEF Inv, TypeOK
  <2>4. \A i, j \in 1..Len(queue') : queue'[i] = queue'[j] => i = j
    BY <1>2, <2>1 DEF Inv, SlotsInv, WaitersQueued
  <2> QED
    BY <2>3, <2>4 DEF WaitersQueued
<1>12. ASSUME NEW u \in Tasks, st'[u] = "woken"
       PROVE  \E i \in 1..Len(micro') : micro'[i] = u
  <2>1. CASE u = w
    BY <1>4, <2>1
  <2>2. CASE u # w
    <3>1. st[u] = "woken" /\ u # t
      BY <1>1, <1>12, <2>2 DEF Inv, TypeOK
    <3>2. PICK i \in 1..Len(Tail(micro)) : Tail(micro)[i] = u
      BY <1>1, <3>1, OthersStayDue
    <3>3. i \in 1..Len(micro') /\ micro'[i] = u
      BY <1>4, <3>2
    <3> QED
      BY <3>3
  <2> QED
    BY <2>1, <2>2
<1> QED
  BY <1>9, <1>10, <1>11, <1>12 DEF Inv, SlotsInv, WokenAreDue

\* A woken task takes the slot promised to it.
LEMMA ResumeTakes ==
  ASSUME Inv, NEW t \in Tasks, Resume(t)
  PROVE  Inv'
<1>1. /\ micro # <<>> /\ t = Head(micro) /\ st[t] = "woken"
      /\ st' = [st EXCEPT ![t] = "running"] /\ micro' = Tail(micro)
      /\ queue' = queue /\ active' = active + 1
  BY DEF Resume, Start
<1>2. TypeOK'
  BY <1>1, HeadTailProperties, AppendProperties DEF Inv, TypeOK, Phases
<1>3. /\ Holding' = Holding \union {t} /\ t \notin Holding
      /\ Woken' = Woken \ {t} /\ t \in Woken
  BY <1>1 DEF Inv, TypeOK, Holding, Woken, In
<1>4. IsFiniteSet(Holding') /\ Cardinality(Holding') = Cardinality(Holding) + 1
  BY <1>3, FS_AddElement DEF Inv, SlotsInv, Counted
<1>5. IsFiniteSet(Woken') /\ Cardinality(Woken') = Cardinality(Woken) - 1
  BY <1>3, FS_RemoveElement DEF Inv, SlotsInv, Counted
<1>6. Counted'
  BY <1>1, <1>4, <1>5, CountsAreNumbers, MaxOK DEF Inv, SlotsInv, Counted
<1>7. Bounded'
  BY <1>4, <1>5, CountsAreNumbers, MaxOK DEF Inv, SlotsInv, Bounded
<1>8. \A i \in 1..Len(queue) : queue[i] \in Tasks
  BY ElementOfSeq DEF Inv, TypeOK
<1>9. WaitersQueued'
  BY <1>1, <1>8 DEF Inv, SlotsInv, TypeOK, WaitersQueued
<1>10. WokenAreDue'
  BY <1>1, OthersStayDue DEF Inv, TypeOK, WokenAreDue
<1> QED
  BY <1>2, <1>6, <1>7, <1>9, <1>10 DEF Inv, SlotsInv

LEMMA InvNext == Inv /\ [Next]_vars => Inv'
<1> SUFFICES ASSUME Inv, [Next]_vars
             PROVE  Inv'
  OBVIOUS
<1>1. CASE UNCHANGED vars
  BY <1>1 DEF vars, Inv, TypeOK, SlotsInv, WaitersQueued, WokenAreDue, Counted,
              Bounded, Holding, Woken, In
<1>2. ASSUME NEW t \in Tasks, Arrive(t)
      PROVE  Inv'
  BY <1>2, ArriveStarts, ArriveWaits
<1>3. ASSUME NEW t \in Tasks, Settle(t)
      PROVE  Inv'
  BY <1>3, SettleKeeps
<1>4. ASSUME NEW t \in Tasks, Finally(t)
      PROVE  Inv'
  BY <1>4, FinallyFrees, FinallyWakes
<1>5. ASSUME NEW t \in Tasks, Resume(t)
      PROVE  Inv'
  BY <1>5, ResumeTakes
<1> QED
  BY <1>1, <1>2, <1>3, <1>4, <1>5 DEF Next

\* The slots are never over-committed, whatever settles in the same turn.
THEOREM SlotsBounded == Spec => []Bounded
<1>1. Inv => Bounded
  BY DEF Inv, SlotsInv
<1> QED
  BY <1>1, InvInit, InvNext, PTL DEF Spec

\* While a task waits and no microtask is due, every slot is held.
THEOREM SlotsInUse == Spec => []NoIdleSlot
<1>1. Inv => NoIdleSlot
  BY NoneWoken, CountsAreNumbers, MaxOK DEF NoIdleSlot, Inv, SlotsInv, Counted
<1> QED
  BY <1>1, InvInit, InvNext, PTL DEF Spec

-----------------------------------------------------------------------------
(* The line.                                                               *)

LEMMA AppendPrecedes ==
  ASSUME NEW S, NEW seq \in Seq(S), NEW t \in S, NEW v, NEW w
  PROVE  /\ v # t /\ w # t => (Precedes(Append(seq, t), v, w) <=> Precedes(seq, v, w))
         /\ (\E i \in 1..Len(seq) : seq[i] = v) => Precedes(Append(seq, t), v, t)
         /\ (\A i \in 1..Len(seq) : seq[i] # t) => ~Precedes(Append(seq, t), t, w)
<1> DEFINE longer == Append(seq, t)
<1>1. /\ Len(seq) \in Nat /\ Len(longer) = Len(seq) + 1
      /\ \A i \in 1..Len(seq) : longer[i] = seq[i]
      /\ longer[Len(seq) + 1] = t
  OBVIOUS
<1> HIDE DEF longer
<1>2. ASSUME v # t, w # t
      PROVE  Precedes(longer, v, w) <=> Precedes(seq, v, w)
  <2>1. ASSUME Precedes(longer, v, w)
        PROVE  Precedes(seq, v, w)
    <3>1. PICK i, j \in 1..Len(longer) : i < j /\ longer[i] = v /\ longer[j] = w
      BY <2>1 DEF Precedes
    <3>2. i \in 1..Len(seq) /\ j \in 1..Len(seq)
      BY <1>1, <1>2, <3>1
    <3> QED
      BY <1>1, <3>1, <3>2 DEF Precedes
  <2>2. ASSUME Precedes(seq, v, w)
        PROVE  Precedes(longer, v, w)
    <3>1. PICK i, j \in 1..Len(seq) : i < j /\ seq[i] = v /\ seq[j] = w
      BY <2>2 DEF Precedes
    <3>2. i \in 1..Len(longer) /\ j \in 1..Len(longer) /\ longer[i] = v /\ longer[j] = w
      BY <1>1, <3>1
    <3> QED
      BY <3>1, <3>2 DEF Precedes
  <2> QED
    BY <2>1, <2>2
<1>3. ASSUME NEW i \in 1..Len(seq), seq[i] = v
      PROVE  Precedes(longer, v, t)
  <2>1. /\ i \in 1..Len(longer) /\ Len(seq) + 1 \in 1..Len(longer) /\ i < Len(seq) + 1
        /\ longer[i] = v /\ longer[Len(seq) + 1] = t
    BY <1>1, <1>3
  <2> QED
    BY <2>1 DEF Precedes
<1>4. ASSUME \A i \in 1..Len(seq) : seq[i] # t, Precedes(longer, t, w)
      PROVE  FALSE
  <2>1. PICK i, j \in 1..Len(longer) : i < j /\ longer[i] = t /\ longer[j] = w
    BY <1>4 DEF Precedes
  <2>2. i \in 1..Len(seq)
    BY <1>1, <2>1
  <2> QED
    BY <1>1, <1>4, <2>1, <2>2
<1> QED
  BY <1>2, <1>3, <1>4 DEF longer

LEMMA TailPrecedes ==
  ASSUME NEW S, NEW seq \in Seq(S), seq # <<>>,
         \A i, j \in 1..Len(seq) : seq[i] = seq[j] => i = j, NEW v, NEW w
  PROVE  /\ v # Head(seq) => (Precedes(Tail(seq), v, w) <=> Precedes(seq, v, w))
         /\ ~Precedes(seq, v, Head(seq))
         /\ v # Head(seq) /\ (\E i \in 1..Len(seq) : seq[i] = v) => Precedes(seq, Head(seq), v)
         /\ \A i \in 1..Len(seq) : seq[i] # Head(seq) => \E j \in 1..Len(Tail(seq)) : Tail(seq)[j] = seq[i]
         /\ \A i \in 1..Len(Tail(seq)) : Tail(seq)[i] # Head(seq) /\ \E j \in 1..Len(seq) : seq[j] = Tail(seq)[i]
<1> DEFINE rest == Tail(seq)
<1>1. /\ Len(seq) \in Nat \ {0} /\ Len(rest) = Len(seq) - 1 /\ Head(seq) = seq[1]
      /\ \A i \in 1..Len(rest) : rest[i] = seq[i + 1]
  OBVIOUS
<1> HIDE DEF rest
<1>2. \A i \in 2..Len(seq) : i - 1 \in 1..Len(rest) /\ rest[i - 1] = seq[i]
  <2> SUFFICES ASSUME NEW i \in 2..Len(seq)
               PROVE  i - 1 \in 1..Len(rest) /\ rest[i - 1] = seq[i]
    OBVIOUS
  <2>1. i - 1 \in 1..Len(rest) /\ (i - 1) + 1 = i
    BY <1>1
  <2> QED
    BY <1>1, <2>1
<1>3. \A i \in 1..Len(seq) : seq[i] # Head(seq) => i \in 2..Len(seq)
  BY <1>1
<1>4. ASSUME v # Head(seq)
      PROVE  Precedes(rest, v, w) <=> Precedes(seq, v, w)
  <2>1. ASSUME Precedes(seq, v, w)
        PROVE  Precedes(rest, v, w)
    <3>1. PICK i, j \in 1..Len(seq) : i < j /\ seq[i] = v /\ seq[j] = w
      BY <2>1 DEF Precedes
    <3>2. i \in 2..Len(seq) /\ j \in 2..Len(seq)
      BY <1>1, <1>3, <1>4, <3>1
    <3>3. i - 1 < j - 1
      BY <3>1
    <3> QED
      BY <1>2, <3>1, <3>2, <3>3 DEF Precedes
  <2>2. ASSUME Precedes(rest, v, w)
        PROVE  Precedes(seq, v, w)
    <3>1. PICK i, j \in 1..Len(rest) : i < j /\ rest[i] = v /\ rest[j] = w
      BY <2>2 DEF Precedes
    <3>2. i + 1 \in 1..Len(seq) /\ j + 1 \in 1..Len(seq) /\ i + 1 < j + 1
          /\ seq[i + 1] = v /\ seq[j + 1] = w
      BY <1>1, <3>1
    <3> QED
      BY <3>2 DEF Precedes
  <2> QED
    BY <2>1, <2>2
<1>5. ~Precedes(seq, v, Head(seq))
  <2> SUFFICES ASSUME NEW i \in 1..Len(seq), NEW j \in 1..Len(seq), i < j, seq[j] = Head(seq)
               PROVE  FALSE
    BY DEF Precedes
  <2>1. 1 \in 1..Len(seq) /\ seq[1] = seq[j]
    BY <1>1
  <2>2. j = 1
    BY <2>1
  <2> QED
    BY <2>2
<1>6. ASSUME v # Head(seq), NEW i \in 1..Len(seq), seq[i] = v
      PROVE  Precedes(seq, Head(seq), v)
  <2>1. 1 \in 1..Len(seq) /\ 1 < i /\ seq[1] = Head(seq)
    BY <1>1, <1>6
  <2> QED
    BY <1>6, <2>1 DEF Precedes
<1>7. \A i \in 1..Len(seq) : seq[i] # Head(seq) => \E j \in 1..Len(rest) : rest[j] = seq[i]
  BY <1>2, <1>3
<1>8. ASSUME NEW i \in 1..Len(rest)
      PROVE  rest[i] # Head(seq) /\ \E j \in 1..Len(seq) : seq[j] = rest[i]
  <2>1. 1 \in 1..Len(seq) /\ i + 1 \in 1..Len(seq) /\ i + 1 # 1 /\ rest[i] = seq[i + 1]
    BY <1>1
  <2>2. seq[i + 1] # seq[1]
    BY <2>1
  <2> QED
    BY <1>1, <2>1, <2>2
<1> QED
  BY <1>4, <1>5, <1>6, <1>7, <1>8 DEF rest

LEMMA LineNow ==
  ASSUME NEW v, NEW w
  PROVE  /\ <<v, w>> \in Line <=> v \in Waiting /\ w \in Waiting /\ Before(v, w)
         /\ <<v, w>> \in Line' <=> v \in Waiting' /\ w \in Waiting' /\ Before(v, w)'
BY DEF Line

LEMMA WaitingNow ==
  ASSUME NEW t
  PROVE  /\ t \in Waiting <=> t \in Tasks /\ st[t] \in {"queued", "woken"}
         /\ t \in Waiting' <=> t \in Tasks /\ st'[t] \in {"queued", "woken"}
BY DEF Waiting, In

\* Nobody joins the line or leaves it...
Stays == Waiting' = Waiting /\ Line' = Line

\* ... t joins it, behind the others...
Joins(t) ==
  /\ t \in Tasks /\ t \notin Waiting /\ Waiting' = Waiting \union {t}
  /\ \A v, w \in Waiting : <<v, w>> \in Line' <=> <<v, w>> \in Line
  /\ \A v \in Waiting : <<v, t>> \in Line' /\ <<t, v>> \notin Line'
  /\ <<t, t>> \notin Line'

\* ... or t leaves it, from before the others.
Leaves(t) ==
  /\ t \in Waiting /\ Waiting' = Waiting \ {t}
  /\ \A v, w \in Waiting \ {t} : <<v, w>> \in Line' <=> <<v, w>> \in Line
  /\ \A v \in Waiting : <<v, t>> \notin Line
  /\ \A v \in Waiting \ {t} : <<t, v>> \in Line

Vacant == Waiting' = {}

LEMMA LineSame ==
  ASSUME Waiting' = Waiting, \A v, w \in Waiting : Before(v, w)' <=> Before(v, w)
  PROVE  Stays
<1>1. Line' = {pair \in Waiting \X Waiting : Before(pair[1], pair[2])'}
  BY DEF Line
<1>2. \A pair \in Waiting \X Waiting : Before(pair[1], pair[2])' <=> Before(pair[1], pair[2])
  OBVIOUS
<1> QED
  BY <1>1, <1>2 DEF Stays, Line

\* A datagram that finds a free slot finds nobody in the line.
LEMMA ArriveVacant ==
  ASSUME Inv, LineInv, NEW t \in Tasks, Arrive(t), ~Full
  PROVE  LineInv' /\ Waiting = {} /\ Vacant /\ st'[t] = "running"
<1>1. /\ st[t] = "new" /\ micro = <<>> /\ micro' = micro /\ queue' = queue
      /\ active' = active + 1 /\ st' = [st EXCEPT ![t] = "running"]
  BY DEF Arrive, Start
<1>2. queue = <<>>
  <2>1. Woken = {} /\ Cardinality(Woken) = 0
    BY <1>1, NoneWoken
  <2>2. Cardinality(Holding) \in Nat /\ active = Cardinality(Holding) /\ ~ active >= Max
    BY CountsAreNumbers DEF Inv, SlotsInv, Counted, Full
  <2> QED
    BY <2>1, <2>2, MaxOK DEF Inv, SlotsInv, Counted
<1>3. \A u \in Tasks : st[u] # "queued" /\ st[u] # "woken"
  <2>1. \A u \in Tasks : st[u] # "queued"
    BY <1>2 DEF LineInv
  <2>2. \A u \in Tasks : st[u] # "woken"
    BY <1>1 DEF Inv, SlotsInv, WokenAreDue
  <2> QED
    BY <2>1, <2>2
<1>4. st'[t] = "running" /\ \A u \in Tasks : st'[u] # "queued" /\ st'[u] # "woken"
  BY <1>1, <1>3 DEF Inv, TypeOK
<1>5. LineInv'
  BY <1>1, <1>4 DEF LineInv
<1> QED
  BY <1>3, <1>4, <1>5 DEF Vacant, Waiting, In

LEMMA ArriveJoins ==
  ASSUME Inv, LineInv, NEW t \in Tasks, Arrive(t), Full
  PROVE  LineInv' /\ Joins(t) /\ st'[t] = "queued"
<1>1. /\ st[t] = "new" /\ micro = <<>> /\ micro' = <<>> /\ queue' = Append(queue, t)
      /\ st' = [st EXCEPT ![t] = "queued"]
  BY DEF Arrive, Enqueue
<1>2. /\ st \in [Tasks -> Phases] /\ queue \in Seq(Tasks)
      /\ \A i \in 1..Len(queue) : st[queue[i]] = "queued"
  BY DEF Inv, TypeOK, SlotsInv, WaitersQueued
<1>3. st'[t] = "queued" /\ \A u \in Tasks \ {t} : st'[u] = st[u]
  BY <1>1, <1>2
<1>4. \A u \in Tasks : st[u] # "woken"
  BY <1>1 DEF Inv, SlotsInv, WokenAreDue
<1>5. \A i \in 1..Len(queue) : queue[i] # t
  BY <1>1, <1>2
<1>6. t \notin Waiting /\ Waiting' = Waiting \union {t}
  BY <1>1, <1>3 DEF Waiting, In
<1>7. \A v, w : /\ v # t /\ w # t => (Precedes(queue', v, w) <=> Precedes(queue, v, w))
                /\ (\E i \in 1..Len(queue) : queue[i] = v) => Precedes(queue', v, t)
                /\ ~Precedes(queue', t, w)
  BY <1>1, <1>2, <1>5, AppendPrecedes
<1>8. \A v \in Waiting : /\ v \in Tasks \ {t} /\ st[v] = "queued" /\ st'[v] = "queued"
                         /\ \E i \in 1..Len(queue) : queue[i] = v
  BY <1>1, <1>3, <1>4 DEF Waiting, In, LineInv
<1>9. \A v, w \in Waiting : Before(v, w)' <=> Before(v, w)
  <2> SUFFICES ASSUME NEW v \in Waiting, NEW w \in Waiting
               PROVE  Before(v, w)' <=> Before(v, w)
    OBVIOUS
  <2>1. st'[v] = "queued" /\ st'[w] = "queued" /\ st[v] = "queued" /\ st[w] = "queued" /\ v # t /\ w # t
    BY <1>8
  <2>2. Precedes(queue', v, w) <=> Precedes(queue, v, w)
    BY <1>7, <2>1
  <2>3. (Before(v, w) <=> Precedes(queue, v, w)) /\ (Before(v, w)' <=> Precedes(queue', v, w))
    BY <2>1 DEF Before, Precedes
  <2> QED
    BY <2>2, <2>3
<1>10. \A v \in Waiting : Before(v, t)' /\ ~Before(t, v)'
  <2> SUFFICES ASSUME NEW v \in Waiting
               PROVE  Before(v, t)' /\ ~Before(t, v)'
    OBVIOUS
  <2>1. st'[v] = "queued" /\ \E i \in 1..Len(queue) : queue[i] = v
    BY <1>8
  <2>2. Precedes(queue', v, t) /\ ~Precedes(queue', t, v)
    BY <1>7, <2>1
  <2>3. (Before(v, t)' <=> Precedes(queue', v, t)) /\ (Before(t, v)' <=> Precedes(queue', t, v))
    BY <1>3, <2>1 DEF Before, Precedes
  <2> QED
    BY <2>2, <2>3
<1>11. ~Before(t, t)'
  <2>1. Before(t, t)' <=> Precedes(queue', t, t)
    BY <1>3 DEF Before, Precedes
  <2> QED
    BY <1>7, <2>1
<1>12. Joins(t)
  BY <1>6, <1>9, <1>10, <1>11, LineNow, Zenon DEF Joins
<1>13. LineInv'
  <2>1. \A u \in Tasks : st'[u] = "queued" => \E i \in 1..Len(queue') : queue'[i] = u
    <3>1. /\ Len(queue) \in Nat /\ Len(queue') = Len(queue) + 1 /\ queue'[Len(queue) + 1] = t
          /\ \A i \in 1..Len(queue) : queue'[i] = queue[i]
      BY <1>1, <1>2
    <3>2. Len(queue) + 1 \in 1..Len(queue') /\ \A i \in 1..Len(queue) : i \in 1..Len(queue')
      BY <3>1
    <3>3. \A u \in Tasks \ {t} : st'[u] = "queued" => \E i \in 1..Len(queue) : queue[i] = u
      BY <1>3 DEF LineInv
    <3> QED
      BY <3>1, <3>2, <3>3
  <2> QED
    BY <1>1, <2>1 DEF LineInv
<1> QED
  BY <1>3, <1>12, <1>13

LEMMA SettleStays ==
  ASSUME Inv, LineInv, NEW t \in Tasks, Settle(t)
  PROVE  LineInv' /\ Stays
<1>1. PICK outcome \in {"returned", "threw"} :
        /\ st[t] = "running" /\ st' = [st EXCEPT ![t] = outcome]
        /\ micro' = Append(micro, t) /\ queue' = queue
  BY DEF Settle
<1>2. /\ st \in [Tasks -> Phases] /\ micro \in Seq(Tasks)
      /\ st'[t] = outcome /\ \A u \in Tasks \ {t} : st'[u] = st[u]
  BY <1>1 DEF Inv, TypeOK
<1>3. \A i \in 1..Len(micro) : micro[i] # t
  BY <1>1 DEF LineInv
<1>4. Waiting' = Waiting /\ t \notin Waiting
  BY <1>1, <1>2 DEF Waiting, In
<1>5. \A v, w \in Waiting : Before(v, w)' <=> Before(v, w)
  <2> SUFFICES ASSUME NEW v \in Waiting, NEW w \in Waiting
               PROVE  Before(v, w)' <=> Before(v, w)
    OBVIOUS
  <2>1. v # t /\ w # t /\ st'[v] = st[v] /\ st'[w] = st[w]
    BY <1>2, <1>4 DEF Waiting, In
  <2>2. Precedes(micro', v, w) <=> Precedes(micro, v, w)
    BY <1>1, <1>2, <2>1, AppendPrecedes
  <2> QED
    BY <1>1, <2>1, <2>2 DEF Before, Precedes
<1>6. LineInv'
  <2>1. /\ Len(micro) \in Nat /\ Len(micro') = Len(micro) + 1 /\ micro'[Len(micro) + 1] = t
        /\ \A i \in 1..Len(micro) : micro'[i] = micro[i] /\ micro[i] \in Tasks
    BY <1>1, <1>2
  <2>2. \A i \in 1..Len(micro') : i \in 1..Len(micro) \/ i = Len(micro) + 1
    BY <2>1
  <2>3. \A i \in 1..Len(micro') : st'[micro'[i]] \in {"woken", "returned", "threw"}
    BY <1>2, <1>3, <2>1, <2>2 DEF LineInv
  <2>4. \A i, j \in 1..Len(micro') : micro'[i] = micro'[j] => i = j
    BY <1>3, <2>1, <2>2 DEF LineInv
  <2>5. \A u \in Tasks : st'[u] = "queued" => \E i \in 1..Len(queue') : queue'[i] = u
    BY <1>1, <1>2 DEF LineInv
  <2> QED
    BY <2>3, <2>4, <2>5 DEF LineInv
<1> QED
  BY <1>4, <1>5, <1>6, LineSame

\* What a microtask leaves behind when it has run.
LEMMA MicroRan ==
  ASSUME Inv, LineInv, micro # <<>>
  PROVE  /\ Tail(micro) \in Seq(Tasks) /\ Head(micro) \in Tasks
         /\ \A v, w : v # Head(micro) => (Precedes(Tail(micro), v, w) <=> Precedes(micro, v, w))
         /\ \A v : ~Precedes(micro, v, Head(micro))
         /\ \A v \in Tasks \ {Head(micro)} : st[v] = "woken" =>
              /\ Precedes(micro, Head(micro), v)
              /\ \E i \in 1..Len(Tail(micro)) : Tail(micro)[i] = v
         /\ \A i \in 1..Len(Tail(micro)) :
              Tail(micro)[i] \in Tasks \ {Head(micro)} /\ st[Tail(micro)[i]] \in {"woken", "returned", "threw"}
         /\ \A i, j \in 1..Len(Tail(micro)) : Tail(micro)[i] = Tail(micro)[j] => i = j
<1>1. /\ micro \in Seq(Tasks) /\ \A i, j \in 1..Len(micro) : micro[i] = micro[j] => i = j
      /\ \A i \in 1..Len(micro) : st[micro[i]] \in {"woken", "returned", "threw"}
      /\ \A v \in Tasks : st[v] = "woken" => \E i \in 1..Len(micro) : micro[i] = v
  BY DEF Inv, TypeOK, SlotsInv, WokenAreDue, LineInv
<1>2. \A v, w :
        /\ v # Head(micro) => (Precedes(Tail(micro), v, w) <=> Precedes(micro, v, w))
        /\ ~Precedes(micro, v, Head(micro))
        /\ v # Head(micro) /\ (\E i \in 1..Len(micro) : micro[i] = v) => Precedes(micro, Head(micro), v)
        /\ \A i \in 1..Len(micro) : micro[i] # Head(micro) =>
             \E j \in 1..Len(Tail(micro)) : Tail(micro)[j] = micro[i]
        /\ \A i \in 1..Len(Tail(micro)) :
             Tail(micro)[i] # Head(micro) /\ \E j \in 1..Len(micro) : micro[j] = Tail(micro)[i]
  BY <1>1, TailPrecedes
<1>3. /\ Len(micro) \in Nat \ {0} /\ Len(Tail(micro)) = Len(micro) - 1
      /\ \A i \in 1..Len(Tail(micro)) : Tail(micro)[i] = micro[i + 1]
      /\ Tail(micro) \in Seq(Tasks) /\ Head(micro) \in Tasks
  BY <1>1
<1>4. \A i, j \in 1..Len(Tail(micro)) : Tail(micro)[i] = Tail(micro)[j] => i = j
  <2> SUFFICES ASSUME NEW i \in 1..Len(Tail(micro)), NEW j \in 1..Len(Tail(micro)),
                      Tail(micro)[i] = Tail(micro)[j]
               PROVE  i = j
    OBVIOUS
  <2>1. i + 1 \in 1..Len(micro) /\ j + 1 \in 1..Len(micro) /\ micro[i + 1] = micro[j + 1]
    BY <1>3
  <2> QED
    BY <1>1, <2>1
<1>5. \A i \in 1..Len(Tail(micro)) :
        Tail(micro)[i] \in Tasks \ {Head(micro)} /\ st[Tail(micro)[i]] \in {"woken", "returned", "threw"}
  <2> SUFFICES ASSUME NEW i \in 1..Len(Tail(micro))
               PROVE  Tail(micro)[i] \in Tasks \ {Head(micro)}
                      /\ st[Tail(micro)[i]] \in {"woken", "returned", "threw"}
    OBVIOUS
  <2>1. PICK j \in 1..Len(micro) : micro[j] = Tail(micro)[i]
    BY <1>2
  <2>2. micro[j] \in Tasks
    BY <1>1
  <2> QED
    BY <1>1, <1>2, <2>1, <2>2
<1>6. \A v \in Tasks \ {Head(micro)} : st[v] = "woken" =>
              /\ Precedes(micro, Head(micro), v)
              /\ \E i \in 1..Len(Tail(micro)) : Tail(micro)[i] = v
  <2> SUFFICES ASSUME NEW v \in Tasks \ {Head(micro)}, st[v] = "woken"
               PROVE  /\ Precedes(micro, Head(micro), v)
                      /\ \E i \in 1..Len(Tail(micro)) : Tail(micro)[i] = v
    OBVIOUS
  <2>1. PICK i \in 1..Len(micro) : micro[i] = v
    BY <1>1
  <2>2. v # Head(micro) /\ micro[i] # Head(micro)
    BY <2>1
  <2>3. Precedes(micro, Head(micro), v)
    BY <1>2, <2>1, <2>2, Zenon
  <2>4. \E j \in 1..Len(Tail(micro)) : Tail(micro)[j] = micro[i]
    BY <1>2, <2>2, Zenon
  <2> QED
    BY <2>1, <2>3, <2>4
<1> QED
  BY <1>2, <1>3, <1>4, <1>5, <1>6

LEMMA FinallyIdles ==
  ASSUME Inv, LineInv, NEW t \in Tasks, Finally(t), queue = <<>>
  PROVE  LineInv' /\ Stays
<1>1. /\ micro # <<>> /\ t = Head(micro) /\ st[t] \in {"returned", "threw"}
      /\ st' = [st EXCEPT ![t] = "done"] /\ micro' = Tail(micro) /\ queue' = queue
  BY DEF Finally, Frees
<1>2. st'[t] = "done" /\ \A u \in Tasks \ {t} : st'[u] = st[u]
  BY <1>1 DEF Inv, TypeOK
<1>3. Waiting' = Waiting /\ t \notin Waiting
  BY <1>1, <1>2 DEF Waiting, In
<1>4. \A v, w \in Waiting : Before(v, w)' <=> Before(v, w)
  <2> SUFFICES ASSUME NEW v \in Waiting, NEW w \in Waiting
               PROVE  Before(v, w)' <=> Before(v, w)
    OBVIOUS
  <2>1. v # t /\ w # t /\ st'[v] = st[v] /\ st'[w] = st[w]
    BY <1>2, <1>3 DEF Waiting, In
  <2>2. Precedes(micro', v, w) <=> Precedes(micro, v, w)
    BY <1>1, <2>1, MicroRan
  <2> QED
    BY <1>1, <2>1, <2>2 DEF Before, Precedes
<1>5. LineInv'
  <2>1. \A i \in 1..Len(micro') : st'[micro'[i]] \in {"woken", "returned", "threw"}
    BY <1>1, <1>2, MicroRan
  <2>2. \A i, j \in 1..Len(micro') : micro'[i] = micro'[j] => i = j
    BY <1>1, MicroRan
  <2>3. \A u \in Tasks : st'[u] = "queued" => \E i \in 1..Len(queue') : queue'[i] = u
    BY <1>1, <1>2 DEF LineInv
  <2> QED
    BY <2>1, <2>2, <2>3 DEF LineInv
<1> QED
  BY <1>3, <1>4, <1>5, LineSame

LEMMA FinallyMovesOn ==
  ASSUME Inv, LineInv, NEW t \in Tasks, Finally(t), queue # <<>>
  PROVE  LineInv' /\ Stays
<1> DEFINE n == Head(queue)
           rest == Tail(micro)
<1>1. /\ micro # <<>> /\ t = Head(micro) /\ st[t] \in {"returned", "threw"}
      /\ st' = [st EXCEPT ![t] = "done", ![n] = "woken"]
      /\ micro' = Append(rest, n) /\ queue' = Tail(queue)
  BY DEF Finally, Frees
<1>2. /\ queue \in Seq(Tasks) /\ \A i, j \in 1..Len(queue) : queue[i] = queue[j] => i = j
      /\ \A i \in 1..Len(queue) : st[queue[i]] = "queued"
      /\ \A v \in Tasks : st[v] = "queued" => \E i \in 1..Len(queue) : queue[i] = v
      /\ st \in [Tasks -> Phases]
  BY DEF Inv, TypeOK, SlotsInv, WaitersQueued, LineInv
<1>3. n \in Tasks /\ st[n] = "queued" /\ n # t
  <2>1. 1 \in 1..Len(queue) /\ n = queue[1] /\ n \in Tasks
    BY <1>2
  <2> QED
    BY <1>1, <1>2, <2>1
<1>4. st'[t] = "done" /\ st'[n] = "woken" /\ \A u \in Tasks \ {t, n} : st'[u] = st[u]
  BY <1>1, <1>2, <1>3
<1>5. Waiting' = Waiting /\ t \notin Waiting
  BY <1>1, <1>3, <1>4 DEF Waiting, In
<1>6. /\ rest \in Seq(Tasks) /\ \A i \in 1..Len(rest) : rest[i] # n
  BY <1>1, <1>3, MicroRan
<1>7. \A v, w : v # n /\ w # n /\ v # t => (Precedes(micro', v, w) <=> Precedes(micro, v, w))
  <2>1. \A v, w : v # n /\ w # n => (Precedes(micro', v, w) <=> Precedes(rest, v, w))
    BY <1>1, <1>3, <1>6, AppendPrecedes
  <2> QED
    BY <1>1, <2>1, MicroRan
<1>8. \A v : st[v] = "woken" /\ v \in Tasks => Precedes(micro', v, n)
  <2> SUFFICES ASSUME NEW v \in Tasks, st[v] = "woken"
               PROVE  Precedes(micro', v, n)
    OBVIOUS
  <2>1. \E i \in 1..Len(rest) : rest[i] = v
    BY <1>1, MicroRan
  <2> QED
    BY <1>1, <1>3, <1>6, <2>1, AppendPrecedes
<1>9. \A w : ~Precedes(micro', n, w)
  BY <1>1, <1>3, <1>6, AppendPrecedes
<1>10. \A v, w : /\ v # n => (Precedes(queue', v, w) <=> Precedes(queue, v, w))
                 /\ ~Precedes(queue, v, n)
                 /\ v # n /\ (\E i \in 1..Len(queue) : queue[i] = v) => Precedes(queue, n, v)
  BY <1>1, <1>2, TailPrecedes
<1> HIDE DEF n, rest
<1>11. \A v, w \in Waiting : Before(v, w)' <=> Before(v, w)
  <2> SUFFICES ASSUME NEW v \in Waiting, NEW w \in Waiting
               PROVE  Before(v, w)' <=> Before(v, w)
    OBVIOUS
  <2>1. /\ v # t /\ w # t /\ v \in Tasks /\ w \in Tasks
        /\ st[v] \in {"queued", "woken"} /\ st[w] \in {"queued", "woken"}
    BY <1>5 DEF Waiting, In
  <2>2. Before(v, w)' <=>
          \/ st'[v] = "woken" /\ st'[w] = "queued"
          \/ st'[v] = "woken" /\ st'[w] = "woken" /\ Precedes(micro', v, w)
          \/ st'[v] = "queued" /\ st'[w] = "queued" /\ Precedes(queue', v, w)
    BY DEF Before, Precedes
  <2>3. CASE v # n /\ w # n
    <3>1. st'[v] = st[v] /\ st'[w] = st[w]
      BY <1>4, <2>1, <2>3
    <3>2. /\ Precedes(micro', v, w) <=> Precedes(micro, v, w)
          /\ Precedes(queue', v, w) <=> Precedes(queue, v, w)
      BY <1>7, <1>10, <2>1, <2>3, Zenon
    <3> QED
      BY <2>2, <3>1, <3>2 DEF Before
  <2>4. CASE v # n /\ w = n
    <3>1. st'[v] = st[v] /\ st'[w] = "woken"
      BY <1>4, <2>1, <2>4
    <3>2. ~Precedes(queue, v, w)
      BY <1>10, <2>4, Zenon
    <3>3. st[v] = "woken" => Precedes(micro', v, w)
      BY <1>8, <2>1, <2>4, Zenon
    <3> QED
      BY <1>3, <2>1, <2>2, <2>4, <3>1, <3>2, <3>3 DEF Before
  <2>5. CASE v = n /\ w # n
    <3>1. st'[v] = "woken" /\ st'[w] = st[w]
      BY <1>4, <2>1, <2>5
    <3>2. ~Precedes(micro', v, w)
      BY <1>9, <2>5, Zenon
    <3>3. st[w] = "queued" => Precedes(queue, v, w)
      BY <1>2, <1>10, <2>1, <2>5, Zenon
    <3> QED
      BY <1>3, <2>1, <2>2, <2>5, <3>1, <3>2, <3>3 DEF Before
  <2>6. CASE v = n /\ w = n
    <3>1. ~Precedes(micro', v, w) /\ ~Precedes(queue, v, w) /\ st'[v] = "woken" /\ st'[w] = "woken"
      BY <1>4, <1>9, <1>10, <2>6, Zenon
    <3> QED
      BY <1>3, <2>2, <2>6, <3>1 DEF Before
  <2> QED
    BY <2>3, <2>4, <2>5, <2>6
<1>12. LineInv'
  <2>1. /\ Len(rest) \in Nat /\ Len(micro') = Len(rest) + 1 /\ micro'[Len(rest) + 1] = n
        /\ \A i \in 1..Len(rest) : micro'[i] = rest[i]
    BY <1>1, <1>3, <1>6
  <2>2. \A i \in 1..Len(micro') : i \in 1..Len(rest) \/ i = Len(rest) + 1
    BY <2>1
  <2>3. /\ \A i \in 1..Len(rest) : rest[i] \in Tasks \ {t} /\ st[rest[i]] \in {"woken", "returned", "threw"}
        /\ \A i, j \in 1..Len(rest) : rest[i] = rest[j] => i = j
    BY <1>1, MicroRan DEF rest
  <2>4. \A i \in 1..Len(micro') : st'[micro'[i]] \in {"woken", "returned", "threw"}
    BY <1>4, <1>6, <2>1, <2>2, <2>3
  <2>5. \A i, j \in 1..Len(micro') : micro'[i] = micro'[j] => i = j
    BY <1>6, <2>1, <2>2, <2>3
  <2>6. \A u \in Tasks : st'[u] = "queued" => \E i \in 1..Len(queue') : queue'[i] = u
    <3> SUFFICES ASSUME NEW u \in Tasks, st'[u] = "queued"
                 PROVE  \E i \in 1..Len(queue') : queue'[i] = u
      OBVIOUS
    <3>1. u # n /\ st[u] = "queued"
      BY <1>4
    <3>2. PICK i \in 1..Len(queue) : queue[i] = u
      BY <1>2, <3>1
    <3> QED
      <4>1. \A j \in 1..Len(queue) : queue[j] # Head(queue) =>
              \E k \in 1..Len(Tail(queue)) : Tail(queue)[k] = queue[j]
        BY <1>2, TailPrecedes
      <4>2. queue[i] # Head(queue)
        BY <3>1, <3>2 DEF n
      <4>3. \E k \in 1..Len(Tail(queue)) : Tail(queue)[k] = queue[i]
        BY <4>1, <4>2, Zenon
      <4> QED
        BY <1>1, <3>2, <4>3
  <2> QED
    BY <2>4, <2>5, <2>6 DEF LineInv
<1> QED
  BY <1>5, <1>11, <1>12, LineSame

LEMMA ResumeLeaves ==
  ASSUME Inv, LineInv, NEW t \in Tasks, Resume(t)
  PROVE  LineInv' /\ Leaves(t) /\ st[t] = "woken" /\ st'[t] = "running"
<1>1. /\ micro # <<>> /\ t = Head(micro) /\ st[t] = "woken"
      /\ st' = [st EXCEPT ![t] = "running"] /\ micro' = Tail(micro) /\ queue' = queue
  BY DEF Resume, Start
<1>2. st'[t] = "running" /\ \A u \in Tasks \ {t} : st'[u] = st[u]
  BY <1>1 DEF Inv, TypeOK
<1>3. t \in Waiting /\ Waiting' = Waiting \ {t}
  BY <1>1, <1>2 DEF Waiting, In
<1>4. \A v, w \in Waiting \ {t} : Before(v, w)' <=> Before(v, w)
  <2> SUFFICES ASSUME NEW v \in Waiting \ {t}, NEW w \in Waiting \ {t}
               PROVE  Before(v, w)' <=> Before(v, w)
    OBVIOUS
  <2>1. v # t /\ w # t /\ st'[v] = st[v] /\ st'[w] = st[w]
    BY <1>2 DEF Waiting, In
  <2>2. Precedes(micro', v, w) <=> Precedes(micro, v, w)
    BY <1>1, <2>1, MicroRan
  <2> QED
    BY <1>1, <2>1, <2>2 DEF Before, Precedes
<1>5. \A v \in Waiting : ~Before(v, t)
  <2>1. \A v : ~Precedes(micro, v, t)
    BY <1>1, MicroRan
  <2> QED
    BY <1>1, <2>1 DEF Before
<1>6. \A v \in Waiting \ {t} : Before(t, v)
  <2> SUFFICES ASSUME NEW v \in Waiting \ {t}
               PROVE  Before(t, v)
    OBVIOUS
  <2>1. v \in Tasks \ {t} /\ st[v] \in {"queued", "woken"}
    BY DEF Waiting, In
  <2>2. st[v] = "woken" => Precedes(micro, t, v)
    BY <1>1, <2>1, MicroRan
  <2> QED
    BY <1>1, <2>1, <2>2 DEF Before
<1>7. LineInv'
  <2>1. \A i \in 1..Len(micro') : st'[micro'[i]] \in {"woken", "returned", "threw"}
    BY <1>1, <1>2, MicroRan
  <2>2. \A i, j \in 1..Len(micro') : micro'[i] = micro'[j] => i = j
    BY <1>1, MicroRan
  <2>3. \A u \in Tasks : st'[u] = "queued" => \E i \in 1..Len(queue') : queue'[i] = u
    BY <1>1, <1>2 DEF LineInv
  <2> QED
    BY <2>1, <2>2, <2>3 DEF LineInv
<1>8. Leaves(t)
  <2>1. \A v \in Waiting : <<v, t>> \notin Line
    BY <1>5, LineNow, Zenon
  <2>2. \A v \in Waiting \ {t} : <<t, v>> \in Line
    BY <1>3, <1>6, LineNow
  <2>3. \A v, w \in Waiting \ {t} : <<v, w>> \in Line' <=> <<v, w>> \in Line
    <3> SUFFICES ASSUME NEW v \in Waiting \ {t}, NEW w \in Waiting \ {t}
                 PROVE  <<v, w>> \in Line' <=> <<v, w>> \in Line
      OBVIOUS
    <3>1. v \in Waiting /\ w \in Waiting /\ v \in Waiting' /\ w \in Waiting'
      BY <1>3
    <3>2. Before(v, w)' <=> Before(v, w)
      BY <1>4
    <3> QED
      BY <3>1, <3>2, LineNow, Zenon
  <2> QED
    BY <1>3, <2>1, <2>2, <2>3 DEF Leaves
<1> QED
  BY <1>1, <1>2, <1>7, <1>8

-----------------------------------------------------------------------------
(* What is learned.  Learns, of the values it is about: something that is  *)
(* known, and that tasks ahead, in the order of a line, say something of.  *)

LearnsBy(x, known, none, says, ahead, line) ==
  /\ known \in {none, x} \/ \E w \in ahead : x \in says[w]
  /\ \A v \in ahead : says[v] \subseteq {x} \/ \E w \in ahead : <<v, w>> \in line /\ x \in says[w]

\* The tasks in ahead say the same in the same order.
Agree(says, saysAfter, line, lineAfter, ahead) ==
  /\ \A v \in ahead : saysAfter[v] = says[v]
  /\ \A v, w \in ahead : <<v, w>> \in lineAfter <=> <<v, w>> \in line

First(h, ahead, rest, line) ==
  h \in ahead /\ rest = ahead \ {h} /\ \A w \in ahead : <<w, h>> \notin line

Last(t, ahead, all, line) == all = ahead \union {t} /\ \A v \in ahead : <<v, t>> \in line

\* What h says is remembered; a memory that is empty may stay so.
Heard(says, h, known, none, after) ==
  /\ says[h] = {} => after = known
  /\ \A y \in says[h] : after = y \/ (after = known /\ known = none)

\* The first of the tasks ahead has said what it had to say.
LEMMA LearnsFromFirst ==
  ASSUME NEW x, NEW known, NEW none, NEW says, NEW ahead, NEW line,
         LearnsBy(x, known, none, says, ahead, line),
         NEW h, NEW rest, First(h, ahead, rest, line),
         NEW after, Heard(says, h, known, none, after),
         NEW saysAfter, NEW lineAfter, Agree(says, saysAfter, line, lineAfter, rest)
  PROVE  LearnsBy(x, after, none, saysAfter, rest, lineAfter)
<1> /\ h \in ahead /\ rest = ahead \ {h} /\ \A w \in ahead : <<w, h>> \notin line
    /\ says[h] = {} => after = known
    /\ \A y \in says[h] : after = y \/ (after = known /\ known = none)
    /\ \A v \in rest : saysAfter[v] = says[v]
    /\ \A v, w \in rest : <<v, w>> \in lineAfter <=> <<v, w>> \in line
  BY DEF First, Heard, Agree
<1>1. after \in {none, x} \/ \E w \in rest : x \in saysAfter[w]
  <2>1. CASE says[h] = {}
    BY <2>1 DEF LearnsBy
  <2>2. CASE says[h] # {} /\ says[h] \subseteq {x}
    BY <2>2
  <2>3. CASE \E w \in ahead : <<h, w>> \in line /\ x \in says[w]
    <3>1. PICK w \in ahead : <<h, w>> \in line /\ x \in says[w]
      BY <2>3
    <3>2. w # h
      BY <3>1
    <3> QED
      BY <3>1, <3>2
  <2> QED
    BY <2>1, <2>2, <2>3 DEF LearnsBy
<1>2. ASSUME NEW v \in rest, ~(saysAfter[v] \subseteq {x})
      PROVE  \E w \in rest : <<v, w>> \in lineAfter /\ x \in saysAfter[w]
  <2>1. v \in ahead /\ ~(says[v] \subseteq {x})
    BY <1>2
  <2>2. PICK w \in ahead : <<v, w>> \in line /\ x \in says[w]
    BY <2>1 DEF LearnsBy
  <2>3. w \in rest
    BY <2>1, <2>2
  <2> QED
    BY <2>2, <2>3
<1> QED
  BY <1>1, <1>2 DEF LearnsBy

LEMMA LearnsAsBefore ==
  ASSUME NEW x, NEW known, NEW none, NEW says, NEW ahead, NEW line,
         LearnsBy(x, known, none, says, ahead, line),
         NEW saysAfter, NEW lineAfter, Agree(says, saysAfter, line, lineAfter, ahead)
  PROVE  LearnsBy(x, known, none, saysAfter, ahead, lineAfter)
BY DEF LearnsBy, Agree

\* One more task is behind the others, and says nothing, or says x.
LEMMA LearnsFromLast ==
  ASSUME NEW x, NEW known, NEW none, NEW says, NEW ahead, NEW line, NEW t, NEW more, NEW lineAfter,
         Last(t, ahead, more, lineAfter), NEW saysAfter, Agree(says, saysAfter, line, lineAfter, ahead),
         \/ saysAfter[t] = {} /\ LearnsBy(x, known, none, says, ahead, line)
         \/ saysAfter[t] = {x}
  PROVE  LearnsBy(x, known, none, saysAfter, more, lineAfter)
<1> /\ more = ahead \union {t}
    /\ \A v \in ahead : saysAfter[v] = says[v] /\ <<v, t>> \in lineAfter
    /\ \A v, w \in ahead : <<v, w>> \in lineAfter <=> <<v, w>> \in line
  BY DEF Last, Agree
<1>1. CASE saysAfter[t] = {} /\ LearnsBy(x, known, none, says, ahead, line)
  <2>1. known \in {none, x} \/ \E w \in more : x \in saysAfter[w]
    BY <1>1 DEF LearnsBy
  <2>2. ASSUME NEW v \in more, ~(saysAfter[v] \subseteq {x})
        PROVE  \E w \in more : <<v, w>> \in lineAfter /\ x \in saysAfter[w]
    <3>1. v \in ahead /\ ~(says[v] \subseteq {x})
      BY <1>1, <2>2
    <3>2. PICK w \in ahead : <<v, w>> \in line /\ x \in says[w]
      BY <1>1, <3>1 DEF LearnsBy
    <3> QED
      BY <3>1, <3>2
  <2> QED
    BY <2>1, <2>2 DEF LearnsBy
<1>2. CASE saysAfter[t] = {x}
  BY <1>2 DEF LearnsBy
<1> QED
  BY <1>1, <1>2

LEMMA LearnsAlone ==
  ASSUME NEW x, NEW known, NEW none, known \in {none, x}, NEW says, NEW line
  PROVE  LearnsBy(x, known, none, says, {}, line)
BY DEF LearnsBy

TeachesBy(dg) == [t \in Tasks |-> IF dg[t].taught = 0 THEN {} ELSE {dg[t].taught}]
NamesBy(dg, p) == [t \in Tasks |-> IF "out" \in dg[t].ways /\ dg[t].port = p THEN {dg[t].client} ELSE {}]
AheadBy(wait, line, t) == {v \in wait : <<v, t>> \in line}

LayoutBy(dg, r, tm, wait, line) ==
  /\ \A t \in wait : dg[t].ways # {} /\ dg[t].taught = 0 =>
       LearnsBy(dg[t].layout, tm, 0, TeachesBy(dg), AheadBy(wait, line, t), line)
  /\ r.told = r.layout => LearnsBy(r.layout, tm, 0, TeachesBy(dg), wait, line)

ClientBy(dg, r, tb, wait, line) ==
  /\ \A t \in wait : "back" \in dg[t].ways /\ "out" \notin dg[t].ways =>
       LearnsBy(dg[t].client, tb[dg[t].port], Nobody, NamesBy(dg, dg[t].port), AheadBy(wait, line, t), line)
  /\ \A p \in Ports : LearnsBy(r.knownAs[p], tb[p], Nobody, NamesBy(dg, p), wait, line)

\* The line without its first, and with one more at its end.
Loses(h, wait, line, rest, lineAfter) ==
  /\ h \in wait /\ rest = wait \ {h}
  /\ \A v, w \in rest : <<v, w>> \in lineAfter <=> <<v, w>> \in line
  /\ \A v \in wait : <<v, h>> \notin line
  /\ \A v \in rest : <<h, v>> \in line

Gains(t, wait, line, more, lineAfter) ==
  /\ t \in Tasks \ wait /\ more = wait \union {t}
  /\ \A v, w \in wait : <<v, w>> \in lineAfter <=> <<v, w>> \in line
  /\ \A v \in wait : <<v, t>> \in lineAfter /\ <<t, v>> \notin lineAfter
  /\ <<t, t>> \notin lineAfter

Carried(dg, dg2, wait) ==
  \A v \in wait : dg2[v] = dg[v] /\ (dg[v].ways # {} => dg[v].port \in Ports)

\* What a datagram leaves in the two memories, and in the router.
Learned(d, tm, tm2) == tm2 = IF d.taught # 0 THEN d.taught ELSE tm

Noted(d, tb, tb2) ==
  \A p \in Ports :
    IF "out" \in d.ways /\ d.port = p
      THEN tb2[p] = d.client \/ (tb2[p] = tb[p] /\ tb[p] = Nobody)
      ELSE tb2[p] = tb[p]

TellsLayout(d, r, r2) ==
  /\ r2.layout = r.layout /\ (d.taught = 0 => r2.told = r.told)
  /\ d.taught \in {0, r.layout}
  /\ d.ways # {} /\ d.taught = 0 => d.layout = r.layout /\ r.told = r.layout

TellsClient(d, r, r2) ==
  /\ \A p \in Ports : r2.knownAs[p] = IF "out" \in d.ways /\ d.port = p
                                        THEN d.client ELSE r.knownAs[p]
  /\ "back" \in d.ways /\ "out" \notin d.ways => d.port \in Ports /\ r.knownAs[d.port] = d.client

LEMMA LayoutNow ==
  /\ LayoutInv <=> LayoutBy(datagram, router, template, Waiting, Line)
  /\ LayoutInv' <=> LayoutBy(datagram', router', template', Waiting', Line')
BY DEF LayoutInv, LayoutBy, Learns, LearnsBy, Teaches, TeachesBy, Ahead, AheadBy

LEMMA ClientNow ==
  /\ ClientInv <=> /\ ClientBy(datagram, router, table, Waiting, Line)
                   /\ template = 0 => \A p \in Ports : table[p] = Nobody
  /\ ClientInv' <=> /\ ClientBy(datagram', router', table', Waiting', Line')
                    /\ template' = 0 => \A p \in Ports : table'[p] = Nobody
BY DEF ClientInv, ClientBy, Learns, LearnsBy, Names, NamesBy, Ahead, AheadBy

\* The first of the line is handled: both memories learn what it says.
LEMMA LayoutLeaves ==
  ASSUME NEW dg, NEW r, NEW tm, NEW wait \in SUBSET Tasks, NEW line, LayoutBy(dg, r, tm, wait, line),
         NEW h \in Tasks, NEW wait2, NEW line2, Loses(h, wait, line, wait2, line2),
         NEW dg2, Carried(dg, dg2, wait2),
         NEW tm2, Learned(dg[h], tm, tm2)
  PROVE  LayoutBy(dg2, r, tm2, wait2, line2)
<1> /\ h \in wait /\ wait2 = wait \ {h} /\ \A v \in wait2 : dg2[v] = dg[v]
    /\ \A v, w \in wait2 : <<v, w>> \in line2 <=> <<v, w>> \in line
    /\ \A v \in wait : <<v, h>> \notin line
    /\ \A v \in wait2 : <<h, v>> \in line
    /\ tm2 = IF dg[h].taught # 0 THEN dg[h].taught ELSE tm
  BY DEF Loses, Carried, Learned
<1> DEFINE says == TeachesBy(dg)
           says2 == TeachesBy(dg2)
<1>1. /\ \A v \in wait2 : says2[v] = says[v]
      /\ Heard(says, h, tm, 0, tm2)
  BY DEF TeachesBy, Heard
<1> HIDE DEF says, says2
<1>2. ASSUME NEW t \in wait2, dg2[t].ways # {}, dg2[t].taught = 0
      PROVE  LearnsBy(dg2[t].layout, tm2, 0, says2, AheadBy(wait2, line2, t), line2)
  <2> DEFINE ahead == AheadBy(wait, line, t)
             rest == AheadBy(wait2, line2, t)
  <2>1. LearnsBy(dg[t].layout, tm, 0, says, ahead, line)
    BY <1>2 DEF LayoutBy, says
  <2>2. rest = ahead \ {h} /\ h \in ahead /\ ahead \subseteq wait
    BY DEF AheadBy
  <2> HIDE DEF ahead, rest
  <2>3. First(h, ahead, rest, line) /\ Agree(says, says2, line, line2, rest)
    BY <1>1, <2>2 DEF First, Agree
  <2>4. LearnsBy(dg[t].layout, tm2, 0, says2, rest, line2)
    BY <1>1, <2>1, <2>3, LearnsFromFirst, Zenon
  <2> QED
    BY <2>4 DEF rest
<1>3. ASSUME r.told = r.layout
      PROVE  LearnsBy(r.layout, tm2, 0, says2, wait2, line2)
  <2>1. LearnsBy(r.layout, tm, 0, says, wait, line)
    BY <1>3 DEF LayoutBy, says
  <2>2. First(h, wait, wait2, line) /\ Agree(says, says2, line, line2, wait2)
    BY <1>1 DEF First, Agree
  <2> QED
    BY <1>1, <2>1, <2>2, LearnsFromFirst, Zenon
<1> QED
  BY <1>2, <1>3 DEF LayoutBy, says2

LEMMA ClientLeaves ==
  ASSUME NEW dg, NEW r, NEW tb, NEW wait \in SUBSET Tasks, NEW line, ClientBy(dg, r, tb, wait, line),
         NEW h \in Tasks, NEW wait2, NEW line2, Loses(h, wait, line, wait2, line2),
         NEW dg2, Carried(dg, dg2, wait2), NEW tb2, Noted(dg[h], tb, tb2)
  PROVE  ClientBy(dg2, r, tb2, wait2, line2)
<1> /\ h \in wait /\ wait2 = wait \ {h}
    /\ \A v \in wait2 : dg2[v] = dg[v] /\ (dg[v].ways # {} => dg[v].port \in Ports)
    /\ \A v, w \in wait2 : <<v, w>> \in line2 <=> <<v, w>> \in line
    /\ \A v \in wait : <<v, h>> \notin line
    /\ \A v \in wait2 : <<h, v>> \in line
    /\ \A p \in Ports :
         IF "out" \in dg[h].ways /\ dg[h].port = p
           THEN tb2[p] = dg[h].client \/ (tb2[p] = tb[p] /\ tb[p] = Nobody)
           ELSE tb2[p] = tb[p]
  BY DEF Loses, Carried, Noted
<1>1. ASSUME NEW p \in Ports
      PROVE  /\ \A v \in wait2 : NamesBy(dg2, p)[v] = NamesBy(dg, p)[v]
             /\ Heard(NamesBy(dg, p), h, tb[p], Nobody, tb2[p])
  BY DEF NamesBy, Heard
<1>2. ASSUME NEW t \in wait2, "back" \in dg2[t].ways, "out" \notin dg2[t].ways
      PROVE  LearnsBy(dg2[t].client, tb2[dg2[t].port], Nobody, NamesBy(dg2, dg2[t].port),
                      AheadBy(wait2, line2, t), line2)
  <2> DEFINE ahead == AheadBy(wait, line, t)
             rest == AheadBy(wait2, line2, t)
             p == dg[t].port
             says == NamesBy(dg, p)
             says2 == NamesBy(dg2, p)
  <2>1. LearnsBy(dg[t].client, tb[p], Nobody, says, ahead, line)
    BY <1>2 DEF ClientBy
  <2>2. rest = ahead \ {h} /\ h \in ahead /\ ahead \subseteq wait
    BY DEF AheadBy
  <2>3. p \in Ports
    BY <1>2
  <2>4. /\ \A v \in wait2 : says2[v] = says[v]
        /\ Heard(says, h, tb[p], Nobody, tb2[p])
    BY <1>1, <2>3, Zenon
  <2> HIDE DEF ahead, rest, p, says, says2
  <2>5. LearnsBy(dg[t].client, tb2[p], Nobody, says2, rest, line2)
    <3>1. First(h, ahead, rest, line) /\ Agree(says, says2, line, line2, rest)
      BY <2>2, <2>4 DEF First, Agree
    <3> QED
      BY <2>1, <2>4, <3>1, LearnsFromFirst, Zenon
  <2>6. dg2[t] = dg[t]
    OBVIOUS
  <2> QED
    BY <2>5, <2>6, Zenon DEF rest, p, says2
<1>3. ASSUME NEW p \in Ports
      PROVE  LearnsBy(r.knownAs[p], tb2[p], Nobody, NamesBy(dg2, p), wait2, line2)
  <2>1. LearnsBy(r.knownAs[p], tb[p], Nobody, NamesBy(dg, p), wait, line)
    BY DEF ClientBy
  <2>2. First(h, wait, wait2, line) /\ Agree(NamesBy(dg, p), NamesBy(dg2, p), line, line2, wait2)
    BY <1>1 DEF First, Agree
  <2> QED
    BY <1>1, <2>1, <2>2, LearnsFromFirst, Zenon
<1> QED
  BY <1>2, <1>3, Zenon DEF ClientBy

\* A datagram joins the line: what it leaves to be remembered it may rely on.
LEMMA LayoutJoins ==
  ASSUME NEW dg, NEW r, NEW tm, NEW wait \in SUBSET Tasks, NEW line, LayoutBy(dg, r, tm, wait, line),
         NEW t \in Tasks, NEW more, NEW line2, Gains(t, wait, line, more, line2),
         NEW dg2, Carried(dg, dg2, wait), NEW r2, TellsLayout(dg2[t], r, r2)
  PROVE  LayoutBy(dg2, r2, tm, more, line2)
<1> /\ t \notin wait /\ more = wait \union {t} /\ \A v \in wait : dg2[v] = dg[v]
    /\ \A v, w \in wait : <<v, w>> \in line2 <=> <<v, w>> \in line
    /\ \A v \in wait : <<v, t>> \in line2 /\ <<t, v>> \notin line2
    /\ <<t, t>> \notin line2
    /\ r2.layout = r.layout /\ (dg2[t].taught = 0 => r2.told = r.told)
    /\ dg2[t].taught \in {0, r.layout}
    /\ dg2[t].ways # {} /\ dg2[t].taught = 0 => dg2[t].layout = r.layout /\ r.told = r.layout
  BY DEF Gains, Carried, TellsLayout
<1> DEFINE says == TeachesBy(dg)
           says2 == TeachesBy(dg2)
<1>1. /\ \A v \in wait : says2[v] = says[v]
      /\ dg2[t].taught = 0 => says2[t] = {}
      /\ dg2[t].taught # 0 => says2[t] = {r.layout}
  BY DEF TeachesBy
<1> HIDE DEF says, says2
<1>2. \A v \in wait : AheadBy(more, line2, v) = AheadBy(wait, line, v)
  BY DEF AheadBy
<1>3. AheadBy(more, line2, t) = wait
  BY DEF AheadBy
<1>4. ASSUME NEW u \in more, dg2[u].ways # {}, dg2[u].taught = 0
      PROVE  LearnsBy(dg2[u].layout, tm, 0, says2, AheadBy(more, line2, u), line2)
  <2>1. CASE u \in wait
    <3> DEFINE ahead == AheadBy(wait, line, u)
    <3>1. LearnsBy(dg[u].layout, tm, 0, says, ahead, line)
      BY <1>4, <2>1 DEF LayoutBy, says
    <3>2. ahead \subseteq wait
      BY DEF AheadBy
    <3> HIDE DEF ahead
    <3>3. LearnsBy(dg[u].layout, tm, 0, says2, ahead, line2)
      <4>1. Agree(says, says2, line, line2, ahead)
        BY <1>1, <3>2 DEF Agree
      <4> QED
        BY <3>1, <4>1, LearnsAsBefore, Zenon
    <3> QED
      BY <1>2, <2>1, <3>3 DEF ahead
  <2>2. CASE u = t
    <3>1. dg2[u].layout = r.layout /\ LearnsBy(r.layout, tm, 0, says, wait, line)
      BY <1>4, <2>2 DEF LayoutBy, says
    <3>2. LearnsBy(r.layout, tm, 0, says2, wait, line2)
      <4>1. Agree(says, says2, line, line2, wait)
        BY <1>1 DEF Agree
      <4> QED
        BY <3>1, <4>1, LearnsAsBefore, Zenon
    <3> QED
      BY <1>3, <2>2, <3>1, <3>2
  <2> QED
    BY <2>1, <2>2
<1>5. ASSUME r2.told = r2.layout
      PROVE  LearnsBy(r.layout, tm, 0, says2, more, line2)
  <2>1. dg2[t].taught = 0 => LearnsBy(r.layout, tm, 0, says, wait, line)
    BY <1>5 DEF LayoutBy, says
  <2>2. /\ Last(t, wait, more, line2) /\ Agree(says, says2, line, line2, wait)
        /\ \/ says2[t] = {} /\ LearnsBy(r.layout, tm, 0, says, wait, line)
           \/ says2[t] = {r.layout}
    BY <1>1, <2>1 DEF Last, Agree
  <2> QED
    BY <2>2, LearnsFromLast, Zenon
<1> QED
  BY <1>4, <1>5 DEF LayoutBy, says2

LEMMA ClientJoins ==
  ASSUME NEW dg, NEW r, NEW tb, NEW wait \in SUBSET Tasks, NEW line, ClientBy(dg, r, tb, wait, line),
         NEW t \in Tasks, NEW more, NEW line2, Gains(t, wait, line, more, line2),
         NEW dg2, Carried(dg, dg2, wait), NEW r2, TellsClient(dg2[t], r, r2)
  PROVE  ClientBy(dg2, r2, tb, more, line2)
<1> /\ t \notin wait /\ more = wait \union {t}
    /\ \A v \in wait : dg2[v] = dg[v] /\ (dg[v].ways # {} => dg[v].port \in Ports)
    /\ \A v, w \in wait : <<v, w>> \in line2 <=> <<v, w>> \in line
    /\ \A v \in wait : <<v, t>> \in line2 /\ <<t, v>> \notin line2
    /\ <<t, t>> \notin line2
    /\ \A p \in Ports : r2.knownAs[p] = IF "out" \in dg2[t].ways /\ dg2[t].port = p
                                           THEN dg2[t].client ELSE r.knownAs[p]
    /\ "back" \in dg2[t].ways /\ "out" \notin dg2[t].ways =>
         dg2[t].port \in Ports /\ r.knownAs[dg2[t].port] = dg2[t].client
  BY DEF Gains, Carried, TellsClient
<1>1. ASSUME NEW p \in Ports
      PROVE  /\ \A v \in wait : NamesBy(dg2, p)[v] = NamesBy(dg, p)[v]
             /\ \/ NamesBy(dg2, p)[t] = {} /\ r2.knownAs[p] = r.knownAs[p]
                \/ NamesBy(dg2, p)[t] = {r2.knownAs[p]}
  BY DEF NamesBy
<1>2. \A v \in wait : AheadBy(more, line2, v) = AheadBy(wait, line, v)
  BY DEF AheadBy
<1>3. AheadBy(more, line2, t) = wait
  BY DEF AheadBy
<1>4. ASSUME NEW u \in more, "back" \in dg2[u].ways, "out" \notin dg2[u].ways
      PROVE  LearnsBy(dg2[u].client, tb[dg2[u].port], Nobody, NamesBy(dg2, dg2[u].port),
                      AheadBy(more, line2, u), line2)
  <2> DEFINE p == dg2[u].port
  <2>1. CASE u \in wait
    <3> DEFINE ahead == AheadBy(wait, line, u)
    <3>1. p \in Ports
      BY <1>4, <2>1
    <3>2. LearnsBy(dg2[u].client, tb[p], Nobody, NamesBy(dg, p), ahead, line)
      BY <1>4, <2>1 DEF ClientBy
    <3>3. ahead \subseteq wait
      BY DEF AheadBy
    <3>4. \A v \in ahead : NamesBy(dg2, p)[v] = NamesBy(dg, p)[v]
      BY <1>1, <3>1, <3>3
    <3> HIDE DEF ahead, p
    <3>5. LearnsBy(dg2[u].client, tb[p], Nobody, NamesBy(dg2, p), ahead, line2)
      <4>1. Agree(NamesBy(dg, p), NamesBy(dg2, p), line, line2, ahead)
        BY <3>3, <3>4 DEF Agree
      <4> QED
        BY <3>2, <4>1, LearnsAsBefore, Zenon
    <3> QED
      BY <1>2, <2>1, <3>5 DEF ahead, p
  <2>2. CASE u = t
    <3>1. p \in Ports /\ r.knownAs[p] = dg2[u].client
      BY <1>4, <2>2
    <3>2. LearnsBy(dg2[u].client, tb[p], Nobody, NamesBy(dg, p), wait, line)
      BY <3>1 DEF ClientBy
    <3>3. \A v \in wait : NamesBy(dg2, p)[v] = NamesBy(dg, p)[v]
      BY <1>1, <3>1
    <3> HIDE DEF p
    <3>4. LearnsBy(dg2[u].client, tb[p], Nobody, NamesBy(dg2, p), wait, line2)
      <4>1. Agree(NamesBy(dg, p), NamesBy(dg2, p), line, line2, wait)
        BY <3>3 DEF Agree
      <4> QED
        BY <3>2, <4>1, LearnsAsBefore, Zenon
    <3> QED
      BY <1>3, <2>2, <3>4 DEF p
  <2> QED
    BY <2>1, <2>2
<1>5. ASSUME NEW p \in Ports
      PROVE  LearnsBy(r2.knownAs[p], tb[p], Nobody, NamesBy(dg2, p), more, line2)
  <2>1. LearnsBy(r.knownAs[p], tb[p], Nobody, NamesBy(dg, p), wait, line)
    BY DEF ClientBy
  <2> DEFINE says == NamesBy(dg, p)
             says2 == NamesBy(dg2, p)
             x == r2.knownAs[p]
  <2>2. \/ says2[t] = {} /\ LearnsBy(x, tb[p], Nobody, says, wait, line)
        \/ says2[t] = {x}
    BY <1>1, <2>1
  <2>3. Last(t, wait, more, line2) /\ Agree(says, says2, line, line2, wait)
    BY <1>1 DEF Last, Agree
  <2> HIDE DEF says, says2, x
  <2>4. LearnsBy(x, tb[p], Nobody, says2, more, line2)
    BY <2>2, <2>3, LearnsFromLast, Zenon
  <2> QED
    BY <2>4 DEF says2, x
<1> QED
  BY <1>4, <1>5, Zenon DEF ClientBy

-----------------------------------------------------------------------------
(* The steps.                                                              *)

\* A datagram is handled whose layout and client are those remembered, if any.
LEMMA Handled ==
  ASSUME DOMAIN table = Ports, template = 0 => \A p \in Ports : table[p] = Nobody,
         NEW d, Handle(d), d.ways # {} => d.port \in Ports,
         d.taught \in {0, d.layout},
         d.ways # {} /\ d.taught = 0 => template \in {0, d.layout},
         "back" \in d.ways /\ "out" \notin d.ways => table[d.port] \in {Nobody, d.client},
         DecodedAsSent, AttributedToOwner
  PROVE  /\ template' = IF d.taught # 0 THEN d.taught ELSE template
         /\ DOMAIN table' = Ports /\ Noted(d, table, table')
         /\ template' = 0 => \A p \in Ports : table'[p] = Nobody
         /\ DecodedAsSent' /\ AttributedToOwner'
<1> DEFINE known == IF d.taught # 0 THEN d.taught ELSE template
           found == IF d.ways = {} THEN Nobody ELSE Lookup(d)
<1>1. template' = known
  BY DEF Handle
<1>2. CASE d.ways = {} \/ known = 0
  <2>1. UNCHANGED <<table, decoded, flows>>
    BY <1>2 DEF Handle
  <2>2. ASSUME NEW p \in Ports, "out" \in d.ways
        PROVE  table'[p] = table[p] /\ table[p] = Nobody
    BY <1>2, <2>1, <2>2
  <2>3. DecodedAsSent' /\ AttributedToOwner'
    BY <2>1 DEF DecodedAsSent, AttributedToOwner
  <2>4. template' = 0 => template = 0
    BY <1>1
  <2> QED
    BY <1>1, <2>1, <2>2, <2>3, <2>4 DEF Noted
<1>3. CASE ~(d.ways = {} \/ known = 0)
  <2>1. /\ decoded' = decoded \union {<<known, d.layout>>}
        /\ table' = IF "out" \in d.ways THEN [table EXCEPT ![d.port] = d.client] ELSE table
        /\ flows' = flows
             \union (IF "out" \in d.ways THEN {<<d.client, d.client>>} ELSE {})
             \union (IF "back" \in d.ways /\ found # Nobody THEN {<<found, d.client>>} ELSE {})
    BY <1>3 DEF Handle
  <2>2. known = d.layout
    BY <1>3
  <2>3. DecodedAsSent'
    BY <2>1, <2>2 DEF DecodedAsSent
  <2>4. "back" \in d.ways /\ found # Nobody => found = d.client
    BY <1>3 DEF Lookup
  <2> HIDE DEF found
  <2>5. AttributedToOwner'
    <3> SUFFICES ASSUME NEW f \in flows'
                 PROVE  f[1] = f[2]
      BY DEF AttributedToOwner
    <3>1. f \in flows \/ f = <<d.client, d.client>>
      BY <2>1, <2>4
    <3> QED
      BY <3>1 DEF AttributedToOwner
  <2>6. /\ DOMAIN table' = Ports
        /\ \A p \in Ports : table'[p] = IF "out" \in d.ways /\ d.port = p THEN d.client ELSE table[p]
    BY <2>1
  <2> QED
    BY <1>1, <1>3, <2>3, <2>5, <2>6 DEF Noted
<1> QED
  BY <1>2, <1>3

\* What the router sends, and what it has told when it has.
Sent(d) ==
  /\ d.layout \in Nat /\ d.taught \in {0, d.layout} /\ d.taught \in {0, router.layout}
  /\ d.ways # {} => d.port \in Ports /\ d.layout = router.layout
  /\ d.ways # {} /\ d.taught = 0 => router.told = router.layout
  /\ "back" \in d.ways /\ "out" \notin d.ways => router.knownAs[d.port] = d.client
  /\ DOMAIN router' = DOMAIN router /\ DOMAIN router'.knownAs = Ports
  /\ router'.layout = router.layout
  /\ router'.told = IF d.taught = 0 THEN router.told ELSE router.layout
  /\ \A p \in Ports : router'.knownAs[p] = IF "out" \in d.ways /\ d.port = p
                                             THEN d.client ELSE router.knownAs[p]

LEMMA ReceiveIsSent ==
  ASSUME FlowTypeOK, NEW t \in Tasks, Receive(t)
  PROVE  Arrive(t) /\ \E d : Begins(t, d) /\ Sent(d)
<1>1. Arrive(t)
  BY DEF Receive
<1>2. /\ DOMAIN router = {"layout", "told", "client", "knownAs"} /\ DOMAIN router.knownAs = Ports
      /\ router.layout \in Nat \ {0} /\ router.told \in Nat
  BY DEF FlowTypeOK
<1>3. CASE Begins(t, Blank) /\ UNCHANGED <<router, count>>
  <2>1. Sent(Blank)
    BY <1>2, <1>3 DEF Sent, Blank
  <2> QED
    BY <1>1, <1>3, <2>1, Zenon
<1>4. ASSUME NEW p \in Ports, NEW ways \in SUBSET {"out", "back"}, NEW teach \in BOOLEAN,
             Carries(p, ways, teach),
             Begins(t, [taught |-> IF teach THEN router.layout ELSE 0, layout |-> router.layout,
                        port |-> p, client |-> router.client[p], ways |-> ways])
      PROVE  \E d : Begins(t, d) /\ Sent(d)
  <2> DEFINE d == [taught |-> IF teach THEN router.layout ELSE 0, layout |-> router.layout,
                   port |-> p, client |-> router.client[p], ways |-> ways]
  <2>1. /\ ways # {} => teach \/ router.told = router.layout
        /\ "back" \in ways => "out" \in ways \/ router.knownAs[p] = router.client[p]
        /\ router' = [router EXCEPT
                        !.told = IF teach THEN router.layout ELSE router.told,
                        !.knownAs[p] = IF "out" \in ways THEN router.client[p] ELSE router.knownAs[p]]
    BY <1>4 DEF Carries
  <2>2. /\ DOMAIN router' = DOMAIN router /\ DOMAIN router'.knownAs = Ports
        /\ router'.layout = router.layout
        /\ router'.told = IF teach THEN router.layout ELSE router.told
        /\ \A q \in Ports : router'.knownAs[q] = IF "out" \in ways /\ p = q
                                                  THEN router.client[p] ELSE router.knownAs[q]
    BY <1>2, <2>1
  <2>3. Sent(d)
    BY <1>2, <2>1, <2>2 DEF Sent
  <2> QED
    BY <1>4, <2>3, Zenon
<1> QED
  BY <1>1, <1>3, <1>4 DEF Receive

FInv == Inv /\ FlowInv /\ DecodedAsSent /\ AttributedToOwner

\* What a datagram that waits is sure of.
LEMMA WaitsForItsOwn ==
  ASSUME FInv, NEW t \in Waiting, Ahead(t) = {}
  PROVE  /\ datagram[t].ways # {} => datagram[t].port \in Ports
         /\ datagram[t].taught \in {0, datagram[t].layout} /\ datagram[t].layout \in Nat
         /\ datagram[t].ways # {} /\ datagram[t].taught = 0 => template \in {0, datagram[t].layout}
         /\ "back" \in datagram[t].ways /\ "out" \notin datagram[t].ways =>
              table[datagram[t].port] \in {Nobody, datagram[t].client}
BY DEF FInv, FlowInv, FlowTypeOK, LayoutInv, ClientInv, Learns

\* The first of the line gets its slot.
LEMMA ContinueKeeps ==
  ASSUME FInv, NEW t \in Tasks, Continue(t)
  PROVE  FlowInv' /\ DecodedAsSent' /\ AttributedToOwner'
<1> DEFINE d == datagram[t]
<1>1. LineInv' /\ Leaves(t) /\ st[t] = "woken" /\ st'[t] = "running" /\ router' = router
  BY ResumeLeaves DEF Continue, FInv, FlowInv
<1>2. Handle(d) /\ datagram' = [datagram EXCEPT ![t] = Blank]
  BY <1>1 DEF Continue, Begins
<1>3. t \in Waiting /\ Ahead(t) = {} /\ Waiting \subseteq Tasks
  BY <1>1 DEF Leaves, Ahead, Waiting, In
<1>4. /\ d.ways # {} => d.port \in Ports
      /\ d.taught \in {0, d.layout} /\ d.layout \in Nat
      /\ d.ways # {} /\ d.taught = 0 => template \in {0, d.layout}
      /\ "back" \in d.ways /\ "out" \notin d.ways => table[d.port] \in {Nobody, d.client}
  BY <1>3, WaitsForItsOwn
<1>5. /\ FlowTypeOK /\ LineInv /\ LayoutInv /\ ClientInv /\ DecodedAsSent /\ AttributedToOwner
      /\ DOMAIN table = Ports /\ DOMAIN datagram = Tasks
      /\ template = 0 => \A p \in Ports : table[p] = Nobody
  BY DEF FInv, FlowInv, FlowTypeOK, ClientInv
<1>6. \A v \in Waiting' : datagram'[v] = datagram[v] /\ v \in Waiting
  BY <1>1, <1>2, <1>3, <1>5 DEF Leaves
<1> HIDE DEF d
<1>7. /\ template' = IF d.taught # 0 THEN d.taught ELSE template
      /\ DOMAIN table' = Ports /\ Noted(d, table, table')
      /\ template' = 0 => \A p \in Ports : table'[p] = Nobody
      /\ DecodedAsSent' /\ AttributedToOwner'
  BY <1>2, <1>4, <1>5, Handled
<1>8. FlowTypeOK'
  BY <1>1, <1>2, <1>4, <1>5, <1>6, <1>7 DEF FlowTypeOK
<1>9. Loses(t, Waiting, Line, Waiting', Line') /\ Carried(datagram, datagram', Waiting') /\ Waiting \in SUBSET Tasks
  BY <1>1, <1>3, <1>5, <1>6 DEF Leaves, Loses, Carried, FlowTypeOK
<1>10. LayoutInv'
  <2>1. LayoutBy(datagram, router, template, Waiting, Line)
    BY <1>5, LayoutNow
  <2>2. Learned(datagram[t], template, template')
    BY <1>7 DEF d, Learned
  <2>3. LayoutBy(datagram', router, template', Waiting', Line')
    BY <1>9, <2>1, <2>2, LayoutLeaves, Zenon
  <2> QED
    BY <1>1, <2>3, LayoutNow
<1>11. ClientInv'
  <2>1. ClientBy(datagram, router, table, Waiting, Line)
    BY <1>5, ClientNow
  <2>2. Noted(datagram[t], table, table')
    BY <1>7 DEF d
  <2>3. ClientBy(datagram', router, table', Waiting', Line')
    BY <1>9, <2>1, <2>2, ClientLeaves, Zenon
  <2> QED
    BY <1>1, <1>7, <2>3, ClientNow
<1> QED
  BY <1>1, <1>7, <1>8, <1>10, <1>11 DEF FlowInv

\* A datagram finds a free slot.
LEMMA ReceiveRuns ==
  ASSUME FInv, NEW t \in Tasks, Receive(t), ~Full
  PROVE  FlowInv' /\ DecodedAsSent' /\ AttributedToOwner'
<1>1. /\ FlowTypeOK /\ LineInv /\ LayoutInv /\ ClientInv /\ DecodedAsSent /\ AttributedToOwner
      /\ DOMAIN table = Ports /\ DOMAIN datagram = Tasks /\ Inv
      /\ template = 0 => \A p \in Ports : table[p] = Nobody
  BY DEF FInv, FlowInv, FlowTypeOK, ClientInv
<1>2. PICK d : Arrive(t) /\ Begins(t, d) /\ Sent(d)
  BY <1>1, ReceiveIsSent
<1>3. LineInv' /\ Waiting = {} /\ Waiting' = {} /\ st'[t] = "running" /\ st[t] = "new"
  BY <1>1, <1>2, ArriveVacant DEF Vacant, Arrive
<1>4. Handle(d) /\ datagram' = [datagram EXCEPT ![t] = Blank]
  BY <1>2, <1>3 DEF Begins
<1>5. /\ router.told = router.layout => template \in {0, router.layout}
      /\ \A p \in Ports : table[p] \in {Nobody, router.knownAs[p]}
  BY <1>1, <1>3 DEF LayoutInv, ClientInv, Learns
<1>6. /\ d.layout \in Nat /\ d.taught \in {0, d.layout} /\ d.taught \in {0, router.layout}
      /\ d.ways # {} => d.port \in Ports /\ d.layout = router.layout
      /\ d.ways # {} /\ d.taught = 0 => router.told = router.layout
      /\ "back" \in d.ways /\ "out" \notin d.ways => router.knownAs[d.port] = d.client
      /\ DOMAIN router' = DOMAIN router /\ DOMAIN router'.knownAs = Ports
      /\ router'.layout = router.layout
      /\ router'.told = IF d.taught = 0 THEN router.told ELSE router.layout
      /\ \A p \in Ports : router'.knownAs[p] = IF "out" \in d.ways /\ d.port = p
                                             THEN d.client ELSE router.knownAs[p]
  BY <1>2 DEF Sent
<1>7. /\ d.ways # {} => d.port \in Ports
      /\ d.ways # {} /\ d.taught = 0 => template \in {0, d.layout}
      /\ "back" \in d.ways /\ "out" \notin d.ways => table[d.port] \in {Nobody, d.client}
  <2>1. "back" \in d.ways => d.ways # {}
    OBVIOUS
  <2> QED
    BY <1>5, <1>6, <2>1
<1>8. /\ template' = IF d.taught # 0 THEN d.taught ELSE template
      /\ DOMAIN table' = Ports /\ Noted(d, table, table')
      /\ template' = 0 => \A p \in Ports : table'[p] = Nobody
      /\ DecodedAsSent' /\ AttributedToOwner'
  BY <1>1, <1>4, <1>6, <1>7, Handled
<1>9. FlowTypeOK'
  BY <1>1, <1>3, <1>4, <1>6, <1>8 DEF FlowTypeOK
<1>10. LayoutInv'
  BY <1>3, <1>5, <1>6, <1>8 DEF LayoutInv, Learns
<1>11. ClientInv'
  <2>1. \A p \in Ports : table'[p] \in {Nobody, router'.knownAs[p]}
    BY <1>5, <1>6, <1>8 DEF Noted
  <2> QED
    BY <1>3, <1>8, <2>1 DEF ClientInv, Learns
<1> QED
  BY <1>3, <1>8, <1>9, <1>10, <1>11 DEF FlowInv

\* A datagram has to wait.
LEMMA ReceiveWaits ==
  ASSUME FInv, NEW t \in Tasks, Receive(t), Full
  PROVE  FlowInv' /\ DecodedAsSent' /\ AttributedToOwner'
<1>1. /\ FlowTypeOK /\ LineInv /\ LayoutInv /\ ClientInv /\ DecodedAsSent /\ AttributedToOwner
      /\ DOMAIN table = Ports /\ DOMAIN datagram = Tasks /\ Inv
      /\ template = 0 => \A p \in Ports : table[p] = Nobody
  BY DEF FInv, FlowInv, FlowTypeOK, ClientInv
<1>2. PICK d : Arrive(t) /\ Begins(t, d) /\ Sent(d)
  BY <1>1, ReceiveIsSent
<1>3. LineInv' /\ Joins(t) /\ st'[t] = "queued"
  BY <1>1, <1>2, ArriveJoins
<1>4. datagram' = [datagram EXCEPT ![t] = d] /\ UNCHANGED <<template, table, decoded, flows>>
  BY <1>2, <1>3 DEF Begins
<1>5. /\ Waiting' = Waiting \union {t} /\ t \in Tasks \ Waiting /\ Waiting \in SUBSET Tasks
      /\ \A v, w \in Waiting : <<v, w>> \in Line' <=> <<v, w>> \in Line
      /\ \A v \in Waiting : <<v, t>> \in Line' /\ <<t, v>> \notin Line'
      /\ <<t, t>> \notin Line'
  BY <1>3 DEF Joins, Waiting, In
<1>6. /\ d.layout \in Nat /\ d.taught \in {0, d.layout} /\ d.taught \in {0, router.layout}
      /\ d.ways # {} => d.port \in Ports /\ d.layout = router.layout
      /\ d.ways # {} /\ d.taught = 0 => router.told = router.layout
      /\ "back" \in d.ways /\ "out" \notin d.ways => router.knownAs[d.port] = d.client
      /\ DOMAIN router' = DOMAIN router /\ DOMAIN router'.knownAs = Ports
      /\ router'.layout = router.layout
      /\ router'.told = IF d.taught = 0 THEN router.told ELSE router.layout
      /\ \A p \in Ports : router'.knownAs[p] = IF "out" \in d.ways /\ d.port = p
                                             THEN d.client ELSE router.knownAs[p]
  BY <1>2 DEF Sent
<1>7. datagram'[t] = d /\ \A v \in Waiting : datagram'[v] = datagram[v]
  BY <1>1, <1>4, <1>5
<1>8. FlowTypeOK'
  BY <1>1, <1>4, <1>5, <1>6, <1>7 DEF FlowTypeOK
<1>9. DecodedAsSent' /\ AttributedToOwner'
  BY <1>1, <1>4 DEF DecodedAsSent, AttributedToOwner
<1>12. Gains(t, Waiting, Line, Waiting', Line') /\ Carried(datagram, datagram', Waiting) /\ Waiting \in SUBSET Tasks
  BY <1>1, <1>5, <1>7 DEF Gains, Carried, FlowTypeOK
<1>10. LayoutInv'
  <2>1. LayoutBy(datagram, router, template, Waiting, Line)
    BY <1>1, LayoutNow
  <2>2. TellsLayout(datagram'[t], router, router')
    BY <1>6, <1>7 DEF TellsLayout
  <2>3. LayoutBy(datagram', router', template, Waiting', Line')
    BY <1>12, <2>1, <2>2, LayoutJoins, Zenon
  <2> QED
    BY <1>4, <2>3, LayoutNow
<1>11. ClientInv'
  <2>1. ClientBy(datagram, router, table, Waiting, Line)
    BY <1>1, ClientNow
  <2>2. TellsClient(datagram'[t], router, router')
    BY <1>6, <1>7 DEF TellsClient
  <2>3. ClientBy(datagram', router', table, Waiting', Line')
    BY <1>12, <2>1, <2>2, ClientJoins, Zenon
  <2> QED
    BY <1>1, <1>4, <2>3, ClientNow
<1> QED
  BY <1>3, <1>8, <1>9, <1>10, <1>11 DEF FlowInv

\* The limiter moves, and nobody joins the line or leaves it.
LEMMA StaysKeeps ==
  ASSUME FInv, LineInv', Stays, UNCHANGED flowVars
  PROVE  FlowInv' /\ DecodedAsSent' /\ AttributedToOwner'
<1>1. /\ Waiting' = Waiting /\ Line' = Line
      /\ UNCHANGED <<router, datagram, template, table, decoded, flows>>
  BY DEF Stays, flowVars
<1>2. FlowTypeOK /\ LayoutInv /\ ClientInv /\ DecodedAsSent /\ AttributedToOwner
  BY DEF FInv, FlowInv
<1>3. FlowTypeOK' /\ DecodedAsSent' /\ AttributedToOwner'
  BY <1>1, <1>2 DEF FlowTypeOK, DecodedAsSent, AttributedToOwner
<1>4. LayoutInv' /\ ClientInv'
  BY <1>1, <1>2, LayoutNow, ClientNow
<1> QED
  BY <1>3, <1>4 DEF FlowInv

\* Whether the line is kept depends on what the limiter does only.
LEMMA LimiterMoves ==
  ASSUME FInv, NEW t \in Tasks, Ingested(t) \/ Leave(t)
  PROVE  FlowInv' /\ DecodedAsSent' /\ AttributedToOwner'
<1>1. Inv /\ LineInv /\ UNCHANGED flowVars /\ (Settle(t) \/ Finally(t))
  BY DEF FInv, FlowInv, Ingested, Leave
<1>2. LineInv' /\ Stays
  BY <1>1, SettleStays, FinallyIdles, FinallyMovesOn, Zenon
<1> QED
  BY <1>1, <1>2, StaysKeeps

\* The router changes what it has yet to tell.
LEMMA RouterChanges ==
  ASSUME FInv, NewLayout \/ \E p \in Ports, c \in Clients : Reuse(p, c)
  PROVE  FInv'
<1>1. UNCHANGED <<st, active, queue, micro, datagram, template, table, decoded, flows>>
  BY DEF NewLayout, Reuse, vars
<1>2. /\ Waiting' = Waiting /\ Line' = Line /\ Holding' = Holding /\ Woken' = Woken
  BY <1>1 DEF Waiting, Line, Before, Precedes, Holding, Woken, In
<1>3. FlowTypeOK
  BY DEF FInv, FlowInv
<1>4. /\ DOMAIN router' = DOMAIN router /\ router'.told = router.told /\ router'.knownAs = router.knownAs
      /\ router'.layout = router.layout \/ router'.layout = router.layout + 1
  BY <1>3 DEF NewLayout, Reuse, FlowTypeOK
<1>5. Inv'
  <2>1. Inv
    BY DEF FInv
  <2>2. [Next]_vars
    BY <1>1 DEF vars
  <2> QED
    BY <2>1, <2>2, InvNext
<1>6. LineInv' /\ DecodedAsSent' /\ AttributedToOwner'
  BY <1>1 DEF FInv, FlowInv, LineInv, DecodedAsSent, AttributedToOwner
<1>7. FlowTypeOK'
  BY <1>1, <1>2, <1>3, <1>4 DEF FlowTypeOK
<1>8. router'.told = router'.layout => router.told = router.layout /\ router'.layout = router.layout
  BY <1>3, <1>4 DEF FlowTypeOK
<1>9. LayoutInv'
  <2>1. LayoutBy(datagram, router, template, Waiting, Line)
    BY LayoutNow DEF FInv, FlowInv
  <2>2. LayoutBy(datagram, router', template, Waiting, Line)
    BY <1>8, <2>1 DEF LayoutBy
  <2> QED
    BY <1>1, <1>2, <2>2, LayoutNow
<1>10. ClientInv'
  <2>1. /\ ClientBy(datagram, router, table, Waiting, Line)
        /\ template = 0 => \A p \in Ports : table[p] = Nobody
    BY ClientNow DEF FInv, FlowInv
  <2>2. ClientBy(datagram, router', table, Waiting, Line)
    BY <1>4, <2>1 DEF ClientBy
  <2> QED
    BY <1>1, <1>2, <2>1, <2>2, ClientNow
<1> QED
  BY <1>5, <1>6, <1>7, <1>9, <1>10 DEF FInv, FlowInv

\* Nobody waits, nobody holds a slot, and nothing is remembered.
LEMMA EmptyLine ==
  /\ (\A t \in Tasks : st[t] \in {"new", "done"}) =>
       Waiting = {} /\ Holding = {} /\ Woken = {} /\ Cardinality(Holding) = 0 /\ Cardinality(Woken) = 0
       /\ IsFiniteSet(Holding) /\ IsFiniteSet(Woken)
  /\ (\A t \in Tasks : st'[t] \in {"new", "done"}) =>
       Waiting' = {} /\ Holding' = {} /\ Woken' = {} /\ Cardinality(Holding') = 0 /\ Cardinality(Woken') = 0
       /\ IsFiniteSet(Holding') /\ IsFiniteSet(Woken')
<1>1. /\ (\A t \in Tasks : st[t] \in {"new", "done"}) => Waiting = {} /\ Holding = {} /\ Woken = {}
      /\ (\A t \in Tasks : st'[t] \in {"new", "done"}) => Waiting' = {} /\ Holding' = {} /\ Woken' = {}
  BY DEF Waiting, Holding, Woken, In
<1> QED
  BY <1>1, FS_EmptySet

LEMMA RestartKeeps ==
  ASSUME FInv, Restart
  PROVE  FInv'
<1>1. /\ FlowTypeOK /\ DecodedAsSent /\ AttributedToOwner /\ st \in [Tasks -> Phases]
  BY DEF FInv, FlowInv, Inv, TypeOK
<1>2. /\ template' = 0 /\ table' = [p \in Ports |-> Nobody] /\ datagram' = [t \in Tasks |-> Blank]
      /\ st' = [t \in Tasks |-> IF st[t] = "new" THEN "new" ELSE "done"]
      /\ active' = 0 /\ queue' = <<>> /\ micro' = <<>>
      /\ UNCHANGED <<router, decoded, flows>>
  BY DEF Restart
<1>3. \A t \in Tasks : st'[t] \in {"new", "done"}
  BY <1>2
<1>4. /\ Waiting' = {} /\ Cardinality(Holding') = 0 /\ Cardinality(Woken') = 0
      /\ IsFiniteSet(Holding') /\ IsFiniteSet(Woken')
  BY <1>3, EmptyLine
<1>5. Inv'
  <2>1. TypeOK'
    BY <1>2 DEF TypeOK, Phases
  <2>2. WaitersQueued' /\ WokenAreDue'
    BY <1>2, <1>3 DEF WaitersQueued, WokenAreDue
  <2>3. Counted' /\ Bounded'
    BY <1>2, <1>4, MaxOK DEF Counted, Bounded
  <2> QED
    BY <2>1, <2>2, <2>3 DEF Inv, SlotsInv
<1>6. LineInv'
  BY <1>2, <1>3 DEF LineInv
<1>7. FlowTypeOK' /\ DecodedAsSent' /\ AttributedToOwner'
  BY <1>1, <1>2, <1>4 DEF FlowTypeOK, DecodedAsSent, AttributedToOwner
<1>8. LayoutInv' /\ ClientInv'
  BY <1>2, <1>4 DEF LayoutInv, ClientInv, Learns
<1> QED
  BY <1>5, <1>6, <1>7, <1>8 DEF FInv, FlowInv

LEMMA FInvInit == FlowInit => FInv
<1> SUFFICES ASSUME FlowInit
             PROVE  FInv
  OBVIOUS
<1>1. Inv
  BY InvInit DEF FlowInit
<1>2. \A t \in Tasks : st[t] \in {"new", "done"}
  BY DEF FlowInit, Init
<1>3. Waiting = {}
  BY <1>2, EmptyLine
<1>4. LineInv
  BY <1>2 DEF FlowInit, Init, LineInv
<1>5. FlowTypeOK /\ DecodedAsSent /\ AttributedToOwner
  BY <1>3 DEF FlowInit, FlowTypeOK, DecodedAsSent, AttributedToOwner
<1>6. LayoutInv /\ ClientInv
  BY <1>3 DEF FlowInit, LayoutInv, ClientInv, Learns
<1> QED
  BY <1>1, <1>4, <1>5, <1>6 DEF FInv, FlowInv

LEMMA FInvNext == FInv /\ [FlowNext]_allVars => FInv'
<1> SUFFICES ASSUME FInv, [FlowNext]_allVars
             PROVE  FInv'
  OBVIOUS
<1>1. CASE UNCHANGED allVars
  <2>1. UNCHANGED vars /\ UNCHANGED flowVars
    BY <1>1 DEF allVars
  <2>2. Inv'
    BY <2>1, InvNext DEF FInv
  <2>3. LineInv' /\ Stays
    BY <2>1 DEF vars, FInv, FlowInv, LineInv, Stays, Waiting, Line, Before, Precedes, In
  <2> QED
    BY <2>1, <2>2, <2>3, StaysKeeps DEF FInv
<1>2. CASE NewLayout \/ \E p \in Ports, c \in Clients : Reuse(p, c)
  BY <1>2, RouterChanges
<1>3. ASSUME NEW t \in Tasks, Receive(t) \/ Continue(t) \/ Ingested(t) \/ Leave(t)
      PROVE  FInv'
  <2>1. Inv'
    <3>1. Next
      BY <1>3 DEF Receive, Continue, Ingested, Leave, Next
    <3> QED
      BY <3>1, InvNext DEF FInv
  <2>2. FlowInv' /\ DecodedAsSent' /\ AttributedToOwner'
    BY <1>3, ReceiveRuns, ReceiveWaits, ContinueKeeps, LimiterMoves, Zenon
  <2> QED
    BY <2>1, <2>2 DEF FInv
<1>4. CASE Restart
  BY <1>4, RestartKeeps
<1> QED
  BY <1>1, <1>2, <1>3, <1>4 DEF FlowNext

-----------------------------------------------------------------------------
(* Results.                                                                *)

\* Every record is decoded by the layout it was written in, whatever waited
\* for a slot, whenever the router changed layouts and the collector restarted.
THEOREM RecordsDecodedAsSent == FlowSpec => []DecodedAsSent
<1>1. FInv => DecodedAsSent
  BY DEF FInv
<1> QED
  BY <1>1, FInvInit, FInvNext, PTL DEF FlowSpec

\* No bytes are given to another client than their own, for any number of
\* clients that share the ports.
THEOREM BytesAttributedToOwner == FlowSpec => []AttributedToOwner
<1>1. FInv => AttributedToOwner
  BY DEF FInv
<1> QED
  BY <1>1, FInvInit, FInvNext, PTL DEF FlowSpec

\* The collector keeps its slots within their number and leaves none idle while
\* a datagram waits, restarts included.
THEOREM CollectorBounded == FlowSpec => [](Bounded /\ NoIdleSlot)
<1>1. FInv => Bounded /\ NoIdleSlot
  BY NoneWoken, CountsAreNumbers, MaxOK DEF FInv, Inv, SlotsInv, Counted, NoIdleSlot
<1> QED
  BY <1>1, FInvInit, FInvNext, PTL DEF FlowSpec

=============================================================================
