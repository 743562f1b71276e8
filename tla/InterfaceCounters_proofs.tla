----------------------- MODULE InterfaceCounters_proofs -----------------------
(***************************************************************************)
(* Proofs about InterfaceCounters, for any number of pushes, requests to   *)
(* the catch-up endpoint, reboots and failures.                            *)
(***************************************************************************)
EXTENDS InterfaceCounters, FiniteSetTheorems, TLAPS

ProcRows == [pc : PCs, at : 0..MaxPushes, value : Nat, truth : Nat, previous : 0..MaxPushes]
Spends == [pushes : Nat, resets : Nat, catchUps : Nat, faults : Nat]

-----------------------------------------------------------------------------
(* Facts about the data.                                                   *)

\* A table of raw events grows by the event appended.
LEMMA RangeOfAppend ==
  ASSUME NEW s \in Seq(Times), NEW t \in Times
  PROVE  /\ Append(s, t) \in Seq(Times)
         /\ Range1(Append(s, t)) = Range1(s) \union {t}
         /\ Range1(s) \subseteq Times
<1>1. Range1(s) \subseteq Times
  BY DEF Range1
<1>2. /\ Append(s, t) \in Seq(Times)
      /\ Len(Append(s, t)) = Len(s) + 1 /\ Len(s) \in Nat
      /\ \A i \in 1..Len(s) : Append(s, t)[i] = s[i]
      /\ Append(s, t)[Len(s) + 1] = t
      /\ DOMAIN Append(s, t) = 1..(Len(s) + 1) /\ DOMAIN s = 1..Len(s)
  OBVIOUS
<1>3. 1..(Len(s) + 1) = 1..Len(s) \union {Len(s) + 1}
  BY <1>2
<1> HIDE <1>2
<1>4. ASSUME NEW x \in Range1(Append(s, t)) PROVE x \in Range1(s) \union {t}
  <2>1. PICK i \in 1..(Len(s) + 1) : x = Append(s, t)[i]
    BY <1>2, <1>4 DEF Range1
  <2> QED
    BY <1>2, <1>3, <2>1 DEF Range1
<1>5. ASSUME NEW x \in Range1(s) \union {t} PROVE x \in Range1(Append(s, t))
  <2>1. CASE x = t
    BY <1>2, <1>3, <2>1 DEF Range1
  <2>2. CASE x \in Range1(s)
    <3>1. PICK i \in 1..Len(s) : x = s[i]
      BY <1>2, <2>2 DEF Range1
    <3> QED
      BY <1>2, <1>3, <3>1 DEF Range1
  <2> QED
    BY <1>5, <2>1, <2>2
<1> QED
  BY <1>1, <1>2, <1>4, <1>5

\* A growth is never negative.
LEMMA GrowthType ==
  ASSUME NEW current \in Nat, NEW previous \in Nat
  PROVE  Growth(current, previous) \in Nat
BY DEF Growth

\* The process that takes a step has a new row, the others keep theirs.
LEMMA ProcMoves ==
  ASSUME TypeOK, NEW p \in Procs, NEW row \in ProcRows, proc' = [proc EXCEPT ![p] = row]
  PROVE  /\ proc' \in [Procs -> ProcRows]
         /\ proc'[p] = row
         /\ \A q \in Procs \ {p} : proc'[q] = proc[q]
BY DEF TypeOK, ProcRows

\* What a process may have in its hand.
LEMMA RowTypes ==
  ASSUME TypeOK, NEW p \in Procs
  PROVE  /\ proc[p] \in ProcRows
         /\ Idle \in ProcRows /\ Idle.pc = "idle"
         /\ \A pc \in PCs : [proc[p] EXCEPT !.pc = pc] \in ProcRows
<1>1. proc[p] \in ProcRows
  BY DEF TypeOK, ProcRows
<1>2. 0 \in 0..MaxPushes /\ 0 \in Nat
  BY CountersOK DEF CountersOK
<1>3. "idle" \in PCs
  BY DEF PCs
<1>4. Idle \in ProcRows /\ Idle.pc = "idle"
  BY <1>2, <1>3 DEF Idle, ProcRows
<1> QED
  BY <1>1, <1>4 DEF ProcRows

\* Going to the next statement, or resting, in those terms.
LEMMA Moved ==
  ASSUME TypeOK, NEW p \in Procs
  PROVE  /\ Release(p) => proc' = [proc EXCEPT ![p] = Idle]
         /\ \A pc \in PCs : Goto(p, pc) => proc' = [proc EXCEPT ![p] = [proc[p] EXCEPT !.pc = pc]]
BY DEF TypeOK, Release, Goto

LEMMA IInvInit == Init => IInv
<1> SUFFICES ASSUME Init PROVE IInv
  OBVIOUS
<1>1. Range1(stored) = {} /\ stored \in Seq(Times)
  BY DEF Init, Range1
<1>2. TypeOK
  <2>1. 0 \in 0..MaxPushes /\ "idle" \in PCs
    BY CountersOK DEF CountersOK, PCs
  <2>2. Idle \in ProcRows
    BY <2>1 DEF Idle, ProcRows
  <2> QED
    BY <1>1, <2>1, <2>2 DEF Init, TypeOK, ProcRows
<1>3. StampedAndStored /\ AboutSamples /\ DeltasAreAdjacent /\ FoundIsAdjacent
  BY <1>1 DEF Init, StampedAndStored, AboutSamples, DeltasAreAdjacent, FoundIsAdjacent, Idle,
              Normalising
<1> QED
  BY <1>2, <1>3 DEF IInv

\* A step of a process before it reads or writes a sample.
LEMMA EarlyStep ==
  ASSUME IInv, NEW p \in Procs, NEW row \in ProcRows,
         proc' = [proc EXCEPT ![p] = row],
         row.pc \notin {"findPrevious", "insertDelta"},
         UNCHANGED <<tables, late>>,
         clock' \in 0..MaxPushes, clock' >= clock,
         Range1(stored') \subseteq 1..clock', Range1(stored) \subseteq Range1(stored'),
         row.pc \notin {"idle", "stamp"} => row.at \in 1..clock',
         row.pc \in Normalising => row.at \in Range1(stored'),
         \A r \in Runners : todo'[r] \subseteq Range1(stored')
  PROVE  StampedAndStored' /\ AboutSamples' /\ DeltasAreAdjacent' /\ FoundIsAdjacent'
<1>1. /\ proc'[p] = row
      /\ \A q \in Procs \ {p} : proc'[q] = proc[q]
  BY ProcMoves DEF IInv
<1>2. 1..clock \subseteq 1..clock'
  BY DEF IInv, TypeOK
<1>3. StampedAndStored'
  <2>1. ASSUME NEW q \in Procs
        PROVE  /\ proc'[q].pc \notin {"idle", "stamp"} => proc'[q].at \in 1..clock'
               /\ proc'[q].pc \in Normalising => proc'[q].at \in Range1(stored')
    <3>1. CASE q = p
      BY <1>1, <3>1
    <3>2. CASE q # p
      <4>1. proc'[q] = proc[q]
        BY <1>1, <3>2
      <4> QED
        BY <1>2, <4>1 DEF IInv, StampedAndStored
    <3> QED
      BY <3>1, <3>2
  <2>2. Range1(stored)' = Range1(stored')
    BY DEF Range1
  <2> QED
    BY <2>1, <2>2 DEF StampedAndStored
<1>4. AboutSamples' /\ DeltasAreAdjacent' /\ FoundIsAdjacent'
  BY <1>1 DEF IInv, AboutSamples, DeltasAreAdjacent, FoundIsAdjacent, Adjacent, tables
<1> QED
  BY <1>3, <1>4

\* A step that leaves the samples, the deltas and the handlers alone.
LEMMA QuietStep ==
  ASSUME IInv, UNCHANGED <<clock, stored, tables, proc, late>>,
         \A r \in Runners : todo'[r] \subseteq Range1(stored)
  PROVE  StampedAndStored' /\ AboutSamples' /\ DeltasAreAdjacent' /\ FoundIsAdjacent'
<1>1. StampedAndStored'
  BY DEF IInv, StampedAndStored, Range1
<1>2. AboutSamples' /\ DeltasAreAdjacent' /\ FoundIsAdjacent'
  BY DEF IInv, AboutSamples, DeltasAreAdjacent, FoundIsAdjacent, Adjacent, tables
<1> QED
  BY <1>1, <1>2

-----------------------------------------------------------------------------
(* One lemma per action.                                                   *)

LEMMA PushStep ==
  ASSUME IInv, NEW p \in Requests, Push(p)
  PROVE  IInv'
<1>1. PICK d \in Increments, reset \in BOOLEAN :
        /\ proc[p].pc = "idle"
        /\ spent' = [spent EXCEPT !.pushes = @ + 1, !.resets = IF reset THEN @ + 1 ELSE @]
        /\ counter' = IF reset THEN d ELSE counter + d
        /\ moved' = moved + d
        /\ proc' = [proc EXCEPT ![p] = [Idle EXCEPT !.pc = "stamp", !.value = counter',
                                                    !.truth = moved']]
        /\ UNCHANGED <<clock, raw, tables, todo, late>>
  BY DEF Push
<1> DEFINE row == [Idle EXCEPT !.pc = "stamp", !.value = counter', !.truth = moved']
<1>2. p \in Procs /\ d \in Nat
  BY CountersOK DEF Procs, CountersOK
<1>3. counter' \in Nat /\ moved' \in Nat
  BY <1>1, <1>2 DEF IInv, TypeOK
<1>4. row \in ProcRows /\ row.pc = "stamp"
  <2>1. Idle \in ProcRows /\ "stamp" \in PCs
    BY <1>2, RowTypes DEF IInv, PCs
  <2> QED
    BY <1>3, <2>1 DEF ProcRows
<1>5. proc' = [proc EXCEPT ![p] = row]
  BY <1>1
<1> HIDE DEF row
<1>6. proc' \in [Procs -> ProcRows]
  BY <1>2, <1>4, <1>5, ProcMoves DEF IInv
<1>7. spent' \in Spends
  <2> DEFINE pushes == spent.pushes + 1
             resets == IF reset THEN spent.resets + 1 ELSE spent.resets
  <2>1. spent \in Spends
    BY DEF IInv, TypeOK, Spends
  <2>2. pushes \in Nat /\ resets \in Nat
    BY <2>1 DEF Spends
  <2>3. spent' = [spent EXCEPT !.pushes = pushes, !.resets = resets]
    BY <1>1, <2>1 DEF Spends
  <2> HIDE DEF pushes, resets
  <2> QED
    BY <2>1, <2>2, <2>3 DEF Spends
<1>8. TypeOK'
  BY <1>1, <1>3, <1>6, <1>7 DEF IInv, TypeOK, ProcRows, Spends, raw, tables
<1>9. /\ clock' \in 0..MaxPushes /\ clock' >= clock
      /\ Range1(stored') \subseteq 1..clock' /\ stored' = stored
      /\ \A r \in Runners : todo'[r] \subseteq Range1(stored')
  BY <1>1 DEF raw, IInv, TypeOK, StampedAndStored
<1> QED
  BY <1>1, <1>2, <1>4, <1>5, <1>8, <1>9, EarlyStep DEF IInv, Normalising

LEMMA StampStep ==
  ASSUME IInv, NEW p \in Requests, Stamp(p)
  PROVE  IInv'
<1>1. PICK t \in Times \intersect {clock, clock + 1} :
        /\ proc[p].pc = "stamp"
        /\ clock' = t
        /\ proc' = [proc EXCEPT ![p].pc = "lookup", ![p].at = t]
        /\ UNCHANGED <<router, raw, tables, todo, late, spent>>
  BY DEF Stamp
<1> DEFINE row == [proc[p] EXCEPT !.pc = "lookup", !.at = t]
<1>2. p \in Procs /\ t \in 1..MaxPushes /\ t >= clock /\ MaxPushes \in Nat /\ clock \in Nat
  BY CountersOK DEF Procs, Times, CountersOK, IInv, TypeOK
<1>3. row \in ProcRows /\ row.pc = "lookup" /\ row.at = t
  <2>1. proc[p] \in ProcRows /\ "lookup" \in PCs /\ t \in 0..MaxPushes
    BY <1>2, RowTypes DEF IInv, PCs
  <2> QED
    BY <2>1 DEF ProcRows
<1>4. proc' = [proc EXCEPT ![p] = row]
  BY <1>1, <1>2 DEF IInv, TypeOK
<1> HIDE DEF row
<1>5. proc' \in [Procs -> ProcRows]
  BY <1>2, <1>3, <1>4, ProcMoves DEF IInv
<1>6. TypeOK'
  BY <1>1, <1>2, <1>5 DEF IInv, TypeOK, ProcRows, router, raw, tables
<1>7. /\ clock' \in 0..MaxPushes /\ clock' >= clock /\ t \in 1..clock'
      /\ Range1(stored') \subseteq 1..clock' /\ stored' = stored
      /\ \A r \in Runners : todo'[r] \subseteq Range1(stored')
  BY <1>1, <1>2 DEF raw, IInv, StampedAndStored
<1> QED
  BY <1>1, <1>2, <1>3, <1>4, <1>6, <1>7, EarlyStep DEF IInv, Normalising

LEMMA LookupStep ==
  ASSUME IInv, NEW p \in Requests, Lookup(p)
  PROVE  IInv'
<1>1. /\ proc[p].pc = "lookup"
      /\ Release(p) \/ Goto(p, "insertRaw")
      /\ UNCHANGED <<router, clock, raw, tables, todo, late, spent>>
      /\ p \in Procs
  BY DEF Lookup, Procs
<1>2. PICK row \in {Idle, [proc[p] EXCEPT !.pc = "insertRaw"]} : proc' = [proc EXCEPT ![p] = row]
  BY <1>1, Moved DEF IInv, PCs
<1>3. /\ row \in ProcRows
      /\ row.pc \in {"idle", "insertRaw"}
      /\ row.pc = "insertRaw" => row.at = proc[p].at
  <2>1. "insertRaw" \in PCs
    BY DEF PCs
  <2> QED
    BY <1>1, <1>2, <2>1, RowTypes DEF IInv, ProcRows
<1>4. proc' \in [Procs -> ProcRows]
  BY <1>1, <1>2, <1>3, ProcMoves DEF IInv
<1>5. TypeOK'
  BY <1>1, <1>4 DEF IInv, TypeOK, ProcRows, router, raw, tables
<1>6. /\ clock' = clock /\ stored' = stored /\ clock \in 0..MaxPushes
      /\ Range1(stored) \subseteq 1..clock
      /\ proc[p].at \in 1..clock
      /\ \A r \in Runners : todo'[r] \subseteq Range1(stored)
  BY <1>1 DEF raw, IInv, TypeOK, StampedAndStored
<1>7. clock' \in 0..MaxPushes /\ clock' >= clock
  BY <1>6
<1> QED
  BY <1>1, <1>2, <1>3, <1>5, <1>6, <1>7, EarlyStep DEF IInv, Normalising

LEMMA InsertRawStep ==
  ASSUME IInv, NEW p \in Requests, InsertRaw(p)
  PROVE  IInv'
<1> DEFINE t == proc[p].at
           row == [Idle EXCEPT !.pc = "insertSample", !.at = t]
<1>1. /\ proc[p].pc = "insertRaw" /\ p \in Procs
      /\ UNCHANGED <<router, clock, tables, todo, late, spent>>
  BY DEF InsertRaw, Procs
<1>2. /\ t \in 1..clock /\ clock \in 0..MaxPushes /\ MaxPushes \in Nat
      /\ stored \in Seq(Times) /\ Range1(stored) \subseteq 1..clock
      /\ proc[p] \in ProcRows
  BY <1>1, CountersOK, RowTypes DEF IInv, TypeOK, StampedAndStored, CountersOK
<1>3. t \in Times
  BY <1>2 DEF Times
<1>4. CASE t \in Range1(stored)
  <2>1. proc' = [proc EXCEPT ![p] = Idle] /\ UNCHANGED raw
    BY <1>1, <1>4, Moved DEF InsertRaw, IInv
  <2>2. Idle \in ProcRows /\ Idle.pc = "idle"
    BY <1>1, RowTypes DEF IInv
  <2>3. proc' \in [Procs -> ProcRows]
    BY <1>1, <2>1, <2>2, ProcMoves DEF IInv
  <2>4. TypeOK'
    BY <1>1, <2>1, <2>3 DEF IInv, TypeOK, ProcRows, router, raw, tables
  <2>5. /\ clock' = clock /\ stored' = stored /\ clock' >= clock
        /\ \A r \in Runners : todo'[r] \subseteq Range1(stored)
    BY <1>1, <1>2, <2>1 DEF raw, IInv, StampedAndStored
  <2> QED
    BY <1>1, <1>2, <2>1, <2>2, <2>4, <2>5, EarlyStep DEF IInv, Normalising
<1>5. CASE t \notin Range1(stored)
  <2>1. /\ stored' = Append(stored, t)
        /\ value' = [value EXCEPT ![t] = proc[p].value]
        /\ truth' = [truth EXCEPT ![t] = proc[p].truth]
        /\ proc' = [proc EXCEPT ![p] = row]
        /\ UNCHANGED done
    BY <1>5 DEF InsertRaw
  <2>2. row \in ProcRows /\ row.pc = "insertSample" /\ row.at = t
    <3>1. t \in 0..MaxPushes
      BY <1>2
    <3>2. Idle \in ProcRows /\ "insertSample" \in PCs
      BY <1>1, RowTypes DEF IInv, PCs, Normalising
    <3> QED
      BY <3>1, <3>2 DEF ProcRows
  <2>3. proc' \in [Procs -> ProcRows]
    BY <1>1, <2>1, <2>2, ProcMoves DEF IInv
  <2>4. stored' \in Seq(Times) /\ Range1(stored') = Range1(stored) \union {t}
    BY <1>2, <1>3, <2>1, RangeOfAppend
  <2>5. value' \in [Times -> Nat] /\ truth' \in [Times -> Nat]
    BY <1>2, <2>1 DEF IInv, TypeOK, ProcRows
  <2>6. TypeOK'
    <3>1. done' \subseteq Range1(stored') /\ samples' \subseteq Range1(stored')
      BY <1>1, <2>1, <2>4 DEF IInv, TypeOK, tables
    <3> QED
      BY <1>1, <2>3, <2>4, <2>5, <3>1 DEF IInv, TypeOK, ProcRows, router, tables
  <2>7. /\ clock' = clock /\ clock' >= clock
        /\ Range1(stored') \subseteq 1..clock'
        /\ \A r \in Runners : todo'[r] \subseteq Range1(stored')
    BY <1>1, <1>2, <2>4 DEF IInv, StampedAndStored
  <2> QED
    BY <1>1, <1>2, <2>1, <2>2, <2>4, <2>6, <2>7, EarlyStep DEF IInv
<1> QED
  BY <1>4, <1>5

LEMMA StartCatchUpStep ==
  ASSUME IInv, NEW r \in Runners, StartCatchUp(r)
  PROVE  IInv'
<1>1. /\ spent' = [spent EXCEPT !.catchUps = @ + 1]
      /\ todo' = [todo EXCEPT ![r] = Pending]
      /\ UNCHANGED <<router, clock, raw, tables, proc, late>>
  BY DEF StartCatchUp
<1>2. /\ Range1(stored) \subseteq 1..clock /\ clock \in 0..MaxPushes /\ MaxPushes \in Nat
      /\ todo \in [Runners -> SUBSET Times]
      /\ \A q \in Runners : todo[q] \subseteq Range1(stored)
  BY CountersOK DEF CountersOK, IInv, TypeOK, StampedAndStored
<1>3. Pending \subseteq Range1(stored) /\ Range1(stored) \subseteq Times
  BY <1>2 DEF Pending, Times
<1>4. /\ todo' \in [Runners -> SUBSET Times]
      /\ \A q \in Runners : todo'[q] \subseteq Range1(stored)
  BY <1>1, <1>2, <1>3
<1>5. spent' \in Spends
  <2> DEFINE catchUps == spent.catchUps + 1
  <2>1. spent \in Spends /\ catchUps \in Nat
    BY DEF IInv, TypeOK, Spends
  <2>2. spent' = [spent EXCEPT !.catchUps = catchUps]
    BY <1>1
  <2> HIDE DEF catchUps
  <2> QED
    BY <2>1, <2>2 DEF Spends
<1>6. TypeOK'
  BY <1>1, <1>4, <1>5 DEF IInv, TypeOK, Spends, router, raw, tables
<1> QED
  BY <1>1, <1>4, <1>6, QuietStep DEF IInv, raw

LEMMA TakePendingStep ==
  ASSUME IInv, NEW r \in Runners, TakePending(r)
  PROVE  IInv'
<1>1. PICK i \in DOMAIN stored :
        /\ stored[i] \in todo[r]
        /\ todo' = [todo EXCEPT ![r] = @ \ {stored[i]}]
        /\ IF stored[i] \in done
             THEN UNCHANGED proc
             ELSE proc' = [proc EXCEPT ![r] = [Idle EXCEPT !.pc = "insertSample",
                                                           !.at = stored[i]]]
        /\ UNCHANGED <<router, clock, raw, tables, late, spent>>
  BY DEF TakePending
<1> DEFINE t == stored[i]
           row == [Idle EXCEPT !.pc = "insertSample", !.at = t]
<1>2. /\ t \in Range1(stored) /\ t \in 1..clock /\ t \in 0..MaxPushes
      /\ Range1(stored) \subseteq 1..clock
      /\ clock \in 0..MaxPushes /\ MaxPushes \in Nat
  <2>1. t \in Range1(stored)
    BY DEF Range1
  <2>2. /\ Range1(stored) \subseteq 1..clock
        /\ clock \in 0..MaxPushes /\ MaxPushes \in Nat
    BY CountersOK DEF CountersOK, IInv, TypeOK, StampedAndStored
  <2> QED
    BY <2>1, <2>2
<1>3. /\ todo' \in [Runners -> SUBSET Times]
      /\ \A q \in Runners : todo'[q] \subseteq Range1(stored)
  BY <1>1 DEF IInv, TypeOK, StampedAndStored
<1>4. r \in Procs
  BY DEF Procs
<1>5. row \in ProcRows /\ row.pc = "insertSample" /\ row.at = t
  <2>1. Idle \in ProcRows /\ "insertSample" \in PCs
    BY <1>4, RowTypes DEF IInv, PCs, Normalising
  <2> QED
    BY <1>2, <2>1 DEF ProcRows
<1> HIDE DEF row
<1>6. CASE t \in done
  <2>1. UNCHANGED proc
    BY <1>1, <1>6
  <2>2. TypeOK'
    BY <1>1, <1>3, <2>1 DEF IInv, TypeOK, router, raw, tables
  <2> QED
    BY <1>1, <1>3, <2>1, <2>2, QuietStep DEF IInv, raw
<1>7. CASE t \notin done
  <2>1. proc' = [proc EXCEPT ![r] = row]
    BY <1>1, <1>7 DEF row
  <2>2. proc' \in [Procs -> ProcRows]
    BY <1>4, <1>5, <2>1, ProcMoves DEF IInv
  <2>3. TypeOK'
    BY <1>1, <1>3, <2>2 DEF IInv, TypeOK, ProcRows, router, raw, tables
  <2>4. clock' = clock /\ stored' = stored /\ clock' >= clock
    BY <1>1, <1>2 DEF raw
  <2> QED
    BY <1>1, <1>2, <1>3, <1>4, <1>5, <2>1, <2>3, <2>4, EarlyStep DEF IInv, Normalising
<1> QED
  BY <1>6, <1>7

\* A handler at work on a sample goes on to its next statement.
LEMMA HandlerStep ==
  ASSUME IInv, NEW p \in Procs, NEW row \in ProcRows,
         proc' = [proc EXCEPT ![p] = row],
         proc[p].pc \in Normalising, row.at = proc[p].at,
         UNCHANGED <<clock, stored, todo>>,
         samples \subseteq samples', deltas \subseteq deltas'
  PROVE  StampedAndStored'
<1>1. /\ proc'[p] = row
      /\ \A q \in Procs \ {p} : proc'[q] = proc[q]
  BY ProcMoves DEF IInv
<1>2. proc[p].at \in 1..clock /\ proc[p].at \in Range1(stored)
  BY DEF IInv, StampedAndStored, Normalising
<1>3. Range1(stored)' = Range1(stored)
  BY DEF Range1
<1>4. StampedAndStored'
  <2>1. ASSUME NEW q \in Procs
        PROVE  /\ proc'[q].pc \notin {"idle", "stamp"} => proc'[q].at \in 1..clock
               /\ proc'[q].pc \in Normalising => proc'[q].at \in Range1(stored)
    <3>1. CASE q = p
      BY <1>1, <1>2, <3>1
    <3>2. CASE q # p
      <4>1. proc'[q] = proc[q]
        BY <1>1, <3>2
      <4> QED
        BY <4>1 DEF IInv, StampedAndStored
    <3> QED
      BY <3>1, <3>2
  <2> QED
    BY <1>3, <2>1 DEF IInv, StampedAndStored
<1> QED
  BY <1>4

LEMMA InsertSampleStep ==
  ASSUME IInv, NEW p \in Procs, InsertSample(p)
  PROVE  IInv'
<1> DEFINE t == proc[p].at
           pc == IF t \in samples THEN "mark" ELSE "findPrevious"
           row == [proc[p] EXCEPT !.pc = pc]
<1>1. /\ proc[p].pc = "insertSample"
      /\ samples' = samples \union {t}
      /\ late' = late \union {x \in {t} \ samples : \E u \in samples : x < u}
      /\ UNCHANGED <<router, clock, raw, deltas, todo, spent>>
  BY DEF InsertSample
<1>2. pc \in PCs
  BY DEF PCs, Normalising
<1>3. /\ proc[p] \in ProcRows /\ row \in ProcRows /\ row.at = t /\ row.pc = pc
      /\ proc' = [proc EXCEPT ![p] = row]
  <2>1. proc[p] \in ProcRows
    BY RowTypes DEF IInv
  <2>2. Goto(p, pc)
    BY DEF InsertSample
  <2> HIDE DEF pc
  <2> QED
    BY <1>2, <2>1, <2>2, Moved DEF IInv, ProcRows
<1> HIDE DEF row
<1>4. /\ proc' \in [Procs -> ProcRows]
      /\ proc'[p] = row
      /\ \A q \in Procs \ {p} : proc'[q] = proc[q]
  BY <1>3, ProcMoves DEF IInv
<1>5. t \in Range1(stored) /\ t \in Int /\ t \in 1..clock
  BY <1>1 DEF IInv, TypeOK, StampedAndStored, Normalising
<1>6. TypeOK'
  <2>1. late' \subseteq Times /\ samples' \subseteq Range1(stored)
    <3>1. Range1(stored) \subseteq Times
      BY DEF IInv, TypeOK, Range1
    <3> QED
      BY <1>1, <1>5, <3>1 DEF IInv, TypeOK
  <2>2. Range1(stored)' = Range1(stored)
    BY <1>1 DEF Range1, raw
  <2> QED
    BY <1>1, <1>4, <2>1, <2>2 DEF IInv, TypeOK, ProcRows, router, raw
<1>7. AboutSamples'
  BY <1>1, <1>3, <1>4 DEF IInv, AboutSamples
<1>8. ASSUME NEW u, NEW v, Adjacent(u, v) PROVE Adjacent(u, v)'
  <2>1. /\ u \in samples /\ v \in samples /\ u < v
        /\ \A w \in samples : u < w /\ w < v => w \in late
    BY <1>8 DEF Adjacent
  <2>2. ASSUME NEW w \in samples', u < w, w < v PROVE w \in late'
    <3>1. CASE w \in samples
      BY <1>1, <2>1, <2>2, <3>1
    <3>2. CASE w \notin samples
      BY <1>1, <2>1, <2>2, <3>2
    <3> QED
      BY <3>1, <3>2
  <2> QED
    BY <1>1, <2>1, <2>2 DEF Adjacent
<1>9. DeltasAreAdjacent'
  <2>1. \A d \in deltas : Adjacent(d.from, d.at)'
    BY <1>8 DEF IInv, DeltasAreAdjacent
  <2> QED
    BY <1>1, <2>1 DEF DeltasAreAdjacent, Adjacent
<1>10. FoundIsAdjacent'
  <2>1. ASSUME NEW q \in Procs, proc'[q].pc = "insertDelta"
        PROVE  Adjacent(proc[q].previous, proc[q].at)'
    <3>1. q # p /\ proc'[q] = proc[q]
      BY <1>3, <1>4, <2>1
    <3>2. Adjacent(proc[q].previous, proc[q].at)
      BY <2>1, <3>1 DEF IInv, FoundIsAdjacent
    <3>3. \A u, v : Adjacent(u, v) => Adjacent(u, v)'
      BY <1>8
    <3> QED
      BY <3>1, <3>2, <3>3 DEF Adjacent
  <2> QED
    BY <2>1 DEF FoundIsAdjacent
<1>11. StampedAndStored'
  BY <1>1, <1>3, HandlerStep DEF Normalising, raw
<1> QED
  BY <1>6, <1>7, <1>9, <1>10, <1>11 DEF IInv

LEMMA FindPreviousStep ==
  ASSUME IInv, NEW p \in Procs, FindPrevious(p)
  PROVE  IInv'
<1> DEFINE t == proc[p].at
<1>1. /\ proc[p].pc = "findPrevious"
      /\ UNCHANGED <<router, clock, raw, tables, todo, late, spent>>
  BY DEF FindPrevious
<1>2. /\ proc[p] \in ProcRows /\ t \in samples /\ samples \subseteq 1..clock
      /\ clock \in 0..MaxPushes /\ MaxPushes \in Nat
  BY <1>1, RowTypes, CountersOK
  DEF CountersOK, IInv, TypeOK, StampedAndStored, AboutSamples
<1>3. PICK row \in ProcRows :
        /\ proc' = [proc EXCEPT ![p] = row]
        /\ row.at = t
        /\ row.pc = "mark" \/ (row.pc = "insertDelta" /\ row.previous \in LatestBefore(t))
  <2>1. CASE LatestBefore(t) = {}
    <3>1. "mark" \in PCs /\ Goto(p, "mark")
      BY <2>1 DEF FindPrevious, PCs, Normalising
    <3>2. /\ proc' = [proc EXCEPT ![p] = [proc[p] EXCEPT !.pc = "mark"]]
          /\ [proc[p] EXCEPT !.pc = "mark"] \in ProcRows
      BY <3>1, RowTypes, Moved DEF IInv
    <3> QED
      BY <1>2, <3>2 DEF ProcRows
  <2>2. CASE LatestBefore(t) # {}
    <3>1. PICK u \in LatestBefore(t) :
            proc' = [proc EXCEPT ![p].pc = "insertDelta", ![p].previous = u]
      BY <2>2 DEF FindPrevious
    <3>2. u \in 0..MaxPushes /\ "insertDelta" \in PCs
      BY <1>2, <3>1 DEF LatestBefore, PCs, Normalising
    <3>3. [proc[p] EXCEPT !.pc = "insertDelta", !.previous = u] \in ProcRows
      BY <1>2, <3>2 DEF ProcRows
    <3>4. proc' = [proc EXCEPT ![p] = [proc[p] EXCEPT !.pc = "insertDelta", !.previous = u]]
      BY <3>1 DEF IInv, TypeOK
    <3>5. LET r == [proc[p] EXCEPT !.pc = "insertDelta", !.previous = u]
          IN r.at = t /\ r.pc = "insertDelta" /\ r.previous = u
      BY <1>2 DEF ProcRows
    <3> QED
      BY <3>1, <3>3, <3>4, <3>5
  <2> QED
    BY <2>1, <2>2
<1>4. /\ proc' \in [Procs -> ProcRows]
      /\ proc'[p] = row
      /\ \A q \in Procs \ {p} : proc'[q] = proc[q]
  BY <1>3, ProcMoves DEF IInv
<1>5. TypeOK'
  BY <1>1, <1>4 DEF IInv, TypeOK, ProcRows, router, raw, tables
<1>6. row.pc = "insertDelta" => row.previous \in samples /\ Adjacent(row.previous, row.at)
  <2>1. ASSUME NEW u \in LatestBefore(t) PROVE u \in samples /\ Adjacent(u, t)
    <3>1. u \in samples /\ u < t /\ \A v \in samples : v < t => v <= u
      BY DEF LatestBefore
    <3>2. samples \subseteq Int
      BY <1>2
    <3>3. \A v \in samples : ~ (u < v /\ v < t)
      BY <3>1, <3>2
    <3> QED
      BY <1>2, <3>1, <3>3 DEF Adjacent
  <2> QED
    BY <1>3, <2>1
<1>7. AboutSamples' /\ DeltasAreAdjacent'
  BY <1>1, <1>2, <1>3, <1>4, <1>6 DEF IInv, AboutSamples, DeltasAreAdjacent, Adjacent, tables
<1>8. FoundIsAdjacent'
  BY <1>1, <1>4, <1>6 DEF IInv, FoundIsAdjacent, Adjacent, tables
<1>9. StampedAndStored'
  BY <1>1, <1>3, HandlerStep DEF Normalising, raw, tables
<1> QED
  BY <1>5, <1>7, <1>8, <1>9 DEF IInv

LEMMA InsertDeltaStep ==
  ASSUME IInv, NEW p \in Procs, InsertDelta(p)
  PROVE  IInv'
<1> DEFINE t == proc[p].at
           u == proc[p].previous
           delta == [at |-> t, from |-> u, bytes |-> Growth(value[t], value[u]),
                     reset |-> value[t] < value[u]]
           row == [proc[p] EXCEPT !.pc = "mark"]
<1>1. /\ proc[p].pc = "insertDelta"
      /\ deltas' = IF \E d \in deltas : d.at = t THEN deltas ELSE deltas \union {delta}
      /\ Goto(p, "mark")
      /\ UNCHANGED <<router, clock, raw, samples, todo, late, spent>>
  BY DEF InsertDelta
<1>2. /\ row \in ProcRows /\ row.pc = "mark" /\ row.at = t
      /\ proc' = [proc EXCEPT ![p] = row]
  <2>1. "mark" \in PCs /\ proc[p] \in ProcRows
    BY RowTypes DEF IInv, PCs, Normalising
  <2> QED
    BY <1>1, <2>1, Moved DEF IInv, ProcRows
<1> HIDE DEF row
<1>3. /\ proc' \in [Procs -> ProcRows]
      /\ proc'[p] = row
      /\ \A q \in Procs \ {p} : proc'[q] = proc[q]
  BY <1>2, ProcMoves DEF IInv
<1>4. t \in samples /\ u \in samples /\ samples \subseteq Times
  <2>1. samples \subseteq 1..clock /\ clock \in 0..MaxPushes /\ MaxPushes \in Nat
    BY CountersOK DEF CountersOK, IInv, TypeOK, StampedAndStored
  <2> QED
    BY <1>1, <2>1 DEF IInv, AboutSamples, Times
<1>5. delta \in Deltas /\ delta.at = t /\ delta.from = u
  <2>1. value[t] \in Nat /\ value[u] \in Nat
    BY <1>4 DEF IInv, TypeOK
  <2>2. Growth(value[t], value[u]) \in Nat
    BY <2>1, GrowthType
  <2>3. t \in Times /\ u \in Times
    BY <1>4
  <2> QED
    BY <2>2, <2>3 DEF Deltas
<1> HIDE DEF delta
<1>6. deltas' = deltas \/ deltas' = deltas \union {delta}
  BY <1>1 DEF delta
<1>7. TypeOK'
  <2>1. deltas' \subseteq Deltas
    BY <1>5, <1>6 DEF IInv, TypeOK
  <2> QED
    BY <1>1, <1>3, <2>1 DEF IInv, TypeOK, ProcRows, router, raw
<1>8. AboutSamples'
  BY <1>1, <1>2, <1>3, <1>4, <1>5, <1>6 DEF IInv, AboutSamples
<1>9. DeltasAreAdjacent' /\ FoundIsAdjacent'
  <2>1. Adjacent(u, t)
    BY <1>1 DEF IInv, FoundIsAdjacent
  <2>2. DeltasAreAdjacent'
    BY <1>1, <1>5, <1>6, <2>1 DEF IInv, DeltasAreAdjacent, Adjacent
  <2>3. FoundIsAdjacent'
    BY <1>1, <1>2, <1>3 DEF IInv, FoundIsAdjacent, Adjacent
  <2> QED
    BY <2>2, <2>3
<1>10. StampedAndStored'
  BY <1>1, <1>2, <1>6, HandlerStep DEF Normalising, raw
<1> QED
  BY <1>7, <1>8, <1>9, <1>10 DEF IInv

\* Setting processed_at, or a failure, ends the handler.
LEMMA MarkStep ==
  ASSUME IInv, NEW p \in Procs, Mark(p)
  PROVE  IInv'
<1>1. /\ proc[p].pc = "mark"
      /\ done' = done \union {proc[p].at}
      /\ proc' = [proc EXCEPT ![p] = Idle]
      /\ UNCHANGED <<router, clock, stored, value, truth, tables, todo, late, spent>>
  BY Moved DEF Mark, IInv
<1>2. Idle \in ProcRows /\ Idle.pc = "idle"
  BY RowTypes DEF IInv
<1>3. proc' \in [Procs -> ProcRows]
  BY <1>1, <1>2, ProcMoves DEF IInv
<1>4. /\ clock \in 0..MaxPushes /\ clock >= clock /\ Range1(stored) \subseteq 1..clock
      /\ proc[p].at \in Range1(stored)
      /\ \A r \in Runners : todo[r] \subseteq Range1(stored)
  BY <1>1, CountersOK DEF CountersOK, IInv, TypeOK, StampedAndStored, Normalising
<1>5. TypeOK'
  <2>1. done' \subseteq Range1(stored)' /\ samples' \subseteq Range1(stored)'
    BY <1>1, <1>4 DEF IInv, TypeOK, Range1, tables
  <2> QED
    BY <1>1, <1>3, <2>1 DEF IInv, TypeOK, ProcRows, router, tables
<1> QED
  BY <1>1, <1>2, <1>4, <1>5, EarlyStep DEF IInv, Normalising

LEMMA FaultStep ==
  ASSUME IInv, NEW p \in Procs, Fault(p)
  PROVE  IInv'
<1>1. /\ proc' = [proc EXCEPT ![p] = Idle]
      /\ spent' = [spent EXCEPT !.faults = @ + 1]
      /\ UNCHANGED <<router, clock, raw, tables, todo, late>>
  BY Moved DEF Fault, IInv
<1>2. Idle \in ProcRows /\ Idle.pc = "idle"
  BY RowTypes DEF IInv
<1>3. proc' \in [Procs -> ProcRows]
  BY <1>1, <1>2, ProcMoves DEF IInv
<1>4. /\ clock \in 0..MaxPushes /\ clock >= clock /\ Range1(stored) \subseteq 1..clock
      /\ \A r \in Runners : todo[r] \subseteq Range1(stored)
  BY CountersOK DEF CountersOK, IInv, TypeOK, StampedAndStored
<1>5. spent' \in Spends
  <2> DEFINE faults == spent.faults + 1
  <2>1. spent \in Spends /\ faults \in Nat
    BY DEF IInv, TypeOK, Spends
  <2>2. spent' = [spent EXCEPT !.faults = faults]
    BY <1>1
  <2> HIDE DEF faults
  <2> QED
    BY <2>1, <2>2 DEF Spends
<1>6. TypeOK'
  BY <1>1, <1>3, <1>5 DEF IInv, TypeOK, ProcRows, Spends, router, raw, tables
<1> QED
  BY <1>1, <1>2, <1>4, <1>6, EarlyStep DEF IInv, Normalising, raw

LEMMA StutterStep ==
  ASSUME IInv, UNCHANGED vars
  PROVE  IInv'
BY DEF vars, IInv, TypeOK, StampedAndStored, AboutSamples, DeltasAreAdjacent, FoundIsAdjacent,
       Adjacent, Range1

-----------------------------------------------------------------------------
(* Sums.  MapThenSumSet takes the elements of a finite set one by one; what *)
(* it returns does not depend on which it takes first.                      *)

\* Of some subsets of a finite set, one has no other among its own subsets.
LEMMA LeastSubset ==
  ASSUME NEW S, IsFiniteSet(S), NEW T \in SUBSET (SUBSET S), T # {}
  PROVE  \E s \in T : \A t \in T : t \subseteq s => t = s
<1> DEFINE R == StrictSubsetOrdering(S)
<1>1. IsWellFoundedOn(R, FiniteSubsetsOf(S))
  BY FS_StrictSubsetOrderingWellFounded
<1>2. T \subseteq FiniteSubsetsOf(S)
  BY FS_Subset DEF FiniteSubsetsOf
<1>3. \A s, t \in T : t \subseteq s /\ t # s => <<t, s>> \in R
  BY <1>2 DEF StrictSubsetOrdering
<1> HIDE DEF R
<1>4. \E s \in T : \A t \in T : ~ (<<t, s>> \in R)
  BY <1>1, <1>2, WFMin
<1> QED
  BY <1>3, <1>4

Chosen(s) == CHOOSE x \in s : TRUE

\* f is the function by which the weights w of the elements of S are summed.
SumsUp(w, f, S) ==
  f = [s \in SUBSET S |-> IF s = {} THEN 0 ELSE w[Chosen(s)] + f[s \ {Chosen(s)}]]

Total(w, S) == (CHOOSE f : SumsUp(w, f, S))[S]

\* Such functions agree wherever both are defined.
LEMMA SumIsUnique ==
  ASSUME NEW w, NEW S, IsFiniteSet(S), NEW V, NEW W, S \subseteq V, S \subseteq W,
         NEW f, NEW g, SumsUp(w, f, V), SumsUp(w, g, W)
  PROVE  f[S] = g[S]
<1> DEFINE T == {s \in SUBSET S : f[s] # g[s]}
<1>1. SUFFICES ASSUME T # {} PROVE FALSE
  OBVIOUS
<1>2. PICK s \in T : \A t \in T : t \subseteq s => t = s
  <2> HIDE DEF T
  <2> T \in SUBSET (SUBSET S)
    BY DEF T
  <2> QED
    BY <1>1, LeastSubset
<1>3. s \in SUBSET V /\ s \in SUBSET W
  OBVIOUS
<1>4. /\ f[s] = IF s = {} THEN 0 ELSE w[Chosen(s)] + f[s \ {Chosen(s)}]
      /\ g[s] = IF s = {} THEN 0 ELSE w[Chosen(s)] + g[s \ {Chosen(s)}]
  BY <1>3 DEF SumsUp
<1>5. CASE s = {}
  BY <1>4, <1>5
<1>6. CASE s # {}
  <2>1. Chosen(s) \in s
    BY <1>6 DEF Chosen
  <2>2. s \ {Chosen(s)} \notin T
    BY <1>2, <2>1
  <2> QED
    BY <1>4, <1>6, <2>2
<1> QED
  BY <1>5, <1>6

\* There is one for every finite set.
LEMMA SumExists ==
  ASSUME NEW w, NEW S, IsFiniteSet(S)
  PROVE  \E f : SumsUp(w, f, S)
<1> DEFINE T == {s \in SUBSET S : ~ \E f : SumsUp(w, f, s)}
<1>1. SUFFICES ASSUME T # {} PROVE FALSE
  BY DEF T
<1>2. PICK s \in T : \A t \in T : t \subseteq s => t = s
  <2> HIDE DEF T
  <2> T \in SUBSET (SUBSET S)
    BY DEF T
  <2> QED
    BY <1>1, LeastSubset
<1> DEFINE F(t) == CHOOSE f : SumsUp(w, f, t)
           f == [t \in SUBSET s |-> IF t = {} THEN 0
                                    ELSE w[Chosen(t)] + F(t \ {Chosen(t)})[t \ {Chosen(t)}]]
<1>3. \A t \in SUBSET s : t # s => SumsUp(w, F(t), t)
  <2> SUFFICES ASSUME NEW t \in SUBSET s, t # s PROVE SumsUp(w, F(t), t)
    OBVIOUS
  <2>1. t \notin T /\ t \in SUBSET S
    BY <1>2
  <2>2. \E h : SumsUp(w, h, t)
    BY <2>1
  <2> QED
    BY <2>2
<1>4. ASSUME NEW t \in SUBSET s, t # s PROVE f[t] = F(t)[t]
  <2> HIDE DEF F
  <2>1. F(t)[t] = IF t = {} THEN 0 ELSE w[Chosen(t)] + F(t)[t \ {Chosen(t)}]
    BY <1>3, <1>4 DEF SumsUp
  <2>2. f[t] = IF t = {} THEN 0 ELSE w[Chosen(t)] + F(t \ {Chosen(t)})[t \ {Chosen(t)}]
    OBVIOUS
  <2>3. CASE t = {}
    BY <2>1, <2>2, <2>3
  <2>4. CASE t # {}
    <3> DEFINE u == t \ {Chosen(t)}
    <3>1. Chosen(t) \in t
      BY <2>4 DEF Chosen
    <3>2. u \in SUBSET s /\ u # s /\ u \subseteq t
      BY <3>1
    <3>3. IsFiniteSet(u)
      BY <3>2, FS_Subset
    <3>4. SumsUp(w, F(u), u) /\ SumsUp(w, F(t), t)
      BY <1>3, <1>4, <3>2
    <3> HIDE DEF u
    <3>5. F(u)[u] = F(t)[u]
      BY <3>2, <3>3, <3>4, SumIsUnique
    <3> QED
      BY <2>1, <2>2, <2>4, <3>5 DEF u
  <2> QED
    BY <2>3, <2>4
<1>5. ASSUME NEW t \in SUBSET s, t # {} PROVE f[t] = w[Chosen(t)] + f[t \ {Chosen(t)}]
  <2> DEFINE u == t \ {Chosen(t)}
  <2>1. Chosen(t) \in t
    BY <1>5 DEF Chosen
  <2>2. u \in SUBSET s /\ u # s
    BY <2>1
  <2>3. f[t] = w[Chosen(t)] + F(u)[u]
    <3> HIDE DEF F
    <3> QED
      BY <1>5
  <2> HIDE DEF f, F
  <2>4. f[u] = F(u)[u]
    <3> HIDE DEF u
    <3> QED
      BY <1>4, <2>2
  <2> QED
    BY <2>3, <2>4
<1>6. f[{}] = 0
  <2> HIDE DEF F
  <2> QED
    OBVIOUS
<1>7. SumsUp(w, f, s)
  <2>1. f = [t \in SUBSET s |-> f[t]]
    <3> HIDE DEF F
    <3> QED
      OBVIOUS
  <2> HIDE DEF f
  <2>2. \A t \in SUBSET s : f[t] = IF t = {} THEN 0 ELSE w[Chosen(t)] + f[t \ {Chosen(t)}]
    BY <1>5, <1>6
  <2> DEFINE g == [t \in SUBSET s |-> IF t = {} THEN 0 ELSE w[Chosen(t)] + f[t \ {Chosen(t)}]]
  <2>3. \A t \in SUBSET s : f[t] = g[t]
    BY <2>2
  <2>4. f = g
    BY <2>1, <2>3
  <2> QED
    BY <2>4 DEF SumsUp
<1>8. s \notin T
  <2> HIDE DEF f
  <2> QED
    BY <1>7
<1> QED
  BY <1>2, <1>8


\* What the function of a set says of its subsets are their own sums.
LEMMA SumOfSubset ==
  ASSUME NEW w, NEW S, IsFiniteSet(S), NEW V, S \subseteq V, NEW f, SumsUp(w, f, V)
  PROVE  Total(w, S) = f[S]
<1>1. PICK g : SumsUp(w, g, S) /\ Total(w, S) = g[S]
  <2>1. SumsUp(w, CHOOSE h : SumsUp(w, h, S), S)
    BY SumExists
  <2> QED
    BY <2>1 DEF Total
<1>2. S \subseteq S
  OBVIOUS
<1>3. f[S] = g[S]
  BY <1>1, <1>2, SumIsUnique
<1> QED
  BY <1>1, <1>3

LEMMA TotalTakesOne ==
  ASSUME NEW w, NEW S, IsFiniteSet(S)
  PROVE  Total(w, S) = IF S = {} THEN 0 ELSE w[Chosen(S)] + Total(w, S \ {Chosen(S)})
<1>1. PICK f : SumsUp(w, f, S)
  BY SumExists
<1>2. f[S] = IF S = {} THEN 0 ELSE w[Chosen(S)] + f[S \ {Chosen(S)}]
  BY <1>1 DEF SumsUp
<1>3. Total(w, S) = f[S]
  BY <1>1, SumOfSubset
<1>4. Total(w, S \ {Chosen(S)}) = f[S \ {Chosen(S)}]
  <2> DEFINE u == S \ {Chosen(S)}
  <2>1. IsFiniteSet(u) /\ u \subseteq S
    BY FS_Subset
  <2> HIDE DEF u
  <2> QED
    BY <1>1, <2>1, SumOfSubset DEF u
<1> QED
  BY <1>2, <1>3, <1>4

\* A sum of natural numbers is one.
LEMMA TotalIsNat ==
  ASSUME NEW w, NEW S, IsFiniteSet(S), \A x \in S : w[x] \in Nat
  PROVE  Total(w, S) \in Nat
<1> DEFINE T == {s \in SUBSET S : Total(w, s) \notin Nat}
<1>1. SUFFICES ASSUME T # {} PROVE FALSE
  OBVIOUS
<1>2. PICK s \in T : \A t \in T : t \subseteq s => t = s
  <2> HIDE DEF T
  <2> T \in SUBSET (SUBSET S)
    BY DEF T
  <2> QED
    BY <1>1, LeastSubset
<1>3. IsFiniteSet(s)
  BY FS_Subset
<1>4. Total(w, s) = IF s = {} THEN 0 ELSE w[Chosen(s)] + Total(w, s \ {Chosen(s)})
  BY <1>3, TotalTakesOne
<1>5. CASE s = {}
  BY <1>4, <1>5
<1>6. CASE s # {}
  <2>1. Chosen(s) \in s
    BY <1>6 DEF Chosen
  <2>2. s \ {Chosen(s)} \notin T
    BY <1>2, <2>1
  <2>3. Total(w, s \ {Chosen(s)}) \in Nat /\ w[Chosen(s)] \in Nat
    BY <2>1, <2>2
  <2> QED
    BY <1>4, <1>6, <2>3
<1> QED
  BY <1>5, <1>6

\* Any element may be taken first.
LEMMA TotalTakesAny ==
  ASSUME NEW w, NEW S, IsFiniteSet(S), \A x \in S : w[x] \in Nat, NEW y \in S
  PROVE  Total(w, S) = w[y] + Total(w, S \ {y})
<1> DEFINE T == {s \in SUBSET S : \E x \in s : Total(w, s) # w[x] + Total(w, s \ {x})}
<1>1. SUFFICES ASSUME T # {} PROVE FALSE
  OBVIOUS
<1>2. PICK s \in T : \A t \in T : t \subseteq s => t = s
  <2> HIDE DEF T
  <2> T \in SUBSET (SUBSET S)
    BY DEF T
  <2> QED
    BY <1>1, LeastSubset
<1>3. PICK x \in s : Total(w, s) # w[x] + Total(w, s \ {x})
  OBVIOUS
<1> DEFINE c == Chosen(s)
           both == (s \ {x}) \ {c}
<1>4. /\ IsFiniteSet(s) /\ IsFiniteSet(s \ {x}) /\ IsFiniteSet(s \ {c}) /\ IsFiniteSet(both)
      /\ c \in s
  <2>1. IsFiniteSet(s)
    BY FS_Subset
  <2>2. c \in s
    BY <1>3 DEF Chosen
  <2> HIDE DEF c
  <2> QED
    BY <2>1, <2>2, FS_Subset
<1>5. Total(w, s) = w[c] + Total(w, s \ {c})
  BY <1>3, <1>4, TotalTakesOne
<1>6. x # c
  BY <1>3, <1>5
<1> HIDE DEF c
<1>7. Total(w, s \ {c}) = w[x] + Total(w, both)
  <2>1. s \ {c} \notin T
    BY <1>2, <1>4
  <2>2. (s \ {c}) \ {x} = both
    OBVIOUS
  <2> QED
    BY <1>4, <1>6, <2>1, <2>2
<1>8. Total(w, s \ {x}) = w[c] + Total(w, both)
  <2>1. s \ {x} \notin T
    BY <1>2
  <2> QED
    BY <1>4, <1>6, <2>1
<1>9. w[c] \in Nat /\ w[x] \in Nat /\ Total(w, both) \in Nat
  <2>1. \A z \in both : w[z] \in Nat
    OBVIOUS
  <2>2. Total(w, both) \in Nat
    BY <1>4, <2>1, TotalIsNat
  <2> QED
    BY <1>4, <2>2
<1> HIDE DEF both, T
<1> QED
  BY <1>3, <1>5, <1>7, <1>8, <1>9

\* A nonempty set of natural numbers has a least one.
LEMMA Smallest ==
  ASSUME NEW T \in SUBSET Nat, T # {}
  PROVE  \E n \in T : \A m \in T : n <= m
<1> DEFINE R == OpToRel(<, Nat)
<1>1. IsWellFoundedOn(R, Nat)
  BY NatLessThanWellFounded
<1>2. \A x, y \in Nat : x < y => <<x, y>> \in R
  BY DEF OpToRel
<1> HIDE DEF R
<1>3. PICK x \in T : \A y \in T : ~ (<<y, x>> \in R)
  BY <1>1, WFMin
<1>4. ASSUME NEW y \in T PROVE x <= y
  <2>1. x \in Nat /\ y \in Nat
    OBVIOUS
  <2>2. ~ (y < x)
    BY <1>2, <1>3, <2>1
  <2> QED
    BY <2>1, <2>2
<1> QED
  BY <1>4

-----------------------------------------------------------------------------
(* What the deltas add up to.                                              *)

\* The bytes of a set of deltas are the total of their weights.
LEMMA BytesIsTotal ==
  ASSUME NEW D, IsFiniteSet(D), NEW S \in SUBSET D
  PROVE  Bytes(S) = Total([d \in D |-> d.bytes], S)
<1> DEFINE w == [d \in D |-> d.bytes]
           Sums(f) == f = [s \in SUBSET S |-> IF s = {} THEN 0
                                              ELSE Chosen(s).bytes + f[s \ {Chosen(s)}]]
<1>1. Bytes(S) = (CHOOSE f : Sums(f))[S]
  BY DEF Bytes, MapThenSumSet, MapThenFoldSet, Chosen
<1>2. ASSUME NEW f PROVE Sums(f) <=> SumsUp(w, f, S)
  <2> DEFINE A(s) == IF s = {} THEN 0 ELSE Chosen(s).bytes + f[s \ {Chosen(s)}]
             B(s) == IF s = {} THEN 0 ELSE w[Chosen(s)] + f[s \ {Chosen(s)}]
  <2>1. ASSUME NEW s \in SUBSET S PROVE A(s) = B(s)
    <3>1. CASE s = {}
      BY <3>1
    <3>2. CASE s # {}
      <4>1. Chosen(s) \in s
        BY <3>2 DEF Chosen
      <4>2. w[Chosen(s)] = Chosen(s).bytes
        BY <4>1
      <4> HIDE DEF w
      <4> QED
        BY <3>2, <4>2
    <3> QED
      BY <3>1, <3>2
  <2>2. Sums(f) <=> f = [s \in SUBSET S |-> A(s)]
    OBVIOUS
  <2>3. SumsUp(w, f, S) <=> f = [s \in SUBSET S |-> B(s)]
    BY DEF SumsUp
  <2> HIDE DEF A, B, Sums, w
  <2>4. [s \in SUBSET S |-> A(s)] = [s \in SUBSET S |-> B(s)]
    BY <2>1
  <2> QED
    BY <2>2, <2>3, <2>4
<1>3. IsFiniteSet(S)
  BY FS_Subset
<1> HIDE DEF Sums, w
<1>4. PICK f : SumsUp(w, f, S)
  BY <1>3, SumExists
<1>5. PICK g : Sums(g) /\ Bytes(S) = g[S]
  BY <1>1, <1>2, <1>4
<1>6. SumsUp(w, g, S) /\ S \subseteq S
  BY <1>2, <1>5
<1>7. Total(w, S) = g[S]
  BY <1>3, <1>6, SumOfSubset
<1> QED
  BY <1>5, <1>7 DEF w

\* A nonempty set of naturals with a bound has a greatest and a least element.
LEMMA HasEnds ==
  ASSUME NEW S \in SUBSET Nat, S # {}, NEW m \in Nat, \A x \in S : x <= m
  PROVE  /\ \E x \in S : \A y \in S : y <= x
         /\ \E x \in S : \A y \in S : x <= y
<1> DEFINE T == {n \in Nat : \A x \in S : x <= n}
<1>1. PICK n \in T : \A k \in T : n <= k
  <2>1. T \in SUBSET Nat /\ m \in T
    OBVIOUS
  <2> HIDE DEF T
  <2> QED
    BY <2>1, Smallest
<1>2. n \in S
  <2>1. SUFFICES ASSUME n \notin S PROVE FALSE
    OBVIOUS
  <2>2. \A x \in S : x <= n - 1 /\ x \in Nat
    BY <2>1
  <2>3. n - 1 \in T
    <3>1. PICK x \in S : TRUE
      OBVIOUS
    <3>2. x \in Nat /\ x <= n - 1 /\ n \in Nat
      BY <2>2
    <3>3. n - 1 \in Nat
      BY <3>2
    <3> QED
      BY <2>2, <3>3
  <2> QED
    BY <1>1, <2>3
<1>3. \E x \in S : \A y \in S : x <= y
  BY Smallest
<1> QED
  BY <1>1, <1>2, <1>3

\* The greatest and the least sample.
LEMMA EndsOfSamples ==
  ASSUME TypeOK, samples # {}
  PROVE  /\ Latest(samples) \in samples /\ \A t \in samples : t <= Latest(samples)
         /\ Earliest(samples) \in samples /\ \A t \in samples : Earliest(samples) <= t
<1>1. samples \in SUBSET Nat /\ MaxPushes \in Nat /\ \A t \in samples : t <= MaxPushes
  <2>1. Range1(stored) \subseteq Times
    BY DEF TypeOK, Range1
  <2> QED
    BY <2>1, CountersOK DEF TypeOK, Times, CountersOK
<1>2. /\ \E x \in samples : \A y \in samples : y <= x
      /\ \E x \in samples : \A y \in samples : x <= y
  BY <1>1, HasEnds
<1> QED
  BY <1>2 DEF Latest, Earliest

\* A part of a set sums to no more than the whole.
LEMMA TotalOfPart ==
  ASSUME NEW w, NEW S, IsFiniteSet(S), \A x \in S : w[x] \in Nat, NEW P \in SUBSET S
  PROVE  Total(w, P) <= Total(w, S)
<1> DEFINE T == {s \in SUBSET S : P \subseteq s /\ ~ (Total(w, P) <= Total(w, s))}
<1>1. SUFFICES ASSUME T # {} PROVE FALSE
  OBVIOUS
<1>2. PICK s \in T : \A t \in T : t \subseteq s => t = s
  <2> HIDE DEF T
  <2> T \in SUBSET (SUBSET S)
    BY DEF T
  <2> QED
    BY <1>1, LeastSubset
<1>3. s \subseteq S /\ P \subseteq s /\ ~ (Total(w, P) <= Total(w, s))
  OBVIOUS
<1>4. IsFiniteSet(s) /\ IsFiniteSet(P) /\ \A x \in s : w[x] \in Nat
  BY <1>3, FS_Subset
<1>5. Total(w, P) \in Nat /\ Total(w, s) \in Nat
  BY <1>3, <1>4, TotalIsNat
<1>6. PICK y \in s : y \notin P
  <2>1. s # P
    BY <1>3, <1>5
  <2> QED
    BY <1>3, <2>1
<1>7. Total(w, s) = w[y] + Total(w, s \ {y})
  BY <1>4, TotalTakesAny
<1>8. Total(w, P) <= Total(w, s \ {y})
  BY <1>2, <1>3, <1>6
<1>9. Total(w, s \ {y}) \in Nat /\ w[y] \in Nat
  <2>1. IsFiniteSet(s \ {y}) /\ \A x \in s \ {y} : w[x] \in Nat
    BY <1>4, FS_Subset
  <2> QED
    BY <1>4, <2>1, TotalIsNat
<1> QED
  BY <1>3, <1>5, <1>7, <1>8, <1>9

\* What a delta measures, of two readings in the order of their stamps.
LEMMA GrowthMeasures ==
  ASSUME NEW v1 \in Nat, NEW t1 \in Nat, NEW v2 \in Nat, NEW t2 \in Nat,
         ReadBefore(<<v1, t1>>, <<v2, t2>>) \/ ReadBefore(<<v2, t2>>, <<v1, t1>>),
         t1 < t2 \/ (t1 = t2 /\ v2 <= v1)
  PROVE  /\ Growth(v2, v1) <= t2 - t1
         /\ v1 = t1 /\ v2 = t2 => Growth(v2, v1) = t2 - t1
BY DEF ReadBefore, Growth

\* The deltas up to a sample add up to what has moved since the first sample.
LEMMA DeltasTelescope ==
  ASSUME SumInv, late = {}, StampedInOrder, spent.faults = 0, InHand = {}, NEW k \in samples
  PROVE  LET due == truth[k] - truth[Earliest(samples)]
             sum == Total([d \in deltas |-> d.bytes], {d \in deltas : d.at <= k})
         IN  sum <= due /\ (spent.resets = 0 => sum = due)
<1> DEFINE w == [d \in deltas |-> d.bytes]
           UpTo(t) == {d \in deltas : d.at <= t}
           first == Earliest(samples)
           Fits(t) == /\ Total(w, UpTo(t)) <= truth[t] - truth[first]
                      /\ spent.resets = 0 => Total(w, UpTo(t)) = truth[t] - truth[first]
           Bad == {t \in samples : ~Fits(t)}
<1>1. SUFFICES ASSUME Bad # {} PROVE FALSE
  OBVIOUS
<1>2. /\ samples \subseteq Nat /\ samples \subseteq Times /\ samples \subseteq Range1(stored)
      /\ \A t \in samples : truth[t] \in Nat /\ value[t] \in Nat
  <2>1. Range1(stored) \subseteq Times
    BY DEF SumInv, IInv, TypeOK, Range1
  <2> QED
    BY <2>1 DEF SumInv, IInv, TypeOK, Times
<1>3. PICK t \in Bad : \A u \in Bad : t <= u
  <2>1. Bad \in SUBSET Nat
    BY <1>2
  <2> HIDE DEF Bad
  <2> QED
    BY <1>1, <2>1, Smallest
<1>4. t \in samples /\ ~Fits(t)
  OBVIOUS
<1>5. first \in samples /\ \A u \in samples : first <= u
  BY EndsOfSamples DEF SumInv, IInv
<1>6. /\ \A d \in deltas : /\ d.at \in samples /\ d.from \in samples /\ Adjacent(d.from, d.at)
                           /\ d.bytes = Growth(value[d.at], value[d.from])
      /\ \A d, e \in deltas : d.at = e.at => d = e
      /\ IsFiniteSet(deltas)
  BY DEF SumInv, IInv, DeltasMeasure, AboutSamples, DeltasAreAdjacent
<1>7. \A d \in deltas : w[d] = d.bytes /\ w[d] \in Nat
  BY <1>2, <1>6, GrowthType
<1> HIDE DEF w, first, Bad
<1>8. CASE t = first
  <2>1. UpTo(t) = {}
    <3>1. ASSUME NEW d \in deltas PROVE ~ (d.at <= first)
      <4>1. /\ d.at \in Nat /\ d.from \in Nat /\ first \in Nat
            /\ first <= d.from /\ d.from < d.at
        BY <1>2, <1>5, <1>6 DEF Adjacent
      <4> QED
        BY <4>1
    <3> QED
      BY <1>8, <3>1
  <2>2. Total(w, UpTo(t)) = 0
    BY <2>1, TotalTakesOne, FS_EmptySet
  <2>3. Fits(t)
    BY <1>2, <1>4, <1>8, <2>2
  <2> QED
    BY <1>4, <2>3
<1>9. CASE t # first
  <2>1. PICK d \in deltas : d.at = t
    <3>1. ~ \A u \in samples : t <= u
      BY <1>2, <1>4, <1>5, <1>9
    <3>2. \A p \in Procs : proc[p].pc \notin Measuring
      BY DEF InHand, Measuring
    <3> QED
      BY <1>4, <3>1, <3>2 DEF SumInv, SamplesLeaveDeltas
  <2> DEFINE u == d.from
  <2>2. u \in samples /\ u < t /\ u \in Nat /\ t \in Nat /\ ~ \E v \in samples : u < v /\ v < t
    BY <1>2, <1>6, <2>1 DEF Adjacent
  <2>3. Fits(u)
    <3>1. u \notin Bad
      BY <1>3, <2>2
    <3> QED
      BY <2>2, <3>1 DEF Bad
  <2>4. UpTo(t) \ {d} = UpTo(u) /\ d \in UpTo(t)
    <3>1. ASSUME NEW e \in deltas PROVE e.at <= t /\ e # d <=> e.at <= u
      <4>1. e.at \in samples /\ e.at \in Nat
        BY <1>2, <1>6
      <4>2. e.at <= t /\ e.at # t <=> e.at <= u
        BY <2>2, <4>1
      <4>3. e = d <=> e.at = t
        BY <1>6, <2>1
      <4> QED
        BY <2>2, <4>1, <4>2, <4>3
    <3>2. d \in UpTo(t)
      BY <2>1, <2>2
    <3> HIDE DEF u
    <3> QED
      BY <3>1, <3>2
  <2>5. Total(w, UpTo(t)) = w[d] + Total(w, UpTo(u))
    <3>1. IsFiniteSet(UpTo(t)) /\ \A e \in UpTo(t) : w[e] \in Nat
      BY <1>6, <1>7, FS_Subset
    <3> HIDE DEF UpTo
    <3> QED
      BY <2>4, <3>1, TotalTakesAny
  <2>6. Total(w, UpTo(u)) \in Nat
    <3>1. IsFiniteSet(UpTo(u)) /\ \A e \in UpTo(u) : w[e] \in Nat
      BY <1>6, <1>7, FS_Subset
    <3> HIDE DEF UpTo
    <3> QED
      BY <3>1, TotalIsNat
  <2>7. /\ w[d] <= truth[t] - truth[u]
        /\ spent.resets = 0 => w[d] = truth[t] - truth[u]
    <3>1. w[d] = Growth(value[t], value[u])
      BY <1>6, <1>7, <2>1
    <3>2. /\ <<value[t], truth[t]>> \in Readings
          /\ <<value[u], truth[u]>> \in Readings
      BY <1>2, <1>4, <2>2 DEF Readings
    <3>3. \/ ReadBefore(<<value[u], truth[u]>>, <<value[t], truth[t]>>)
          \/ ReadBefore(<<value[t], truth[t]>>, <<value[u], truth[u]>>)
      BY <3>2 DEF SumInv, ReadInOrder
    <3>4. truth[u] < truth[t] \/ (truth[u] = truth[t] /\ value[t] <= value[u])
      BY <1>4, <2>2 DEF StampedInOrder
    <3>5. spent.resets = 0 => value[t] = truth[t] /\ value[u] = truth[u]
      <4>1. spent.resets = 0 => \A r \in Readings : r[1] = r[2]
        BY DEF SumInv, ReadInOrder
      <4> QED
        BY <3>2, <4>1
    <3>6. value[t] \in Nat /\ truth[t] \in Nat /\ value[u] \in Nat /\ truth[u] \in Nat
      BY <1>2, <1>4, <2>2
    <3> HIDE DEF u
    <3> QED
      BY <3>1, <3>3, <3>4, <3>5, <3>6, GrowthMeasures
  <2>8. w[d] \in Nat /\ truth[t] \in Nat /\ truth[u] \in Nat /\ truth[first] \in Nat
    BY <1>2, <1>4, <1>5, <1>7, <2>2
  <2> HIDE DEF u, UpTo
  <2>9. Fits(t)
    BY <2>3, <2>5, <2>6, <2>7, <2>8
  <2> QED
    BY <1>4, <2>9
<1> QED
  BY <1>8, <1>9

LEMMA SumInvAddsUp == SumInv => DeltasAddUp
<1> SUFFICES ASSUME SumInv, late = {}, StampedInOrder, spent.faults = 0, InHand = {}, samples # {}
             PROVE  LET due == truth[Latest(samples)] - truth[Earliest(samples)]
                    IN  Bytes(deltas) <= due /\ (spent.resets = 0 => Bytes(deltas) = due)
  BY DEF DeltasAddUp
<1> DEFINE last == Latest(samples)
<1>1. last \in samples /\ \A t \in samples : t <= last
  BY EndsOfSamples DEF SumInv, IInv
<1>2. {d \in deltas : d.at <= last} = deltas
  BY <1>1 DEF SumInv, IInv, AboutSamples
<1>3. Bytes(deltas) = Total([d \in deltas |-> d.bytes], deltas)
  BY BytesIsTotal DEF SumInv, DeltasMeasure
<1> HIDE DEF last
<1>4. LET due == truth[last] - truth[Earliest(samples)]
          sum == Total([d \in deltas |-> d.bytes], {d \in deltas : d.at <= last})
      IN  sum <= due /\ (spent.resets = 0 => sum = due)
  BY <1>1, DeltasTelescope
<1> QED
  BY <1>2, <1>3, <1>4 DEF last

\* The first of the samples that are not late.
LEMMA FirstNotLate ==
  ASSUME TypeOK, LateHaveALater, samples # {}
  PROVE  /\ Earliest(samples \ late) \in samples \ late
         /\ \A t \in samples \ late : Earliest(samples \ late) <= t
         /\ Latest(samples) \in samples \ late
<1>1. Latest(samples) \in samples /\ \A t \in samples : t <= Latest(samples)
  BY EndsOfSamples
<1>2. samples \in SUBSET Nat /\ MaxPushes \in Nat /\ \A t \in samples : t <= MaxPushes
  <2>1. Range1(stored) \subseteq Times
    BY DEF TypeOK, Range1
  <2> QED
    BY <2>1, CountersOK DEF TypeOK, Times, CountersOK
<1>3. Latest(samples) \in samples \ late
  <2> DEFINE last == Latest(samples)
  <2>1. ASSUME last \in late PROVE FALSE
    <3>1. PICK u \in samples : last < u
      BY <2>1 DEF LateHaveALater
    <3>2. u <= last /\ u \in Nat /\ last \in Nat
      BY <1>1, <1>2, <3>1
    <3> HIDE DEF last
    <3> QED
      BY <3>1, <3>2
  <2> QED
    BY <1>1, <2>1
<1>4. \E x \in samples \ late : \A y \in samples \ late : x <= y
  <2> DEFINE S == samples \ late
  <2>1. S \in SUBSET Nat /\ S # {} /\ \A t \in S : t <= MaxPushes
    BY <1>2, <1>3
  <2> HIDE DEF S
  <2>2. \E x \in S : \A y \in S : x <= y
    BY <1>2, <2>1, HasEnds
  <2> QED
    BY <2>2 DEF S
<1> QED
  BY <1>3, <1>4 DEF Earliest

\* The deltas up to a sample cover what has moved since the first one stored.
LEMMA DeltasCover ==
  ASSUME SumInv, StampedInOrder, spent.faults = 0, spent.resets = 0, InHand = {},
         NEW k \in samples, Earliest(samples \ late) <= k
  PROVE  truth[k] - truth[Earliest(samples \ late)]
           <= Total([d \in deltas |-> d.bytes], {d \in deltas : d.at <= k})
<1> DEFINE w == [d \in deltas |-> d.bytes]
           UpTo(t) == {d \in deltas : d.at <= t}
           first == Earliest(samples \ late)
           Fits(t) == truth[t] - truth[first] <= Total(w, UpTo(t))
           Bad == {t \in samples : first <= t /\ ~Fits(t)}
<1>1. SUFFICES ASSUME Bad # {} PROVE FALSE
  OBVIOUS
<1>2. /\ samples \subseteq Nat /\ samples \subseteq Times /\ samples \subseteq Range1(stored)
      /\ \A t \in samples : truth[t] \in Nat /\ value[t] \in Nat
  <2>1. Range1(stored) \subseteq Times
    BY DEF SumInv, IInv, TypeOK, Range1
  <2> QED
    BY <2>1 DEF SumInv, IInv, TypeOK, Times
<1>3. PICK t \in Bad : \A u \in Bad : t <= u
  <2>1. Bad \in SUBSET Nat
    BY <1>2
  <2> HIDE DEF Bad
  <2> QED
    BY <1>1, <2>1, Smallest
<1>4. t \in samples /\ first <= t /\ ~Fits(t)
  OBVIOUS
<1>5. first \in samples \ late /\ \A u \in samples \ late : first <= u
  BY FirstNotLate DEF SumInv, IInv
<1>6. /\ \A d \in deltas : /\ d.at \in samples /\ d.from \in samples /\ Adjacent(d.from, d.at)
                           /\ d.bytes = Growth(value[d.at], value[d.from])
      /\ IsFiniteSet(deltas)
  BY DEF SumInv, IInv, DeltasMeasure, AboutSamples, DeltasAreAdjacent
<1>7. \A d \in deltas : w[d] = d.bytes /\ w[d] \in Nat
  BY <1>2, <1>6, GrowthType
<1> HIDE DEF w, first, Bad
<1>8. \A x \in Nat : /\ IsFiniteSet(UpTo(x)) /\ \A e \in UpTo(x) : w[e] \in Nat
                     /\ Total(w, UpTo(x)) \in Nat
  <2> TAKE x \in Nat
  <2>1. IsFiniteSet(UpTo(x)) /\ \A e \in UpTo(x) : w[e] \in Nat
    BY <1>6, <1>7, FS_Subset
  <2> HIDE DEF UpTo
  <2> QED
    BY <2>1, TotalIsNat
<1>9. CASE t = first
  <2>1. t \in Nat /\ truth[t] \in Nat
    BY <1>2, <1>4
  <2> HIDE DEF UpTo
  <2>2. Total(w, UpTo(t)) \in Nat
    BY <1>8, <2>1
  <2>3. truth[t] - truth[first] = 0
    BY <1>9, <2>1
  <2> QED
    BY <1>4, <2>2, <2>3
<1>10. CASE t # first
  <2>1. PICK d \in deltas : d.at = t
    <3>1. ~ \A u \in samples \ late : t <= u
      BY <1>2, <1>4, <1>5, <1>10
    <3>2. \A p \in Procs : proc[p].pc \notin Measuring
      BY DEF InHand, Measuring
    <3> QED
      BY <1>4, <3>1, <3>2 DEF SumInv, SamplesLeaveDeltas
  <2> DEFINE u == d.from
  <2>2. /\ u \in samples /\ u < t /\ u \in Nat /\ t \in Nat /\ first \in Nat
        /\ \A v \in samples : u < v /\ v < t => v \in late
    BY <1>2, <1>5, <1>6, <2>1 DEF Adjacent
  <2>3. first <= u
    BY <1>4, <1>5, <1>10, <2>2
  <2>4. Fits(u)
    <3>1. u \notin Bad
      BY <1>3, <2>2
    <3> QED
      BY <2>2, <2>3, <3>1 DEF Bad
  <2>5. UpTo(u) \subseteq UpTo(t) \ {d} /\ d \in UpTo(t)
    <3>1. \A e \in deltas : e.at \in Nat
      BY <1>2, <1>6
    <3> HIDE DEF u
    <3> QED
      BY <2>1, <2>2, <3>1
  <2>6. Total(w, UpTo(t)) = w[d] + Total(w, UpTo(t) \ {d})
    <3>1. IsFiniteSet(UpTo(t)) /\ \A e \in UpTo(t) : w[e] \in Nat
      BY <1>8, <2>2
    <3> HIDE DEF UpTo
    <3> QED
      BY <2>5, <3>1, TotalTakesAny
  <2>7. /\ Total(w, UpTo(u)) <= Total(w, UpTo(t) \ {d})
        /\ Total(w, UpTo(t) \ {d}) \in Nat
    <3>1. IsFiniteSet(UpTo(t) \ {d}) /\ \A e \in UpTo(t) \ {d} : w[e] \in Nat
      <4>1. IsFiniteSet(UpTo(t)) /\ \A e \in UpTo(t) : w[e] \in Nat
        BY <1>8, <2>2
      <4> HIDE DEF UpTo
      <4> QED
        BY <4>1, FS_Subset
    <3> HIDE DEF UpTo, u
    <3> QED
      BY <2>5, <3>1, TotalOfPart, TotalIsNat
  <2>8. truth[t] - truth[u] <= w[d]
    <3>1. w[d] = Growth(value[t], value[u])
      BY <1>6, <1>7, <2>1
    <3>2. /\ <<value[t], truth[t]>> \in Readings
          /\ <<value[u], truth[u]>> \in Readings
      BY <1>2, <1>4, <2>2 DEF Readings
    <3>3. value[t] = truth[t] /\ value[u] = truth[u]
      <4>1. \A r \in Readings : r[1] = r[2]
        BY DEF SumInv, ReadInOrder
      <4> QED
        BY <3>2, <4>1
    <3>4. truth[u] <= truth[t] /\ truth[t] \in Nat /\ truth[u] \in Nat
      <4>1. truth[u] < truth[t] \/ truth[u] = truth[t]
        BY <1>4, <2>2 DEF StampedInOrder
      <4> QED
        BY <1>2, <1>4, <2>2, <4>1
    <3> HIDE DEF u
    <3> QED
      BY <3>1, <3>3, <3>4 DEF Growth
  <2>9. /\ w[d] \in Nat /\ truth[t] \in Nat /\ truth[u] \in Nat /\ truth[first] \in Nat
        /\ Total(w, UpTo(u)) \in Nat
    BY <1>2, <1>4, <1>5, <1>7, <1>8, <2>2
  <2> HIDE DEF u, UpTo
  <2>10. Fits(t)
    BY <2>4, <2>6, <2>7, <2>8, <2>9
  <2> QED
    BY <1>4, <2>10
<1> QED
  BY <1>9, <1>10

LEMMA SumInvLosesNothing == SumInv => NoByteIsLost
<1> SUFFICES ASSUME SumInv, StampedInOrder, spent.faults = 0, spent.resets = 0, InHand = {},
                    samples # {}
             PROVE  Bytes(deltas) >= truth[Latest(samples)] - truth[Earliest(samples \ late)]
  BY DEF NoByteIsLost
<1> DEFINE last == Latest(samples)
           first == Earliest(samples \ late)
<1>1. last \in samples /\ \A t \in samples : t <= last
  BY EndsOfSamples DEF SumInv, IInv
<1>2. first \in samples /\ first <= last
  BY FirstNotLate DEF SumInv, IInv
<1>3. {d \in deltas : d.at <= last} = deltas
  BY <1>1 DEF SumInv, IInv, AboutSamples
<1>4. Bytes(deltas) = Total([d \in deltas |-> d.bytes], deltas)
  BY BytesIsTotal DEF SumInv, DeltasMeasure
<1>5. truth[last] - truth[first]
        <= Total([d \in deltas |-> d.bytes], {d \in deltas : d.at <= last})
  <2> HIDE DEF last
  <2> QED
    BY <1>1, <1>2, DeltasCover
<1>6. truth[last] - truth[first] <= Bytes(deltas)
  <2> HIDE DEF last, first
  <2> QED
    BY <1>3, <1>4, <1>5
<1>7. Bytes(deltas) \in Nat
  <2>1. \A d \in deltas : d.bytes \in Nat
    BY DEF SumInv, IInv, TypeOK, Deltas
  <2> DEFINE w == [d \in deltas |-> d.bytes]
  <2>2. IsFiniteSet(deltas) /\ \A d \in deltas : w[d] \in Nat
    BY <2>1 DEF SumInv, DeltasMeasure
  <2> HIDE DEF w
  <2>3. Total(w, deltas) \in Nat
    BY <2>2, TotalIsNat
  <2> QED
    BY <1>4, <2>3 DEF w
<1>8. truth[last] \in Nat /\ truth[first] \in Nat
  <2>1. Range1(stored) \subseteq Times
    BY DEF SumInv, IInv, TypeOK, Range1
  <2> QED
    BY <1>1, <1>2, <2>1 DEF SumInv, IInv, TypeOK
<1> QED
  <2> HIDE DEF last, first
  <2>1. Bytes(deltas) >= truth[last] - truth[first]
    BY <1>6, <1>7, <1>8
  <2> QED
    BY <2>1 DEF last, first

-----------------------------------------------------------------------------
(* The steps, once more: what makes the deltas add up is preserved.        *)

Parts == ReadInOrder /\ DeltasMeasure /\ SamplesLeaveDeltas

\* A process that takes up nothing new keeps no new reading.
LEMMA ReadingsKept ==
  ASSUME TypeOK, NEW p \in Procs, NEW row \in ProcRows, proc' = [proc EXCEPT ![p] = row],
         UNCHANGED <<router, stored, value, truth>>,
         row.pc \in Early => proc[p].pc \in Early /\ ReadingOf(row) = ReadingOf(proc[p])
  PROVE  Readings' \subseteq Readings
<1>1. /\ proc'[p] = row
      /\ \A q \in Procs \ {p} : proc'[q] = proc[q]
  BY ProcMoves
<1>2. Now' = Now /\ Range1(stored)' = Range1(stored)
  BY DEF Now, Range1, router
<1>3. {<<value[t], truth[t]>> : t \in Range1(stored)}' = {<<value[t], truth[t]>> : t \in Range1(stored)}
  BY <1>2
<1>4. ASSUME NEW q \in Procs, proc'[q].pc \in Early
      PROVE  proc[q].pc \in Early /\ ReadingOf(proc'[q]) = ReadingOf(proc[q])
  <2>1. CASE q = p
    BY <1>1, <1>4, <2>1
  <2>2. CASE q # p
    BY <1>1, <1>4, <2>2
  <2> QED
    BY <2>1, <2>2
<1>5. {ReadingOf(proc[q]) : q \in {h \in Procs : proc[h].pc \in Early}}'
        \subseteq {ReadingOf(proc[q]) : q \in {h \in Procs : proc[h].pc \in Early}}
  BY <1>4 DEF ReadingOf
<1> QED
  BY <1>2, <1>3, <1>5 DEF Readings

LEMMA OrderKept ==
  ASSUME ReadInOrder, Readings' \subseteq Readings, UNCHANGED router, spent'.resets = spent.resets
  PROVE  ReadInOrder'
<1>1. Now' = Now
  BY DEF Now, router
<1>2. \A r \in Readings' : r \in Readings
  OBVIOUS
<1> QED
  BY <1>1, <1>2 DEF ReadInOrder, ReadBefore

LEMMA MeasuresKept ==
  ASSUME IInv, DeltasMeasure, UNCHANGED deltas, samples \subseteq samples',
         \A t \in samples : value'[t] = value[t]
  PROVE  DeltasMeasure'
BY DEF IInv, AboutSamples, DeltasMeasure, Growth

\* A step of a handler that stores nothing.
LEMMA HandlerKeeps ==
  ASSUME SumInv, NEW p \in Procs, NEW row \in ProcRows, proc' = [proc EXCEPT ![p] = row],
         UNCHANGED <<router, stored, value, truth, tables, late>>,
         spent'.resets = spent.resets,
         row.pc \in Early => proc[p].pc \in Early /\ ReadingOf(row) = ReadingOf(proc[p]),
         \/ spent'.faults # 0
         \/ /\ spent'.faults = spent.faults
            /\ proc[p].pc \in Measuring =>
                 \/ row.pc \in Measuring /\ row.at = proc[p].at
                 \/ \A u \in samples : proc[p].at <= u
  PROVE  Parts'
<1>1. /\ proc'[p] = row
      /\ \A q \in Procs \ {p} : proc'[q] = proc[q]
  BY ProcMoves DEF SumInv, IInv
<1>2. ReadInOrder'
  BY ReadingsKept, OrderKept DEF SumInv, IInv
<1>3. DeltasMeasure'
  BY MeasuresKept DEF SumInv, tables
<1>4. SamplesLeaveDeltas'
  <2>1. SUFFICES ASSUME spent'.faults = 0, NEW t \in samples
                 PROVE  \/ \A u \in samples \ late : t <= u
                        \/ \E d \in deltas : d.at = t
                        \/ \E q \in Procs : proc'[q].pc \in Measuring /\ proc'[q].at = t
    BY DEF SamplesLeaveDeltas, tables
  <2>2. spent.faults = 0
    BY <2>1
  <2>3. \/ \A u \in samples \ late : t <= u
        \/ \E d \in deltas : d.at = t
        \/ \E q \in Procs : proc[q].pc \in Measuring /\ proc[q].at = t
    BY <2>1, <2>2 DEF SumInv, SamplesLeaveDeltas
  <2>4. ASSUME NEW q \in Procs, proc[q].pc \in Measuring, proc[q].at = t
        PROVE  \/ \A u \in samples \ late : t <= u
               \/ proc'[q].pc \in Measuring /\ proc'[q].at = t
    <3>1. CASE q = p
      BY <1>1, <2>1, <2>4, <3>1
    <3>2. CASE q # p
      BY <1>1, <2>4, <3>2
    <3> QED
      BY <3>1, <3>2
  <2> QED
    BY <2>3, <2>4
<1> QED
  BY <1>2, <1>3, <1>4 DEF Parts

\* A step that leaves the handlers and what they store alone.
LEMMA OthersKeep ==
  ASSUME SumInv, UNCHANGED <<router, stored, value, truth, tables, late, proc>>,
         spent'.resets = spent.resets, spent'.faults = spent.faults
  PROVE  Parts'
<1>1. Readings' = Readings
  BY DEF Readings, Now, ReadingOf, Range1, router
<1>2. ReadInOrder'
  BY <1>1, OrderKept DEF SumInv
<1>3. DeltasMeasure'
  BY MeasuresKept DEF SumInv, tables
<1>4. SamplesLeaveDeltas'
  BY DEF SumInv, SamplesLeaveDeltas, tables
<1> QED
  BY <1>2, <1>3, <1>4 DEF Parts

LEMMA PushSums ==
  ASSUME SumInv, NEW p \in Requests, Push(p)
  PROVE  Parts'
<1>1. PICK d \in Increments, reset \in BOOLEAN :
        /\ proc[p].pc = "idle"
        /\ spent' = [spent EXCEPT !.pushes = @ + 1, !.resets = IF reset THEN @ + 1 ELSE @]
        /\ counter' = IF reset THEN d ELSE counter + d
        /\ moved' = moved + d
        /\ proc' = [proc EXCEPT ![p] = [Idle EXCEPT !.pc = "stamp", !.value = counter',
                                                    !.truth = moved']]
        /\ UNCHANGED <<clock, raw, tables, todo, late>>
  BY DEF Push
<1> DEFINE row == [Idle EXCEPT !.pc = "stamp", !.value = counter', !.truth = moved']
<1>2. p \in Procs /\ d \in Nat
  BY CountersOK DEF Procs, CountersOK
<1>3. counter' \in Nat /\ moved' \in Nat /\ counter \in Nat /\ moved \in Nat
  BY <1>1, <1>2 DEF SumInv, IInv, TypeOK
<1>4. row \in ProcRows /\ row.pc = "stamp" /\ ReadingOf(row) = Now'
  <2>1. Idle \in ProcRows /\ "stamp" \in PCs
    BY <1>2, RowTypes DEF SumInv, IInv, PCs
  <2> QED
    BY <1>3, <2>1 DEF ProcRows, ReadingOf, Now
<1>5. proc' = [proc EXCEPT ![p] = row]
  BY <1>1
<1> HIDE DEF row
<1>6. /\ proc'[p] = row
      /\ \A q \in Procs \ {p} : proc'[q] = proc[q]
  BY <1>2, <1>4, <1>5, ProcMoves DEF SumInv, IInv
<1>7. Readings' \subseteq Readings \union {Now'}
  <2>1. {<<value[t], truth[t]>> : t \in Range1(stored)}' = {<<value[t], truth[t]>> : t \in Range1(stored)}
    BY <1>1 DEF Range1, raw
  <2>2. ASSUME NEW q \in Procs, proc'[q].pc \in Early
        PROVE  \/ ReadingOf(proc'[q]) = Now'
               \/ proc[q].pc \in Early /\ ReadingOf(proc'[q]) = ReadingOf(proc[q])
    <3>1. CASE q = p
      BY <1>4, <1>6, <3>1
    <3>2. CASE q # p
      BY <1>6, <2>2, <3>2
    <3> QED
      BY <3>1, <3>2
  <2>3. {ReadingOf(proc[q]) : q \in {h \in Procs : proc[h].pc \in Early}}'
          \subseteq {ReadingOf(proc[q]) : q \in {h \in Procs : proc[h].pc \in Early}} \union {Now'}
    BY <2>2 DEF ReadingOf
  <2> QED
    BY <2>1, <2>3 DEF Readings
<1>8. ASSUME NEW r \in Readings PROVE ReadBefore(r, Now')
  <2>1. ReadBefore(r, Now) /\ r[1] \in Nat /\ r[2] \in Nat
    <3>1. \A t \in Range1(stored) : t \in Times
      BY DEF SumInv, IInv, TypeOK, Range1
    <3>2. \A q \in Procs : proc[q].value \in Nat /\ proc[q].truth \in Nat
      BY DEF SumInv, IInv, TypeOK
    <3>3. \A t \in Times : value[t] \in Nat /\ truth[t] \in Nat
      BY DEF SumInv, IInv, TypeOK
    <3> QED
      BY <1>3, <3>1, <3>2, <3>3 DEF SumInv, ReadInOrder, Readings, ReadingOf, Now
  <2> QED
    BY <1>1, <1>2, <1>3, <2>1 DEF ReadBefore, Now
<1>9. ReadBefore(Now', Now')
  <2>1. Now' = <<counter', moved'>>
    BY DEF Now
  <2>2. \A c, m \in Nat : ReadBefore(<<c, m>>, <<c, m>>)
    BY DEF ReadBefore
  <2> QED
    BY <1>3, <2>1, <2>2
<1>10. spent'.resets = 0 => spent.resets = 0 /\ ~reset
  BY <1>1 DEF SumInv, IInv, TypeOK
<1>11. spent'.resets = 0 => counter' = moved'
  <2>1. spent.resets = 0 => counter = moved
    BY DEF SumInv, ReadInOrder, Readings, Now
  <2> QED
    BY <1>1, <1>10, <2>1
<1>12. ReadInOrder'
  <2>1. \A r, s \in Readings' : ReadBefore(r, s) \/ ReadBefore(s, r)
    BY <1>7, <1>8, <1>9 DEF SumInv, ReadInOrder
  <2>2. \A r \in Readings' : ReadBefore(r, Now')
    BY <1>7, <1>8, <1>9
  <2>3. spent'.resets = 0 => \A r \in Readings' : r[1] = r[2]
    <3>1. spent'.resets = 0 => \A r \in Readings : r[1] = r[2]
      BY <1>10 DEF SumInv, ReadInOrder
    <3>2. spent'.resets = 0 => Now'[1] = Now'[2]
      BY <1>11 DEF Now
    <3> QED
      BY <1>7, <3>1, <3>2
  <2> QED
    BY <2>1, <2>2, <2>3 DEF ReadInOrder, ReadBefore
<1>13. DeltasMeasure'
  BY <1>1, MeasuresKept DEF SumInv, tables, raw
<1>14. SamplesLeaveDeltas'
  <2>1. spent'.faults = spent.faults
    BY <1>1 DEF SumInv, IInv, TypeOK
  <2>2. ASSUME NEW q \in Procs, proc[q].pc \in Measuring PROVE proc'[q] = proc[q]
    BY <1>1, <1>6, <2>2 DEF Measuring
  <2> QED
    BY <1>1, <2>1, <2>2 DEF SumInv, SamplesLeaveDeltas, tables
<1> QED
  BY <1>12, <1>13, <1>14 DEF Parts

LEMMA StampSums ==
  ASSUME SumInv, NEW p \in Requests, Stamp(p)
  PROVE  Parts'
<1>1. PICK t \in Times \intersect {clock, clock + 1} :
        /\ proc[p].pc = "stamp"
        /\ proc' = [proc EXCEPT ![p].pc = "lookup", ![p].at = t]
        /\ UNCHANGED <<router, raw, tables, todo, late, spent>>
  BY DEF Stamp
<1> DEFINE row == [proc[p] EXCEPT !.pc = "lookup", !.at = t]
<1>2. p \in Procs /\ t \in 0..MaxPushes
  BY CountersOK DEF Procs, Times, CountersOK
<1>3. row \in ProcRows /\ row.pc = "lookup" /\ ReadingOf(row) = ReadingOf(proc[p])
  <2>1. proc[p] \in ProcRows /\ "lookup" \in PCs
    BY <1>2, RowTypes DEF SumInv, IInv, PCs
  <2> QED
    BY <1>2, <2>1 DEF ProcRows, ReadingOf
<1>4. proc' = [proc EXCEPT ![p] = row]
  BY <1>1, <1>2 DEF SumInv, IInv, TypeOK
<1> HIDE DEF row
<1> QED
  BY <1>1, <1>2, <1>3, <1>4, HandlerKeeps DEF raw, Early, Measuring

LEMMA LookupSums ==
  ASSUME SumInv, NEW p \in Requests, Lookup(p)
  PROVE  Parts'
<1>1. /\ proc[p].pc = "lookup"
      /\ Release(p) \/ Goto(p, "insertRaw")
      /\ UNCHANGED <<router, clock, raw, tables, todo, late, spent>>
      /\ p \in Procs
  BY DEF Lookup, Procs
<1>2. PICK row \in {Idle, [proc[p] EXCEPT !.pc = "insertRaw"]} : proc' = [proc EXCEPT ![p] = row]
  BY <1>1, Moved DEF SumInv, IInv, PCs
<1>3. row \in ProcRows /\ (row.pc \in Early => ReadingOf(row) = ReadingOf(proc[p]))
  <2>1. "insertRaw" \in PCs /\ Idle.pc \notin Early
    BY DEF PCs, Early, Idle
  <2> QED
    BY <1>1, <1>2, <2>1, RowTypes DEF SumInv, IInv, ProcRows, ReadingOf
<1> QED
  BY <1>1, <1>2, <1>3, HandlerKeeps DEF raw, Early, Measuring

LEMMA InsertRawSums ==
  ASSUME SumInv, NEW p \in Requests, InsertRaw(p)
  PROVE  Parts'
<1> DEFINE t == proc[p].at
           row == [Idle EXCEPT !.pc = "insertSample", !.at = t]
<1>1. /\ proc[p].pc = "insertRaw" /\ p \in Procs
      /\ UNCHANGED <<router, clock, tables, todo, late, spent>>
  BY DEF InsertRaw, Procs
<1>2. /\ t \in 1..clock /\ clock \in 0..MaxPushes /\ MaxPushes \in Nat
      /\ stored \in Seq(Times) /\ Range1(stored) \subseteq Times
      /\ proc[p] \in ProcRows
  <2>1. Range1(stored) \subseteq Times
    BY DEF SumInv, IInv, TypeOK, Range1
  <2> QED
    BY <1>1, <2>1, CountersOK, RowTypes DEF SumInv, IInv, TypeOK, StampedAndStored, CountersOK
<1>3. t \in Times
  BY <1>2 DEF Times
<1>4. CASE t \in Range1(stored)
  <2>1. proc' = [proc EXCEPT ![p] = Idle] /\ UNCHANGED raw
    BY <1>1, <1>4, Moved DEF InsertRaw, SumInv, IInv
  <2>2. Idle \in ProcRows /\ Idle.pc = "idle"
    BY <1>1, RowTypes DEF SumInv, IInv
  <2> QED
    BY <1>1, <2>1, <2>2, HandlerKeeps DEF raw, Early, Measuring
<1>5. CASE t \notin Range1(stored)
  <2>1. /\ stored' = Append(stored, t)
        /\ value' = [value EXCEPT ![t] = proc[p].value]
        /\ truth' = [truth EXCEPT ![t] = proc[p].truth]
        /\ proc' = [proc EXCEPT ![p] = row]
    BY <1>5 DEF InsertRaw
  <2>2. row \in ProcRows /\ row.pc = "insertSample"
    <3>1. t \in 0..MaxPushes
      BY <1>2
    <3>2. Idle \in ProcRows /\ "insertSample" \in PCs
      BY <1>1, RowTypes DEF SumInv, IInv, PCs, Normalising
    <3> QED
      BY <3>1, <3>2 DEF ProcRows
  <2>3. /\ proc'[p] = row
        /\ \A q \in Procs \ {p} : proc'[q] = proc[q]
    BY <1>1, <2>1, <2>2, ProcMoves DEF SumInv, IInv
  <2>4. Range1(stored') = Range1(stored) \union {t}
    BY <1>2, <1>3, <2>1, RangeOfAppend
  <2>5. /\ value'[t] = proc[p].value /\ truth'[t] = proc[p].truth
        /\ \A u \in Times \ {t} : value'[u] = value[u] /\ truth'[u] = truth[u]
    BY <1>3, <2>1 DEF SumInv, IInv, TypeOK
  <2> HIDE DEF row, t
  <2>6. Readings' \subseteq Readings
    <3>1. Now' = Now
      BY <1>1 DEF Now, router
    <3>2. ASSUME NEW u \in Range1(stored') PROVE <<value'[u], truth'[u]>> \in Readings
      <4>1. CASE u = t
        BY <1>1, <2>5, <4>1 DEF Readings, ReadingOf, Early
      <4>2. CASE u # t
        <5>1. u \in Range1(stored) /\ u \in Times
          BY <1>2, <2>4, <4>2
        <5> QED
          BY <2>5, <4>2, <5>1 DEF Readings
      <4> QED
        BY <4>1, <4>2
    <3>3. ASSUME NEW q \in Procs, proc'[q].pc \in Early
          PROVE  proc[q].pc \in Early /\ ReadingOf(proc'[q]) = ReadingOf(proc[q])
      BY <2>2, <2>3, <3>3 DEF Early
    <3>4. \A q \in Procs : proc'[q].pc \in Early => ReadingOf(proc'[q]) \in Readings
      BY <3>3 DEF Readings
    <3>5. Now \in Readings /\ Range1(stored)' = Range1(stored')
      BY DEF Readings, Range1
    <3> QED
      BY <3>1, <3>2, <3>4, <3>5 DEF Readings, ReadingOf
  <2>7. ReadInOrder'
    BY <1>1, <2>6, OrderKept DEF SumInv
  <2>8. DeltasMeasure'
    <3>1. \A u \in samples : u \in Times /\ u # t
      BY <1>2, <1>5 DEF SumInv, IInv, TypeOK
    <3> QED
      BY <1>1, <2>5, <3>1, MeasuresKept DEF SumInv, tables
  <2>9. SamplesLeaveDeltas'
    <3>1. ASSUME NEW q \in Procs, proc[q].pc \in Measuring PROVE proc'[q] = proc[q]
      BY <1>1, <2>3, <3>1 DEF Measuring
    <3> QED
      BY <1>1, <3>1 DEF SumInv, SamplesLeaveDeltas, tables
  <2> QED
    BY <2>7, <2>8, <2>9 DEF Parts
<1> QED
  BY <1>4, <1>5

LEMMA TakePendingSums ==
  ASSUME SumInv, NEW r \in Runners, TakePending(r)
  PROVE  Parts'
<1>1. PICK i \in DOMAIN stored :
        /\ proc[r].pc = "idle"
        /\ IF stored[i] \in done
             THEN UNCHANGED proc
             ELSE proc' = [proc EXCEPT ![r] = [Idle EXCEPT !.pc = "insertSample",
                                                           !.at = stored[i]]]
        /\ UNCHANGED <<router, clock, raw, tables, late, spent>>
  BY DEF TakePending
<1> DEFINE row == [Idle EXCEPT !.pc = "insertSample", !.at = stored[i]]
<1>2. CASE UNCHANGED proc
  BY <1>1, <1>2, OthersKeep DEF raw
<1>3. CASE proc' = [proc EXCEPT ![r] = row]
  <2>1. r \in Procs
    BY DEF Procs
  <2>2. stored[i] \in 0..MaxPushes
    <3>1. stored[i] \in Times
      BY DEF SumInv, IInv, TypeOK
    <3> QED
      BY <3>1, CountersOK DEF Times, CountersOK
  <2>3. row \in ProcRows /\ row.pc = "insertSample"
    <3>1. Idle \in ProcRows /\ "insertSample" \in PCs
      BY <2>1, RowTypes DEF SumInv, IInv, PCs, Normalising
    <3> QED
      BY <2>2, <3>1 DEF ProcRows
  <2> HIDE DEF row
  <2> QED
    BY <1>1, <1>3, <2>1, <2>3, HandlerKeeps DEF raw, Early, Measuring
<1> QED
  BY <1>1, <1>2, <1>3

LEMMA InsertSampleSums ==
  ASSUME SumInv, NEW p \in Procs, InsertSample(p)
  PROVE  Parts'
<1> DEFINE t == proc[p].at
           pc == IF t \in samples THEN "mark" ELSE "findPrevious"
           row == [proc[p] EXCEPT !.pc = pc]
<1>1. /\ proc[p].pc = "insertSample"
      /\ samples' = samples \union {t}
      /\ late' = late \union {x \in {t} \ samples : \E u \in samples : x < u}
      /\ UNCHANGED <<router, clock, raw, deltas, todo, spent>>
  BY DEF InsertSample
<1>2. proc' = [proc EXCEPT ![p] = row] /\ row \in ProcRows /\ row.pc = pc /\ row.at = t
  <2>1. pc \in PCs /\ Goto(p, pc)
    BY DEF PCs, Normalising, InsertSample
  <2>2. proc' = [proc EXCEPT ![p] = row]
    BY <2>1, Moved DEF SumInv, IInv
  <2>3. proc[p] \in ProcRows
    BY RowTypes DEF SumInv, IInv
  <2> HIDE DEF pc
  <2> QED
    BY <2>1, <2>2, <2>3 DEF ProcRows
<1>3. t \in Range1(stored) /\ Range1(stored) \subseteq Times /\ samples \subseteq Times
  <2>1. Range1(stored) \subseteq Times
    BY DEF SumInv, IInv, TypeOK, Range1
  <2> QED
    BY <1>1, <2>1 DEF SumInv, IInv, TypeOK, StampedAndStored, Normalising
<1>4. t \in Nat /\ samples \subseteq Nat
  BY <1>3 DEF Times
<1> HIDE DEF row, t
<1>5. /\ proc'[p] = row
      /\ \A q \in Procs \ {p} : proc'[q] = proc[q]
  BY <1>2, ProcMoves DEF SumInv, IInv
<1>6. ReadInOrder'
  <2>1. row.pc \notin Early
    BY <1>2 DEF Early
  <2>2. Readings' \subseteq Readings
    BY <1>1, <1>2, <2>1, ReadingsKept DEF SumInv, IInv, raw
  <2> QED
    BY <1>1, <2>2, OrderKept DEF SumInv
<1>7. DeltasMeasure'
  BY <1>1, MeasuresKept DEF SumInv, raw
<1>8. SamplesLeaveDeltas'
  <2>1. SUFFICES ASSUME spent.faults = 0, NEW v \in samples'
                 PROVE  \/ \A u \in samples' \ late' : v <= u
                        \/ \E d \in deltas' : d.at = v
                        \/ \E q \in Procs : proc'[q].pc \in Measuring /\ proc'[q].at = v
    BY <1>1 DEF SamplesLeaveDeltas
  <2>2. /\ samples' \ late' \subseteq (samples \ late) \union {t}
        /\ t \notin samples /\ t \notin late' => \A u \in samples : u <= t
    BY <1>1, <1>4
  <2>3. CASE v \in samples
    <3>1. \/ \A u \in samples \ late : v <= u
          \/ \E d \in deltas : d.at = v
          \/ \E q \in Procs : proc[q].pc \in Measuring /\ proc[q].at = v
      BY <2>1, <2>3 DEF SumInv, SamplesLeaveDeltas
    <3>2. ASSUME \A u \in samples \ late : v <= u PROVE \A u \in samples' \ late' : v <= u
      <4>1. t \notin samples /\ t \notin late' => v <= t
        BY <2>2, <2>3
      <4>2. t \in samples /\ t \notin late' => v <= t
        BY <1>1, <3>2
      <4> QED
        BY <2>2, <3>2, <4>1, <4>2
    <3>3. ASSUME NEW q \in Procs, proc[q].pc \in Measuring PROVE proc'[q] = proc[q]
      BY <1>1, <1>5, <3>3 DEF Measuring
    <3> QED
      BY <1>1, <3>1, <3>2, <3>3
  <2>4. CASE v \notin samples
    <3>1. v = t /\ t \notin samples
      BY <1>1, <2>1, <2>4
    <3>2. row.pc \in Measuring /\ row.at = v
      BY <1>2, <3>1 DEF Measuring
    <3> QED
      BY <1>5, <3>2
  <2> QED
    BY <2>3, <2>4
<1> QED
  BY <1>6, <1>7, <1>8 DEF Parts

\* A sample that has none before it is the first.
LEMMA FirstOrPreceded ==
  ASSUME TypeOK, NEW t \in samples
  PROVE  LatestBefore(t) = {} => \A u \in samples : t <= u
<1> DEFINE S == {u \in samples : u < t}
<1>1. samples \subseteq Nat
  <2>1. Range1(stored) \subseteq Times
    BY DEF TypeOK, Range1
  <2> QED
    BY <2>1 DEF TypeOK, Times
<1>2. SUFFICES ASSUME NEW u \in S PROVE LatestBefore(t) # {}
  BY <1>1
<1>3. S \in SUBSET Nat /\ S # {} /\ t \in Nat /\ \A x \in S : x <= t
  <2>1. \A x \in S : x \in Nat /\ x <= t
    BY <1>1
  <2> QED
    BY <1>1, <1>2, <2>1
<1>4. PICK x \in S : \A y \in S : y <= x
  <2> HIDE DEF S
  <2> QED
    BY <1>3, HasEnds
<1> QED
  BY <1>4 DEF LatestBefore

LEMMA FindPreviousSums ==
  ASSUME SumInv, NEW p \in Procs, FindPrevious(p)
  PROVE  Parts'
<1> DEFINE t == proc[p].at
<1>1. /\ proc[p].pc = "findPrevious" /\ t \in samples
      /\ UNCHANGED <<router, clock, raw, tables, todo, late, spent>>
  BY DEF FindPrevious, SumInv, IInv, AboutSamples
<1>2. CASE LatestBefore(t) = {}
  <2>1. Goto(p, "mark")
    BY <1>2 DEF FindPrevious
  <2>2. proc' = [proc EXCEPT ![p] = [proc[p] EXCEPT !.pc = "mark"]]
    BY <2>1, Moved DEF SumInv, IInv, PCs, Normalising
  <2>3. [proc[p] EXCEPT !.pc = "mark"] \in ProcRows /\ [proc[p] EXCEPT !.pc = "mark"].pc = "mark"
    BY RowTypes DEF SumInv, IInv, PCs, Normalising, ProcRows
  <2>4. \A u \in samples : t <= u
    BY <1>1, <1>2, FirstOrPreceded DEF SumInv, IInv
  <2> QED
    BY <1>1, <2>2, <2>3, <2>4, HandlerKeeps DEF raw, Early
<1>3. CASE LatestBefore(t) # {}
  <2>1. PICK u \in LatestBefore(t) :
          proc' = [proc EXCEPT ![p].pc = "insertDelta", ![p].previous = u]
    BY <1>3 DEF FindPrevious
  <2> DEFINE row == [proc[p] EXCEPT !.pc = "insertDelta", !.previous = u]
  <2>2. proc' = [proc EXCEPT ![p] = row]
    BY <2>1 DEF SumInv, IInv, TypeOK
  <2>3. row \in ProcRows /\ row.pc = "insertDelta" /\ row.at = t
    <3>1. u \in 0..MaxPushes
      <4>1. u \in samples
        BY <2>1 DEF LatestBefore
      <4>2. u \in Times
        BY <4>1 DEF SumInv, IInv, TypeOK, Range1
      <4> QED
        BY <4>2, CountersOK DEF Times, CountersOK
    <3>2. proc[p] \in ProcRows /\ "insertDelta" \in PCs
      BY RowTypes DEF SumInv, IInv, PCs, Normalising
    <3> QED
      BY <3>1, <3>2 DEF ProcRows
  <2> HIDE DEF row
  <2> QED
    BY <1>1, <2>2, <2>3, HandlerKeeps DEF raw, Early, Measuring
<1> QED
  BY <1>2, <1>3

LEMMA InsertDeltaSums ==
  ASSUME SumInv, NEW p \in Procs, InsertDelta(p)
  PROVE  Parts'
<1> DEFINE t == proc[p].at
           u == proc[p].previous
           delta == [at |-> t, from |-> u, bytes |-> Growth(value[t], value[u]),
                     reset |-> value[t] < value[u]]
           row == [proc[p] EXCEPT !.pc = "mark"]
<1>1. /\ proc[p].pc = "insertDelta" /\ t \in samples /\ u \in samples
      /\ deltas' = IF \E d \in deltas : d.at = t THEN deltas ELSE deltas \union {delta}
      /\ UNCHANGED <<router, clock, raw, samples, todo, late, spent>>
  BY DEF InsertDelta, SumInv, IInv, AboutSamples
<1>2. proc' = [proc EXCEPT ![p] = row] /\ row \in ProcRows /\ row.pc = "mark"
  <2>1. Goto(p, "mark")
    BY DEF InsertDelta
  <2>2. proc' = [proc EXCEPT ![p] = row]
    BY <2>1, Moved DEF SumInv, IInv, PCs, Normalising
  <2> QED
    BY <2>2, RowTypes DEF SumInv, IInv, PCs, Normalising, ProcRows
<1>3. delta.at = t /\ delta.from = u /\ delta.bytes = Growth(value[t], value[u])
  OBVIOUS
<1> HIDE DEF row, delta
<1>4. /\ proc'[p] = row
      /\ \A q \in Procs \ {p} : proc'[q] = proc[q]
  BY <1>2, ProcMoves DEF SumInv, IInv
<1>5. ReadInOrder'
  <2>1. Readings' \subseteq Readings
    BY <1>1, <1>2, ReadingsKept DEF SumInv, IInv, raw, Early
  <2> QED
    BY <1>1, <2>1, OrderKept DEF SumInv
<1>6. DeltasMeasure'
  <2>1. UNCHANGED <<value, samples>>
    BY <1>1 DEF raw
  <2>2. CASE \E d \in deltas : d.at = t
    <3>1. deltas' = deltas
      BY <1>1, <2>2
    <3> QED
      BY <2>1, <3>1, MeasuresKept DEF SumInv
  <2>3. CASE ~ \E d \in deltas : d.at = t
    <3>1. deltas' = deltas \union {delta}
      BY <1>1, <2>3
    <3>2. IsFiniteSet(deltas')
      BY <3>1, FS_AddElement DEF SumInv, DeltasMeasure
    <3>3. \A d, e \in deltas' : d.at = e.at => d = e
      BY <1>3, <2>3, <3>1 DEF SumInv, DeltasMeasure
    <3>4. \A d \in deltas' : d.from \in samples /\ d.bytes = Growth(value[d.at], value[d.from])
      BY <1>1, <1>3, <3>1 DEF SumInv, DeltasMeasure
    <3> QED
      BY <2>1, <3>2, <3>3, <3>4 DEF DeltasMeasure, Growth
  <2> QED
    BY <2>2, <2>3
<1>7. SamplesLeaveDeltas'
  <2>1. \E d \in deltas' : d.at = t
    BY <1>1, <1>3
  <2>2. deltas \subseteq deltas'
    BY <1>1
  <2>3. ASSUME NEW q \in Procs, proc[q].pc \in Measuring, proc[q].at # t PROVE proc'[q] = proc[q]
    BY <1>4, <2>3
  <2> QED
    BY <1>1, <2>1, <2>2, <2>3 DEF SumInv, SamplesLeaveDeltas
<1> QED
  BY <1>5, <1>6, <1>7 DEF Parts

LEMMA MarkSums ==
  ASSUME SumInv, NEW p \in Procs, Mark(p)
  PROVE  Parts'
<1>1. proc[p].pc = "mark" /\ proc' = [proc EXCEPT ![p] = Idle]
  BY Moved DEF Mark, SumInv, IInv
<1>2. Idle \in ProcRows /\ Idle.pc = "idle"
  BY RowTypes DEF SumInv, IInv
<1> QED
  BY <1>1, <1>2, HandlerKeeps DEF Mark, Early, Measuring

LEMMA FaultSums ==
  ASSUME SumInv, NEW p \in Procs, Fault(p)
  PROVE  Parts'
<1>1. proc' = [proc EXCEPT ![p] = Idle]
  BY Moved DEF Fault, SumInv, IInv
<1>2. Idle \in ProcRows /\ Idle.pc = "idle"
  BY RowTypes DEF SumInv, IInv
<1>3. spent'.faults # 0 /\ spent'.resets = spent.resets
  BY DEF Fault, SumInv, IInv, TypeOK
<1> QED
  BY <1>1, <1>2, <1>3, HandlerKeeps DEF Fault, Early, raw

-----------------------------------------------------------------------------
(* The theorems.                                                           *)

LEMMA IInvStep ==
  ASSUME IInv, [Next]_vars
  PROVE  IInv'
<1>1. ASSUME NEW p \in Requests, Push(p) \/ Stamp(p) \/ Lookup(p) \/ InsertRaw(p) PROVE IInv'
  BY <1>1, PushStep, StampStep, LookupStep, InsertRawStep
<1>2. ASSUME NEW r \in Runners, StartCatchUp(r) \/ TakePending(r) PROVE IInv'
  BY <1>2, StartCatchUpStep, TakePendingStep
<1>3. ASSUME NEW p \in Procs, Normalise(p) \/ Fault(p) PROVE IInv'
  BY <1>3, InsertSampleStep, FindPreviousStep, InsertDeltaStep, MarkStep, FaultStep
  DEF Normalise
<1>4. CASE UNCHANGED vars
  BY <1>4, StutterStep
<1> QED
  BY <1>1, <1>2, <1>3, <1>4 DEF Next

LEMMA SumInvInit == Init => SumInv
<1> SUFFICES ASSUME Init PROVE SumInv
  OBVIOUS
<1>1. \A p \in Procs : proc[p].pc \notin Early
  BY DEF Init, Idle, Early
<1>2. Readings = {<<0, 0>>} /\ Now = <<0, 0>>
  BY <1>1 DEF Init, Readings, Now, Range1
<1>3. ReadInOrder
  BY <1>2 DEF Init, ReadInOrder, ReadBefore
<1>4. DeltasMeasure /\ SamplesLeaveDeltas /\ LateHaveALater
  BY FS_EmptySet DEF Init, DeltasMeasure, SamplesLeaveDeltas, LateHaveALater
<1> QED
  BY <1>3, <1>4, IInvInit DEF SumInv

\* Only a sample stored can be late, and one is if another stands after it.
LEMMA LateStep ==
  ASSUME LateHaveALater, [Next]_vars
  PROVE  LateHaveALater'
<1>1. ASSUME NEW p \in Procs, InsertSample(p) PROVE LateHaveALater'
  BY <1>1 DEF InsertSample, LateHaveALater
<1>2. ASSUME UNCHANGED <<samples, late>> PROVE LateHaveALater'
  BY <1>2 DEF LateHaveALater
<1>3. ASSUME NEW p \in Requests, Push(p) \/ Stamp(p) \/ Lookup(p) \/ InsertRaw(p)
      PROVE  UNCHANGED <<samples, late>>
  BY <1>3 DEF Push, Stamp, Lookup, InsertRaw, tables
<1>4. ASSUME NEW r \in Runners, StartCatchUp(r) \/ TakePending(r)
      PROVE  UNCHANGED <<samples, late>>
  BY <1>4 DEF StartCatchUp, TakePending, tables
<1>5. ASSUME NEW p \in Procs, FindPrevious(p) \/ InsertDelta(p) \/ Mark(p) \/ Fault(p)
      PROVE  UNCHANGED <<samples, late>>
  BY <1>5 DEF FindPrevious, InsertDelta, Mark, Fault, tables
<1>6. ASSUME UNCHANGED vars PROVE UNCHANGED <<samples, late>>
  BY <1>6 DEF vars, tables
<1> QED
  BY <1>1, <1>2, <1>3, <1>4, <1>5, <1>6 DEF Next, Normalise

LEMMA SumInvStep ==
  ASSUME SumInv, [Next]_vars
  PROVE  SumInv'
<1>1. IInv'
  BY IInvStep DEF SumInv
<1>2. ASSUME NEW p \in Requests, Push(p) \/ Stamp(p) \/ Lookup(p) \/ InsertRaw(p) PROVE Parts'
  BY <1>2, PushSums, StampSums, LookupSums, InsertRawSums
<1>3. ASSUME NEW r \in Runners, StartCatchUp(r) \/ TakePending(r) PROVE Parts'
  <2>1. CASE StartCatchUp(r)
    <3>1. spent'.resets = spent.resets /\ spent'.faults = spent.faults
      BY <2>1 DEF StartCatchUp, SumInv, IInv, TypeOK
    <3> QED
      BY <2>1, <3>1, OthersKeep DEF StartCatchUp, raw
  <2> QED
    BY <1>3, <2>1, TakePendingSums
<1>4. ASSUME NEW p \in Procs, Normalise(p) \/ Fault(p) PROVE Parts'
  BY <1>4, InsertSampleSums, FindPreviousSums, InsertDeltaSums, MarkSums, FaultSums DEF Normalise
<1>5. ASSUME UNCHANGED vars PROVE Parts'
  BY <1>5, OthersKeep DEF vars, router, raw, tables
<1>6. Parts'
  BY <1>2, <1>3, <1>4, <1>5 DEF Next
<1> QED
  BY <1>1, <1>6, LateStep DEF Parts, SumInv

\* Every behaviour of the counters keeps the strengthened invariant.
LEMMA CountersInvariant == Spec => []IInv
<1>1. Init => IInv
  BY IInvInit
<1>2. IInv /\ [Next]_vars => IInv'
  BY IInvStep
<1> QED
  BY <1>1, <1>2, PTL DEF Spec

\* Every table and handler of the counters keeps its type: no delta is
\* negative, whatever the router's counter does.
THEOREM CountersTypeCorrect == Spec => []TypeOK
<1>1. IInv => TypeOK
  BY DEF IInv
<1> QED
  BY <1>1, CountersInvariant, PTL

\* No byte is counted twice but by a sample that came late: every delta spans two
\* samples with none between them but such as were stored after a later one.
THEOREM CountersDeltasAreAdjacent == Spec => []DeltasAreAdjacent
<1>1. IInv => DeltasAreAdjacent
  BY DEF IInv
<1> QED
  BY <1>1, CountersInvariant, PTL

\* No byte is made up and none is lost: with the samples stored and stamped in
\* the order the router read its counter, no statement failed and nothing in
\* hand, the deltas add up to what has moved from the first sample to the last,
\* or to no more than that if the router has rebooted.
THEOREM CountersAddUp == Spec => []DeltasAddUp
<1>1. Init => SumInv
  BY SumInvInit
<1>2. SumInv /\ [Next]_vars => SumInv'
  BY SumInvStep
<1>3. SumInv => DeltasAddUp
  BY SumInvAddsUp
<1> QED
  BY <1>1, <1>2, <1>3, PTL DEF Spec

\* However late samples come, nothing is missing: with no reboot, no statement
\* failed and nothing in hand, the deltas add up to no less than what has moved
\* from the first sample stored to the last observed.
THEOREM CountersLoseNothing == Spec => []NoByteIsLost
<1>1. Init => SumInv
  BY SumInvInit
<1>2. SumInv /\ [Next]_vars => SumInv'
  BY SumInvStep
<1>3. SumInv => NoByteIsLost
  BY SumInvLosesNothing
<1> QED
  BY <1>1, <1>2, <1>3, PTL DEF Spec
=============================================================================
