------------------------- MODULE InterfaceCounters -------------------------
(***************************************************************************)
(* From the byte counter of a router's interface to the deltas that every  *)
(* traffic report sums.                                                    *)
(* The router pushes the counter it reads; the server stamps the push,     *)
(* stores a raw event and normalises it at once: a sample, the sample just *)
(* before it, the delta between the two.  The catch-up endpoint normalises *)
(* the raw events a failure has left pending.                              *)
(*                                                                         *)
(* One interface, known to the inventory, and one of its two directions.   *)
(* Every awaited statement commits alone and is one action.                *)
(***************************************************************************)
EXTENDS Integers, Sequences, FiniteSets, FiniteSetsExt

CONSTANTS
  Requests,     \* pushes handled at once
  Runners,      \* requests to the catch-up endpoint that run at once
  Increments,   \* bytes the interface may move between two pushes
  MaxPushes,    \* bound: pushes
  MaxResets,    \* bound: reboots of the router, which zero its counter
  MaxCatchUps,  \* bound: requests to the catch-up endpoint
  MaxFaults     \* bound: failed statements

ASSUME CountersOK ==
  /\ Requests \intersect Runners = {}
  /\ Increments \subseteq Nat
  /\ MaxPushes \in Nat /\ MaxResets \in Nat /\ MaxCatchUps \in Nat
  /\ MaxFaults \in Nat

Procs == Requests \union Runners

VARIABLES
  counter,  \* what the interface counts at the router
  moved,    \* the bytes it has moved, reboots or not (history)
  clock,    \* the millisecond the server is in
  stored,   \* observed_at of the raw events, in the order of received_at
  done,     \* those with processed_at
  value,    \* the counter each raw event carries
  truth,    \* `moved` when the router read it (history)
  samples,  \* interface_counter_samples, by observed_at
  deltas,   \* interface_counter_deltas: between which samples, how many bytes
  proc,     \* per process: the statement it awaits, the event in its hand
  todo,     \* events still to visit by each catch-up request
  late,     \* the samples that came to stand before one already there (history)
  spent     \* how much of each bound is used

router == <<counter, moved>>
raw == <<stored, done, value, truth>>
tables == <<samples, deltas>>
vars == <<counter, moved, clock, stored, done, value, truth, samples, deltas, proc, todo,
          late, spent>>

Times == 1..MaxPushes

Idle == [pc |-> "idle", at |-> 0, value |-> 0, truth |-> 0, previous |-> 0]

Range1(s) == {s[i] : i \in DOMAIN s}

Init ==
  /\ counter = 0
  /\ moved = 0
  /\ clock = 0
  /\ stored = <<>>
  /\ done = {}
  /\ value = [t \in Times |-> 0]
  /\ truth = [t \in Times |-> 0]
  /\ samples = {}
  /\ deltas = {}
  /\ proc = [p \in Procs |-> Idle]
  /\ todo = [r \in Runners |-> {}]
  /\ late = {}
  /\ spent = [pushes |-> 0, resets |-> 0, catchUps |-> 0, faults |-> 0]

-----------------------------------------------------------------------------
(* The push of a router.                                                   *)

\* The router reads its counter and posts it, perhaps after a reboot.
Push(p) == \E d \in Increments, reset \in BOOLEAN :
  /\ proc[p].pc = "idle"
  /\ spent.pushes < MaxPushes
  /\ reset => spent.resets < MaxResets
  /\ spent' = [spent EXCEPT !.pushes = @ + 1, !.resets = IF reset THEN @ + 1 ELSE @]
  /\ counter' = IF reset THEN d ELSE counter + d
  /\ moved' = moved + d
  /\ proc' = [proc EXCEPT ![p] = [Idle EXCEPT !.pc = "stamp", !.value = counter',
                                              !.truth = moved']]
  /\ UNCHANGED <<clock, raw, tables, todo, late>>

Goto(p, pc) == proc' = [proc EXCEPT ![p].pc = pc]

Release(p) == proc' = [proc EXCEPT ![p] = Idle]

\* The device and its interfaces have been looked up; observed_at is now, which
\* may be the millisecond of another push.  (Each push moves the clock by one
\* at most, so Times cuts nothing off.)
Stamp(p) == \E t \in Times \intersect {clock, clock + 1} :
  /\ proc[p].pc = "stamp"
  /\ clock' = t
  /\ proc' = [proc EXCEPT ![p].pc = "lookup", ![p].at = t]
  /\ UNCHANGED <<router, raw, tables, todo, late, spent>>

\* The idempotency key holds the interface and observed_at: the second push
\* of a millisecond is refused, as a duplicate or as a reused key.
Lookup(p) ==
  /\ proc[p].pc = "lookup"
  /\ IF proc[p].at \in Range1(stored) THEN Release(p) ELSE Goto(p, "insertRaw")
  /\ UNCHANGED <<router, clock, raw, tables, todo, late, spent>>

InsertRaw(p) ==
  LET t == proc[p].at
  IN /\ proc[p].pc = "insertRaw"
     /\ IF t \in Range1(stored)
          THEN /\ Release(p)
               /\ UNCHANGED raw
          ELSE /\ stored' = Append(stored, t)
               /\ value' = [value EXCEPT ![t] = proc[p].value]
               /\ truth' = [truth EXCEPT ![t] = proc[p].truth]
               /\ proc' = [proc EXCEPT ![p] = [Idle EXCEPT !.pc = "insertSample", !.at = t]]
               /\ UNCHANGED done
     /\ UNCHANGED <<router, clock, tables, todo, late, spent>>

-----------------------------------------------------------------------------
(* The catch-up endpoint reads the pending events once and visits them in  *)
(* order of receipt, re-reading each.                                      *)

Pending == Range1(stored) \ done

StartCatchUp(r) ==
  /\ proc[r].pc = "idle" /\ todo[r] = {}
  /\ Pending # {}
  /\ spent.catchUps < MaxCatchUps
  /\ spent' = [spent EXCEPT !.catchUps = @ + 1]
  /\ todo' = [todo EXCEPT ![r] = Pending]
  /\ UNCHANGED <<router, clock, raw, tables, proc, late>>

TakePending(r) == \E i \in DOMAIN stored :
  /\ proc[r].pc = "idle"
  /\ stored[i] \in todo[r]
  /\ \A j \in 1..(i - 1) : stored[j] \notin todo[r]
  /\ todo' = [todo EXCEPT ![r] = @ \ {stored[i]}]
  /\ IF stored[i] \in done
       THEN UNCHANGED proc
       ELSE proc' = [proc EXCEPT ![r] = [Idle EXCEPT !.pc = "insertSample", !.at = stored[i]]]
  /\ UNCHANGED <<router, clock, raw, tables, late, spent>>

-----------------------------------------------------------------------------
(* normalizeInterfaceCounterEvent.                                         *)

\* INSERT ... ON CONFLICT DO NOTHING: a sample that is there already ends it.
InsertSample(p) ==
  LET t == proc[p].at
  IN /\ proc[p].pc = "insertSample"
     /\ samples' = samples \union {t}
     /\ late' = late \union {x \in {t} \ samples : \E u \in samples : x < u}
     /\ Goto(p, IF t \in samples THEN "mark" ELSE "findPrevious")
     /\ UNCHANGED <<router, clock, raw, deltas, todo, spent>>

\* Faulty variants: ordered by observed_at ascending; the last millisecond is left out.
OldestBefore(t) == {u \in samples : u < t /\ \A v \in samples : v < t => u <= v}

LatestApart(t) == {u \in samples : u + 1 < t /\ \A v \in samples : v + 1 < t => v <= u}

\* The sample just before.
LatestBefore(t) == {u \in samples : u < t /\ \A v \in samples : v < t => v <= u}

FindPrevious(p) ==
  /\ proc[p].pc = "findPrevious"
  /\ IF LatestBefore(proc[p].at) = {}
       THEN Goto(p, "mark")
       ELSE \E u \in LatestBefore(proc[p].at) :
              proc' = [proc EXCEPT ![p].pc = "insertDelta", ![p].previous = u]
  /\ UNCHANGED <<router, clock, raw, tables, todo, late, spent>>

\* Faulty variants: the reset is not seen; a reset is seen every time.
GrowthSigned(current, previous) == current - previous
GrowthWhole(current, previous) == current

\* computeCounterDelta: a counter that has fallen has started again from zero.
Growth(current, previous) == IF current < previous THEN current ELSE current - previous

InsertDelta(p) ==
  LET t == proc[p].at
      u == proc[p].previous
      delta == [at |-> t, from |-> u, bytes |-> Growth(value[t], value[u]),
                reset |-> value[t] < value[u]]
  IN /\ proc[p].pc = "insertDelta"
     /\ deltas' = IF \E d \in deltas : d.at = t THEN deltas ELSE deltas \union {delta}
     /\ Goto(p, "mark")
     /\ UNCHANGED <<router, clock, raw, samples, todo, late, spent>>

\* processed_at is set; the answer to the router follows.
Mark(p) ==
  /\ proc[p].pc = "mark"
  /\ done' = done \union {proc[p].at}
  /\ Release(p)
  /\ UNCHANGED <<router, clock, stored, value, truth, tables, todo, late, spent>>

\* A statement throws.  The push is lost, or its raw event stays pending.
Fault(p) ==
  /\ proc[p].pc # "idle"
  /\ spent.faults < MaxFaults
  /\ spent' = [spent EXCEPT !.faults = @ + 1]
  /\ Release(p)
  /\ UNCHANGED <<router, clock, raw, tables, todo, late>>

-----------------------------------------------------------------------------

Normalise(p) ==
  InsertSample(p) \/ FindPrevious(p) \/ InsertDelta(p) \/ Mark(p)

Next ==
  \/ \E p \in Requests : Push(p) \/ Stamp(p) \/ Lookup(p) \/ InsertRaw(p)
  \/ \E r \in Runners : StartCatchUp(r) \/ TakePending(r)
  \/ \E p \in Procs : Normalise(p) \/ Fault(p)

Spec == Init /\ [][Next]_vars

-----------------------------------------------------------------------------
(* Properties.                                                             *)

Normalising == {"insertSample", "findPrevious", "insertDelta", "mark"}
PCs == {"idle", "stamp", "lookup", "insertRaw"} \union Normalising

Deltas == [at : Times, from : Times, bytes : Nat, reset : BOOLEAN]

TypeOK ==
  /\ counter \in Nat /\ moved \in Nat /\ clock \in 0..MaxPushes
  /\ stored \in Seq(Times)
  /\ done \subseteq Range1(stored)
  /\ value \in [Times -> Nat] /\ truth \in [Times -> Nat]
  /\ samples \subseteq Range1(stored)
  /\ deltas \subseteq Deltas
  /\ proc \in [Procs -> [pc : PCs, at : 0..MaxPushes, value : Nat, truth : Nat,
                         previous : 0..MaxPushes]]
  /\ todo \in [Runners -> SUBSET Times]
  /\ late \subseteq Times
  /\ spent \in [pushes : Nat, resets : Nat, catchUps : Nat, faults : Nat]

\* Nothing is stamped in the future, and what is normalised is stored.
StampedAndStored ==
  /\ Range1(stored) \subseteq 1..clock
  /\ \A p \in Procs :
       /\ proc[p].pc \notin {"idle", "stamp"} => proc[p].at \in 1..clock
       /\ proc[p].pc \in Normalising => proc[p].at \in Range1(stored)
  /\ \A r \in Runners : todo[r] \subseteq Range1(stored)

\* A delta, and the handler about to store one, is about a sample.
AboutSamples ==
  /\ \A d \in deltas : d.at \in samples
  /\ \A p \in Procs :
       /\ proc[p].pc \in {"findPrevious", "insertDelta"} => proc[p].at \in samples
       /\ proc[p].pc = "insertDelta" => proc[p].previous \in samples

\* u is the sample before t, but for samples that came later than those after them.
Adjacent(u, t) ==
  /\ u \in samples /\ t \in samples /\ u < t
  /\ \A v \in samples : u < v /\ v < t => v \in late

\* No byte is counted twice but by a sample that came late: every delta spans two
\* adjacent samples, so two deltas overlap only where a sample was stored after
\* one observed later, however many pushes are normalised at once and
\* whatever fails or is replayed in between.
DeltasAreAdjacent == \A d \in deltas : Adjacent(d.from, d.at)

\* What makes it so: a handler that has found the sample before its own keeps
\* it before its own until the delta is stored.
FoundIsAdjacent ==
  \A p \in Procs : proc[p].pc = "insertDelta" => Adjacent(proc[p].previous, proc[p].at)

InHand == {p \in Procs : proc[p].pc # "idle"}
Latest(S) == CHOOSE t \in S : \A u \in S : u <= t
Earliest(S) == CHOOSE t \in S : \A u \in S : t <= u

Bytes(S) == MapThenSumSet(LAMBDA d : d.bytes, S)

\* Overlapping pushes may be stamped in another order than the router read its
\* counter in: the reading that comes late then looks like a reboot.  (Where
\* nothing has moved in between, only a reboot tells two readings apart.)
StampedInOrder ==
  \A t, u \in samples : t < u =>
    \/ truth[t] < truth[u]
    \/ truth[t] = truth[u] /\ value[u] <= value[t]

\* No byte is made up, and none is lost: once the pushes are answered and
\* nothing has failed, the deltas add up to what the interface has moved from
\* the first sample to the last.  Over a reboot they may fall short of it: a
\* counter that has outgrown its old value again hides the reset.
DeltasAddUp ==
  late = {} /\ StampedInOrder /\ spent.faults = 0 /\ InHand = {} /\ samples # {} =>
    LET due == truth[Latest(samples)] - truth[Earliest(samples)]
    IN /\ Bytes(deltas) <= due
       /\ spent.resets = 0 => Bytes(deltas) = due

\* However late samples come, none of the bytes moved since the first sample stored
\* is missing from the deltas: a late sample can only add to them.  (That one is
\* the earliest that is not late.)
NoByteIsLost ==
  StampedInOrder /\ spent.faults = 0 /\ spent.resets = 0 /\ InHand = {} /\ samples # {} =>
    Bytes(deltas) >= truth[Latest(samples)] - truth[Earliest(samples \ late)]

\* What every step preserves.
IInv ==
  /\ TypeOK /\ StampedAndStored /\ AboutSamples
  /\ DeltasAreAdjacent /\ FoundIsAdjacent

\* What makes the deltas add up.  The readings of the router that are kept
\* somewhere are in the order it made them: the later of two has grown by what
\* has moved in between, or has started again since and is no more than that.
Early == {"stamp", "lookup", "insertRaw"}
Measuring == {"findPrevious", "insertDelta"}

ReadingOf(row) == <<row.value, row.truth>>
Now == <<counter, moved>>
Readings ==
  {Now} \union {<<value[t], truth[t]>> : t \in Range1(stored)}
        \union {ReadingOf(proc[p]) : p \in {q \in Procs : proc[q].pc \in Early}}

ReadBefore(r, s) == r[2] <= s[2] /\ (s[1] <= s[2] - r[2] \/ s[1] - r[1] = s[2] - r[2])

ReadInOrder ==
  /\ \A r, s \in Readings : ReadBefore(r, s) \/ ReadBefore(s, r)
  /\ \A r \in Readings : ReadBefore(r, Now)
  /\ spent.resets = 0 => \A r \in Readings : r[1] = r[2]

\* A sample has at most one delta, which measures from another one; and unless
\* a statement has failed each after the first one stored, late or not, has its
\* delta or a handler that is about to store it.
DeltasMeasure ==
  /\ IsFiniteSet(deltas)
  /\ \A d, e \in deltas : d.at = e.at => d = e
  /\ \A d \in deltas : d.from \in samples /\ d.bytes = Growth(value[d.at], value[d.from])

SamplesLeaveDeltas ==
  spent.faults = 0 => \A t \in samples :
    \/ \A u \in samples \ late : t <= u
    \/ \E d \in deltas : d.at = t
    \/ \E p \in Procs : proc[p].pc \in Measuring /\ proc[p].at = t

\* A late sample has one after it, so the last one never is.
LateHaveALater ==
  /\ late \subseteq samples
  /\ \A t \in late : \E u \in samples : t < u

SumInv ==
  IInv /\ ReadInOrder /\ DeltasMeasure /\ SamplesLeaveDeltas /\ LateHaveALater

\* What a failure leaves pending is made good by the catch-up ("leave it
\* pending so processPending() retries on the next catch-up run instead of
\* silently dropping the event"): a processed event with a sample before it
\* has its delta.
ProcessedLeavesDelta ==
  late = {} => \A t \in done \intersect samples :
    t = Earliest(samples) \/ \E d \in deltas : d.at = t

=============================================================================
