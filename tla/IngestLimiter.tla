--------------------------- MODULE IngestLimiter ---------------------------
(***************************************************************************)
(* The ingest limiter the UDP collectors share: `run(task)` of the RADIUS  *)
(* server and of the NetFlow collector lets at most Max tasks touch the    *)
(* database at once and keeps the others in a FIFO of resolvers.           *)
(*                                                                         *)
(* The code is atomic only between two turns of the event loop.  A slot is *)
(* freed in one microtask and taken by the task it wakes in a later one,   *)
(* so the queue of microtasks is part of the state: a datagram callback    *)
(* runs only when that queue is empty.                                     *)
(***************************************************************************)
EXTENDS Naturals, Sequences, FiniteSets

CONSTANTS
  Tasks,  \* one per datagram
  Max     \* MAX_CONCURRENT

ASSUME MaxOK == Max \in Nat \ {0}

VARIABLES
  st,       \* where each task is inside `run`
  active,   \* the counter `active`
  queue,    \* the resolvers waiting in `queue`
  micro     \* microtasks due, each the continuation of one task's `run`

vars == <<st, active, queue, micro>>

Init ==
  /\ st = [t \in Tasks |-> "new"]
  /\ active = 0
  /\ queue = <<>>
  /\ micro = <<>>

\* Faulty variant: the limit is passed by one.
FullLate == active > Max

Full == active >= Max

Start(t) ==
  /\ active' = active + 1
  /\ st' = [st EXCEPT ![t] = "running"]

\* Faulty variant: the newest waiter goes first.
EnqueueFirst(t) == <<t>> \o queue

Enqueue(t) == Append(queue, t)

\* A datagram calls `run`: the task starts at once or waits for a slot.
Arrive(t) ==
  /\ st[t] = "new"
  /\ micro = <<>>
  /\ IF Full
       THEN /\ queue' = Enqueue(t)
            /\ st' = [st EXCEPT ![t] = "queued"]
            /\ UNCHANGED active
       ELSE /\ Start(t)
            /\ UNCHANGED queue
  /\ UNCHANGED micro

\* The promise of the task's body settles, fulfilled or rejected: `run` is to
\* go on with its `finally`.
Settle(t) == \E outcome \in {"returned", "threw"} :
  /\ st[t] = "running"
  /\ st' = [st EXCEPT ![t] = outcome]
  /\ micro' = Append(micro, t)
  /\ UNCHANGED <<active, queue>>

\* Faulty variant: no `finally`, so a task that throws keeps its slot.
FreesOnReturn(outcome) == outcome = "returned"

Frees(outcome) == outcome \in {"returned", "threw"}

\* Faulty variant: the slot is freed again in a `catch`.
FreedTwice == active - 2

Freed == active - 1

\* The `finally` of a task: it frees its slot and resolves the promise of the
\* first waiter, whose continuation becomes a microtask.
Finally(t) ==
  /\ micro # <<>> /\ t = Head(micro)
  /\ st[t] \in {"returned", "threw"}
  /\ IF ~Frees(st[t])
       THEN /\ st' = [st EXCEPT ![t] = "done"]
            /\ micro' = Tail(micro)
            /\ UNCHANGED <<active, queue>>
       ELSE /\ active' = Freed
            /\ IF queue = <<>>
                 THEN /\ st' = [st EXCEPT ![t] = "done"]
                      /\ micro' = Tail(micro)
                      /\ UNCHANGED queue
                 ELSE /\ st' = [st EXCEPT ![t] = "done", ![Head(queue)] = "woken"]
                      /\ micro' = Append(Tail(micro), Head(queue))
                      /\ queue' = Tail(queue)

\* The continuation of a waiter: it takes the slot without looking again.
Resume(t) ==
  /\ micro # <<>> /\ t = Head(micro)
  /\ st[t] = "woken"
  /\ Start(t)
  /\ micro' = Tail(micro)
  /\ UNCHANGED queue

Next == \E t \in Tasks : Arrive(t) \/ Settle(t) \/ Finally(t) \/ Resume(t)

Spec == Init /\ [][Next]_vars

\* Microtasks always run; a body settles because every statement it awaits
\* does.  Datagrams need not come.
FairSpec ==
  /\ Spec
  /\ \A t \in Tasks : WF_vars(Settle(t)) /\ WF_vars(Finally(t) \/ Resume(t))

-----------------------------------------------------------------------------

In(phases) == {t \in Tasks : st[t] \in phases}

Phases == {"new", "queued", "woken", "running", "returned", "threw", "done"}

TypeOK ==
  /\ st \in [Tasks -> Phases]
  /\ active \in Nat
  /\ queue \in Seq(Tasks)
  /\ micro \in Seq(Tasks)

\* Tasks holding a slot, and tasks about to take one.
Holding == In({"running", "returned", "threw"})
Woken == In({"woken"})

\* The tasks with a slot, or on their way to one, never outnumber the slots,
\* although a woken task takes its slot without testing the counter again.
Bounded == Cardinality(Holding) + Cardinality(Woken) <= Max

\* No slot idles while a task waits, once the microtasks have run.
NoIdleSlot == micro = <<>> /\ queue # <<>> => Cardinality(Holding) = Max

\* What makes it so.  The waiters are queued, each once, and a woken task has
\* its continuation due; the counter counts the tasks that hold a slot; and
\* while one task waits, every slot is held or promised.
WaitersQueued ==
  /\ \A i \in 1..Len(queue) : st[queue[i]] = "queued"
  /\ \A i, j \in 1..Len(queue) : queue[i] = queue[j] => i = j
WokenAreDue == \A t \in Tasks : st[t] = "woken" => \E i \in 1..Len(micro) : micro[i] = t
Counted ==
  /\ IsFiniteSet(Holding) /\ IsFiniteSet(Woken)
  /\ active = Cardinality(Holding)
  /\ queue # <<>> => Cardinality(Holding) + Cardinality(Woken) = Max
SlotsInv == WaitersQueued /\ WokenAreDue /\ Counted /\ Bounded

\* A datagram that had to wait is handled in the end, whatever the tasks
\* before it threw.
WaitersRun == \A t \in Tasks : st[t] = "queued" ~> st[t] = "done"

=============================================================================
