-------------------------- MODULE RadiusAccounting --------------------------
(***************************************************************************)
(* The RADIUS accounting pipeline of the backend.  A NAS emits START,      *)
(* INTERIM_UPDATE and STOP packets for its sessions over UDP.  The UDP     *)
(* handler stores each packet as a row of raw_telemetry_events and         *)
(* normalises it at once: a row of radius_accounting_events, the session   *)
(* row, the identity binding of the client's address, the quota of the     *)
(* subscriber, and last the processed_at mark.  The catch-up endpoint      *)
(* replays the rows that are still unmarked.                               *)
(*                                                                         *)
(* No database transaction spans a handler: every awaited statement        *)
(* commits alone, so every statement is one action, and handlers           *)
(* interleave and fail between any two of them.                            *)
(***************************************************************************)
EXTENDS Naturals, BindingTable

CONSTANTS
  Sessions,     \* values of Acct-Session-Id
  Anonymous,    \* those whose packets carry no User-Name
  IpOf,         \* the Framed-IP-Address of each session, or NoIp
  Workers,      \* UDP handlers the ingest limiter lets run at once
  Runners,      \* requests to the catch-up endpoint that run at once
  MaxInterims,  \* bound: INTERIM_UPDATE packets of one session
  Increments,   \* by how many bytes a session grows between two packets
  InOrder,      \* TRUE: the packets of one session are handled in order,
                \*       each when no event of that session is in hand
  MayLose,      \* TRUE: an ordered packet may be skipped for ever
  MaxClock,     \* bound: packets that get a receipt time
  MaxCatchUps,  \* bound: requests to the catch-up endpoint
  MaxFaults     \* bound: failed statements and restarts

ASSUME ConstantsOK ==
  /\ Anonymous \subseteq Sessions
  /\ IpOf \in [Sessions -> Ips \union {NoIp}]
  /\ Workers \intersect Runners = {}
  /\ MaxInterims \in Nat
  /\ Increments \subseteq Nat
  /\ InOrder \in BOOLEAN
  /\ MayLose \in BOOLEAN
  /\ MaxClock \in Nat
  /\ MaxCatchUps \in Nat
  /\ MaxFaults \in Nat

Procs == Workers \union Runners

\* What makes a packet an event of its own: `radius:${session}:${status}`,
\* with Acct-Session-Time appended for an INTERIM_UPDATE only.  The time
\* counts the updates of the session.
Keys ==
  {k \in [sid : Sessions, kind : {"START", "INTERIM", "STOP"}, time : 0..MaxInterims] :
     k.kind = "INTERIM" <=> k.time > 0}

START(s) == [sid |-> s, kind |-> "START", time |-> 0]
INTERIM(s, n) == [sid |-> s, kind |-> "INTERIM", time |-> n]
STOP(s) == [sid |-> s, kind |-> "STOP", time |-> 0]

NoKey == [sid |-> "none", kind |-> "none", time |-> 0]
NoRow == [status |-> "NONE", bytes |-> 0]
Ended == {"CLOSED", "ORPHANED"}
SessionRows == [status : {"NONE", "ACTIVE"} \union Ended, bytes : Nat]

VARIABLES
  nas,       \* per session at the NAS: phase, updates sent, cumulative bytes
  wire,      \* keys of the packets sent, deliverable any number of times
  total,     \* upload + download bytes carried by the packet of each key
  clock,     \* receipt times handed out
  raw,       \* raw_telemetry_events: "none", "pending" or "done" per key
  rows,      \* raw rows stored so far, the order of received_at
  rawNo,     \* that of each row
  at,        \* observed_at of the row
  acctRows,  \* radius_accounting_events: rows written per key
  sess,      \* radius_sessions: status and stored bytes per session
  bindings,  \* identity_bindings of source RADIUS
  accrued,   \* what each session has added to subscribers.quota_used_bytes
  charges,   \* per key, how many times it has added to the quota (history)
  pc,        \* the statement each process awaits
  evt,       \* key of the event in its hand
  obs,       \* observed_at of that event
  seen,      \* `existing`: the session row it has read
  todo,      \* keys still to visit by each catch-up request
  catchUps,  \* catch-up requests so far
  faults     \* failures so far

nasVars == <<nas, wire, total>>
rawVars == <<raw, rows, rawNo, at>>
procVars == <<pc, evt, obs, seen>>
vars == <<nas, wire, total, clock, raw, rows, rawNo, at, acctRows, sess, bindings,
          accrued, charges, pc, evt, obs, seen, todo, catchUps, faults>>

PCs == {"idle", "lookup", "insertRaw", "insertAcct", "findSession",
        "insertSession", "updateSession", "closeOpen", "openBinding",
        "closeOwn", "accrue", "mark"}

Init ==
  /\ nas = [s \in Sessions |-> [phase |-> "off", updates |-> 0, bytes |-> 0]]
  /\ wire = {}
  /\ total = [k \in Keys |-> 0]
  /\ clock = 0
  /\ raw = [k \in Keys |-> "none"]
  /\ rows = 0
  /\ rawNo = [k \in Keys |-> 0]
  /\ at = [k \in Keys |-> 0]
  /\ acctRows = [k \in Keys |-> 0]
  /\ sess = [s \in Sessions |-> NoRow]
  /\ bindings = {}
  /\ accrued = [s \in Sessions |-> 0]
  /\ charges = [k \in Keys |-> 0]
  /\ pc = [p \in Procs |-> "idle"]
  /\ evt = [p \in Procs |-> NoKey]
  /\ obs = [p \in Procs |-> 0]
  /\ seen = [p \in Procs |-> NoRow]
  /\ todo = [r \in Runners |-> {}]
  /\ catchUps = 0
  /\ faults = 0

-----------------------------------------------------------------------------
(* The NAS, outside the repository: a session starts, reports its growing  *)
(* cumulative counters, and stops.                                         *)

Send(k, bytes) ==
  /\ wire' = wire \union {k}
  /\ total' = [total EXCEPT ![k] = bytes]
  /\ UNCHANGED <<clock, rawVars, acctRows, sess, bindings, accrued, charges,
                 procVars, todo, catchUps, faults>>

NasStart(s) ==
  /\ nas[s].phase = "off"
  /\ nas' = [nas EXCEPT ![s].phase = "up"]
  /\ Send(START(s), 0)

NasInterim(s) == \E d \in Increments :
  /\ nas[s].phase = "up"
  /\ nas[s].updates < MaxInterims
  /\ nas' = [nas EXCEPT ![s].updates = @ + 1, ![s].bytes = @ + d]
  /\ Send(INTERIM(s, nas[s].updates + 1), nas[s].bytes + d)

NasStop(s) == \E d \in Increments :
  /\ nas[s].phase = "up"
  /\ nas' = [nas EXCEPT ![s].phase = "down", ![s].bytes = @ + d]
  /\ Send(STOP(s), nas[s].bytes + d)

-----------------------------------------------------------------------------
(* The UDP handler, up to the stored raw row.                              *)

\* Position of a packet among those of its session.
Rank(k) == CASE k.kind = "START" -> 0
             [] k.kind = "INTERIM" -> k.time
             [] k.kind = "STOP" -> MaxInterims + 1

InHand(s) == \E p \in Procs : pc[p] # "idle" /\ evt[p].sid = s

\* The environment assumption InOrder: the handler meets the packets of a
\* session one by one and in order, skipping some only when MayLose.
Deliverable(k) ==
  InOrder => /\ ~InHand(k.sid)
             /\ \A j \in wire : j.sid = k.sid /\ Rank(j) > Rank(k) => raw[j] = "none"
             /\ \A j \in wire : j.sid = k.sid /\ Rank(j) < Rank(k) =>
                                  MayLose \/ raw[j] # "none"

\* A datagram is accepted: the NAS gets its Accounting-Response here, before
\* anything is stored, and `observedAt` is the receipt time.
Receive(w, k) ==
  /\ pc[w] = "idle"
  /\ k \in wire
  /\ Deliverable(k)
  /\ clock < MaxClock
  /\ clock' = IF raw[k] = "none" THEN clock + 1 ELSE clock
  /\ pc' = [pc EXCEPT ![w] = "lookup"]
  /\ evt' = [evt EXCEPT ![w] = k]
  /\ obs' = [obs EXCEPT ![w] = clock + 1]
  /\ UNCHANGED <<nasVars, rawVars, acctRows, sess, bindings, accrued, charges,
                 seen, todo, catchUps, faults>>

\* The event in hand of p is left: normalised, refused or given up.
Release(p) ==
  /\ pc' = [pc EXCEPT ![p] = "idle"]
  /\ evt' = [evt EXCEPT ![p] = NoKey]
  /\ obs' = [obs EXCEPT ![p] = 0]
  /\ seen' = [seen EXCEPT ![p] = NoRow]

Goto(p, l) ==
  /\ pc' = [pc EXCEPT ![p] = l]
  /\ UNCHANGED <<evt, obs, seen>>

\* The idempotency look-up.  A copy found stored is refused, as a DUPLICATE
\* or as a reused key (its hash covers observed_at): nothing changes.
Lookup(w) ==
  /\ pc[w] = "lookup"
  /\ IF raw[evt[w]] = "none" THEN Goto(w, "insertRaw") ELSE Release(w)
  /\ UNCHANGED <<nasVars, clock, rawVars, acctRows, sess, bindings, accrued,
                 charges, todo, catchUps, faults>>

\* INSERT ... ON CONFLICT DO NOTHING on (source, idempotency_key): the copy
\* that comes second is dropped.
InsertRaw(w) ==
  /\ pc[w] = "insertRaw"
  /\ IF raw[evt[w]] = "none"
       THEN /\ raw' = [raw EXCEPT ![evt[w]] = "pending"]
            /\ rows' = rows + 1
            /\ rawNo' = [rawNo EXCEPT ![evt[w]] = rows + 1]
            /\ at' = [at EXCEPT ![evt[w]] = obs[w]]
            /\ Goto(w, "insertAcct")
       ELSE /\ Release(w)
            /\ UNCHANGED rawVars
  /\ UNCHANGED <<nasVars, clock, acctRows, sess, bindings, accrued, charges,
                 todo, catchUps, faults>>

-----------------------------------------------------------------------------
(* The catch-up endpoint: it reads the pending rows once and visits them   *)
(* in order of receipt, re-reading each row but claiming none.             *)

StartCatchUp(r) ==
  /\ pc[r] = "idle"
  /\ todo[r] = {}
  /\ {k \in Keys : raw[k] = "pending"} # {}
  /\ catchUps < MaxCatchUps
  /\ catchUps' = catchUps + 1
  /\ todo' = [todo EXCEPT ![r] = {k \in Keys : raw[k] = "pending"}]
  /\ UNCHANGED <<nasVars, clock, rawVars, acctRows, sess, bindings, accrued,
                 charges, procVars, faults>>

TakePending(r) == \E k \in todo[r] :
  /\ pc[r] = "idle"
  /\ \A j \in todo[r] : rawNo[k] <= rawNo[j]
  /\ InOrder => ~InHand(k.sid)
  /\ todo' = [todo EXCEPT ![r] = @ \ {k}]
  /\ IF raw[k] = "pending"
       THEN /\ pc' = [pc EXCEPT ![r] = "insertAcct"]
            /\ evt' = [evt EXCEPT ![r] = k]
            /\ obs' = [obs EXCEPT ![r] = at[k]]
            /\ UNCHANGED seen
       ELSE UNCHANGED procVars
  /\ UNCHANGED <<nasVars, clock, rawVars, acctRows, sess, bindings, accrued,
                 charges, catchUps, faults>>

-----------------------------------------------------------------------------
(* normalizeRadiusAccountingEvent, one statement at a time, run by a UDP   *)
(* handler on the row it has just stored or by a catch-up request.         *)

AfterAcct(k) == IF k.sid \in Anonymous THEN "mark" ELSE "findSession"

\* The audit row; a packet without User-Name stops at it.
InsertAcct(p) ==
  /\ pc[p] = "insertAcct"
  /\ acctRows' = [acctRows EXCEPT ![evt[p]] = @ + 1]
  /\ Goto(p, AfterAcct(evt[p]))
  /\ UNCHANGED <<nasVars, clock, rawVars, sess, bindings, accrued, charges,
                 todo, catchUps, faults>>

HasIp(s) == IpOf[s] # NoIp

\* Faulty variants: a STOP leaves its binding open; a STOP charges nothing.
AfterSessionKeepsIp(k) ==
  CASE k.kind = "STOP" -> "accrue"
    [] k.kind # "STOP" -> IF HasIp(k.sid) THEN "closeOpen" ELSE "mark"
AfterSessionUncharged(k) == IF HasIp(k.sid) /\ k.kind = "START" THEN "closeOpen" ELSE "mark"

\* Where a handler goes once a START or STOP, or a first INTERIM_UPDATE, has
\* dealt with the session row.
AfterSession(k) ==
  CASE k.kind = "STOP" -> IF HasIp(k.sid) THEN "closeOwn" ELSE "accrue"
    [] k.kind # "STOP" -> IF HasIp(k.sid) THEN "closeOpen" ELSE "mark"

\* Faulty variant: a STOP without a session is only noted.
AfterFindNoOrphan(k, row) ==
  CASE row.status = "NONE" -> IF k.kind = "STOP" THEN "mark" ELSE "insertSession"
    [] row.status # "NONE" -> IF k.kind = "START" THEN AfterSession(k) ELSE "updateSession"

\* What the row found decides.  An INTERIM_UPDATE of a session that is no
\* longer ACTIVE is ignored; a START of a known session still opens a binding.
AfterFind(k, row) ==
  CASE row.status = "NONE" -> "insertSession"
    [] row.status # "NONE" /\ k.kind = "START" -> AfterSession(k)
    [] row.status # "NONE" /\ k.kind = "STOP" -> "updateSession"
    [] row.status # "NONE" /\ k.kind = "INTERIM" ->
         IF row.status = "ACTIVE" THEN "updateSession" ELSE "mark"

\* `existing` is read once; the later statements of the handler use this copy.
FindSession(p) ==
  LET k == evt[p]
  IN /\ pc[p] = "findSession"
     /\ seen' = [seen EXCEPT ![p] = sess[k.sid]]
     /\ pc' = [pc EXCEPT ![p] = AfterFind(k, sess[k.sid])]
     /\ UNCHANGED <<evt, obs>>
     /\ UNCHANGED <<nasVars, clock, rawVars, acctRows, sess, bindings, accrued,
                    charges, todo, catchUps, faults>>

\* A statement throws: the event keeps its pending row (or, before it had
\* one, is lost).  A catch-up request goes on with its next row.
Abort(p) == Release(p)

\* The row of a session met for the first time.  (ship, session) is unique:
\* of two handlers that both found no row, the second one throws.
InsertSession(p) ==
  LET k == evt[p]
  IN /\ pc[p] = "insertSession"
     /\ IF sess[k.sid].status = "NONE"
          THEN /\ sess' = [sess EXCEPT ![k.sid] =
                             [status |-> IF k.kind = "STOP" THEN "ORPHANED" ELSE "ACTIVE",
                              bytes |-> IF k.kind = "START" THEN 0 ELSE total[k]]]
               /\ Goto(p, AfterSession(k))
          ELSE /\ Abort(p)
               /\ UNCHANGED sess
     /\ UNCHANGED <<nasVars, clock, rawVars, acctRows, bindings, accrued,
                    charges, todo, catchUps, faults>>

\* Faulty variant: an INTERIM_UPDATE also writes the status it has read.
StatusAfterInterim(k, status) == IF k.kind = "STOP" THEN "CLOSED" ELSE "ACTIVE"

StatusAfter(k, status) == IF k.kind = "STOP" THEN "CLOSED" ELSE status

\* Faulty variant: the quota is charged at the STOP only.
AfterUpdateStopOnly(k) == IF k.kind = "STOP" THEN AfterSession(k) ELSE "mark"

AfterUpdate(k) == IF k.kind = "STOP" THEN AfterSession(k) ELSE "accrue"

\* UPDATE by primary key: it overwrites the stored total with the packet's,
\* whatever the row has become since it was read.
UpdateSession(p) ==
  LET k == evt[p]
  IN /\ pc[p] = "updateSession"
     /\ sess' = [sess EXCEPT ![k.sid].bytes = total[k],
                             ![k.sid].status = StatusAfter(k, @)]
     /\ Goto(p, AfterUpdate(k))
     /\ UNCHANGED <<nasVars, clock, rawVars, acctRows, bindings, accrued,
                    charges, todo, catchUps, faults>>

\* openRadiusBinding, first statement: close whatever is open on the address.
CloseOpen(p) ==
  LET ip == IpOf[evt[p].sid]
  IN /\ pc[p] = "closeOpen"
     /\ IF CanClose(bindings, ip, Sessions, obs[p])
          THEN /\ bindings' = Close(bindings, ip, Sessions, obs[p])
               /\ Goto(p, "openBinding")
          ELSE /\ Abort(p)
               /\ UNCHANGED bindings
     /\ UNCHANGED <<nasVars, clock, rawVars, acctRows, sess, accrued, charges,
                    todo, catchUps, faults>>

\* Faulty variant: ON CONFLICT DO NOTHING, and the row refused is taken for one inserted.
OpenBindingOrSkip(p) ==
  LET b == [ip |-> IpOf[evt[p].sid], sid |-> evt[p].sid, from |-> obs[p], to |-> 0]
  IN /\ pc[p] = "openBinding"
     /\ bindings' = IF CanInsert(bindings, b) THEN bindings \union {b} ELSE bindings
     /\ Goto(p, "mark")
     /\ UNCHANGED <<nasVars, clock, rawVars, acctRows, sess, accrued, charges,
                    todo, catchUps, faults>>

\* openRadiusBinding, second statement.
OpenBinding(p) ==
  LET b == [ip |-> IpOf[evt[p].sid], sid |-> evt[p].sid, from |-> obs[p], to |-> 0]
  IN /\ pc[p] = "openBinding"
     /\ IF CanInsert(bindings, b)
          THEN /\ bindings' = bindings \union {b}
               /\ Goto(p, "mark")
          ELSE /\ Abort(p)
               /\ UNCHANGED bindings
     /\ UNCHANGED <<nasVars, clock, rawVars, acctRows, sess, accrued, charges,
                    todo, catchUps, faults>>

\* closeRadiusBinding: a STOP closes the open interval of its own session.
CloseOwn(p) ==
  LET k == evt[p]
      ip == IpOf[k.sid]
  IN /\ pc[p] = "closeOwn"
     /\ IF CanClose(bindings, ip, {k.sid}, obs[p])
          THEN /\ bindings' = Close(bindings, ip, {k.sid}, obs[p])
               /\ Goto(p, "accrue")
          ELSE /\ Abort(p)
               /\ UNCHANGED bindings
     /\ UNCHANGED <<nasVars, clock, rawVars, acctRows, sess, accrued, charges,
                    todo, catchUps, faults>>

\* Faulty variants: the whole total of the session; no clamp at zero.
DeltaWhole(k, row) == total[k]
DeltaUnclamped(k, row) == total[k] - row.bytes

\* What the packet adds to the total of the copy read before, never negative.
Delta(k, row) == IF total[k] > row.bytes THEN total[k] - row.bytes ELSE 0

\* accrueQuotaDelta: an SQL increment, skipped when there is nothing to add.
Accrue(p) ==
  LET k == evt[p]
      delta == Delta(k, seen[p])
  IN /\ pc[p] = "accrue"
     /\ accrued' = [accrued EXCEPT ![k.sid] = @ + delta]
     /\ charges' = [charges EXCEPT ![k] = IF delta = 0 THEN @ ELSE @ + 1]
     /\ Goto(p, "mark")
     /\ UNCHANGED <<nasVars, clock, rawVars, acctRows, sess, bindings, todo,
                    catchUps, faults>>

\* processed_at is set.
Mark(p) ==
  /\ pc[p] = "mark"
  /\ raw' = [raw EXCEPT ![evt[p]] = "done"]
  /\ Release(p)
  /\ UNCHANGED <<nasVars, clock, rows, rawNo, at, acctRows, sess, bindings, accrued,
                 charges, todo, catchUps, faults>>

-----------------------------------------------------------------------------
(* Failures.                                                               *)

\* Any awaited statement may throw (a connection time-out): the handler
\* ends; a catch-up request goes on, or ends when the read or write of the
\* raw row is what failed.
Fault(p) ==
  /\ pc[p] # "idle"
  /\ faults < MaxFaults
  /\ faults' = faults + 1
  /\ Abort(p)
  /\ \/ UNCHANGED todo
     \/ p \in Runners /\ todo' = [todo EXCEPT ![p] = {}]
  /\ UNCHANGED <<nasVars, clock, rawVars, acctRows, sess, bindings, accrued, charges,
                 catchUps>>

\* The server process restarts: every handler is gone, the tables stay.
Restart ==
  /\ \E p \in Procs : pc[p] # "idle"
  /\ faults < MaxFaults
  /\ faults' = faults + 1
  /\ pc' = [p \in Procs |-> "idle"]
  /\ evt' = [p \in Procs |-> NoKey]
  /\ obs' = [p \in Procs |-> 0]
  /\ seen' = [p \in Procs |-> NoRow]
  /\ todo' = [r \in Runners |-> {}]
  /\ UNCHANGED <<nasVars, clock, rawVars, acctRows, sess, bindings, accrued, charges,
                 catchUps>>

-----------------------------------------------------------------------------

Normalise(p) ==
  \/ InsertAcct(p) \/ FindSession(p) \/ InsertSession(p) \/ UpdateSession(p)
  \/ CloseOpen(p) \/ OpenBinding(p) \/ CloseOwn(p) \/ Accrue(p) \/ Mark(p)

Handle(w) == Lookup(w) \/ InsertRaw(w) \/ Normalise(w)

CatchUp(r) == TakePending(r) \/ Normalise(r)

Nas(s) == NasStart(s) \/ NasInterim(s) \/ NasStop(s)

Next ==
  \/ \E s \in Sessions : Nas(s)
  \/ \E w \in Workers : Handle(w) \/ \E k \in wire : Receive(w, k)
  \/ \E r \in Runners : CatchUp(r) \/ StartCatchUp(r)
  \/ \E p \in Procs : Fault(p)
  \/ Restart

\* A handler that has begun runs on: its promises are settled by the driver.
\* Nothing obliges the NAS to send or the operator to ask for a catch-up.
Fairness ==
  /\ \A w \in Workers : WF_vars(Handle(w))
  /\ \A r \in Runners : WF_vars(CatchUp(r))

Spec == Init /\ [][Next]_vars

FairSpec == Spec /\ Fairness

\* A NAS repeats a packet until it is answered, so it gets through between
\* the copies of other packets.
Delivery == \A k \in Keys : SF_vars(\E w \in Workers : Receive(w, k))

DeliveringSpec == FairSpec /\ Delivery

-----------------------------------------------------------------------------
(* Properties.                                                             *)

Statuses == {"none", "pending", "done"}

NasStates == [phase : {"off", "up", "down"}, updates : 0..MaxInterims, bytes : Nat]

Bindings == [ip : Ips \union {NoIp}, sid : Sessions, from : Nat, to : Nat]

\* Type of the state: tables keyed by session and by event, processes with at
\* most one event in hand.
TypeOK ==
  /\ nas \in [Sessions -> NasStates]
  /\ wire \subseteq Keys
  /\ total \in [Keys -> Nat]
  /\ clock \in Nat
  /\ raw \in [Keys -> Statuses]
  /\ rows \in Nat
  /\ rawNo \in [Keys -> Nat]
  /\ at \in [Keys -> Nat]
  /\ acctRows \in [Keys -> Nat]
  /\ sess \in [Sessions -> SessionRows]
  /\ bindings \subseteq Bindings
  /\ accrued \in [Sessions -> Nat]
  /\ charges \in [Keys -> Nat]
  /\ pc \in [Procs -> PCs]
  /\ evt \in [Procs -> Keys \union {NoKey}]
  /\ \A p \in Procs : pc[p] # "idle" => evt[p] \in Keys
  /\ obs \in [Procs -> Nat]
  /\ seen \in [Procs -> SessionRows]
  /\ todo \in [Runners -> SUBSET Keys]
  /\ catchUps \in Nat
  /\ faults \in Nat

Known(s) == sess[s].status # "NONE"
HasEnded(s) == sess[s].status \in Ended

\* processed_at is a promise: an event marked processed has left the session
\* row it is about, and a processed STOP has left the session ended, whatever
\* handlers raced with it and whatever failed on the way.
ProcessedLeavesSession ==
  \A k \in Keys : raw[k] = "done" /\ k.sid \notin Anonymous =>
    /\ Known(k.sid)
    /\ k.kind = "STOP" => HasEnded(k.sid)

\* A session once ended is never taken for a running one again, although
\* handlers that read it as ACTIVE still write to it afterwards.
EndedForGood ==
  [][\A s \in Sessions : HasEnded(s) => HasEnded(s)']_vars

\* Statements that come after the session row has been dealt with.
SessionDone == {"closeOpen", "openBinding", "closeOwn", "accrue", "mark"}

\* What makes it so: a handler past the session row has left it in place, and
\* one that overwrites it found it.
HandlerLeavesSession(p) ==
  pc[p] # "idle" /\ evt[p].sid \notin Anonymous =>
    /\ pc[p] \in SessionDone \union {"updateSession"} => Known(evt[p].sid)
    /\ pc[p] \in SessionDone /\ evt[p].kind = "STOP" => HasEnded(evt[p].sid)

HandlersLeaveSession == \A p \in Procs : HandlerLeavesSession(p)

Settled(s) == ~InHand(s) /\ \A k \in wire : k.sid = s => raw[k] # "pending"

\* What ended the interval b: an event of another session, or of the same, that
\* has an interval of its own from that moment, or has still to get it.
TakesOver(k, b) ==
  /\ k.kind # "STOP" /\ IpOf[k.sid] = b.ip /\ at[k] = b.to
  /\ raw[k] = "pending" \/ \E c \in bindings : c.sid = k.sid /\ c.from = at[k]

\* An address is handed over, never dropped: openRadiusBinding closes what is
\* open and inserts its own interval in two statements, of which the second may
\* fail or be refused for that of a racing handler.  Still an interval ends only
\* with its session or for an event that gets the address, or stays pending for
\* a catch-up; and a running session whose events are all processed has held its
\* address.  A row refused is thus never taken for one inserted, nor the STOP of
\* one session for that of the next.  (Not with catch-up requests: the replay of
\* an update that has made the session finds it and opens nothing.)
AddressIsHandedOver ==
  /\ \A b \in bindings : IsOpen(b) \/ HasEnded(b.sid) \/ \E k \in Keys : TakesOver(k, b)
  /\ \A s \in Sessions : sess[s].status = "ACTIVE" /\ HasIp(s) /\ Settled(s) =>
       \E b \in bindings : b.sid = s

\* What makes it so: an event stored or in hand has a receipt time, and 0, the
\* NULL of valid_to, is not one; a handler past InsertRaw has a stored event.
TimesArePositive ==
  /\ \A k \in Keys : raw[k] # "none" => at[k] > 0
  /\ \A p \in Procs : pc[p] # "idle" => obs[p] > 0
  /\ \A p \in Procs : pc[p] \notin {"idle", "lookup", "insertRaw"} => raw[evt[p]] # "none"

\* Each packet is charged at most once: a replay of the same totals finds them
\* stored and adds nothing ("Goi lai cung mot gia tri -> delta = 0").
ChargedOnce == \A k \in Keys : charges[k] <= 1

\* The event of a session that was stored first, where they come in order.
First(k) ==
  raw[k] # "none" /\ \A j \in Keys : j.sid = k.sid /\ raw[j] # "none" => Rank(k) <= Rank(j)

\* An INTERIM_UPDATE that makes the row, since the START is lost, charges nothing.
Uncharged(k) == IF k.kind = "INTERIM" THEN total[k] ELSE 0

\* The quota follows the session, whichever packets are lost: once its events
\* are settled, all the bytes stored for it have been charged, except the total
\* of an update that came first; unless a statement has failed.
QuotaFollowsSession ==
  faults = 0 => \A k \in Keys :
    First(k) /\ k.sid \notin Anonymous /\ Settled(k.sid) =>
      sess[k.sid].bytes = accrued[k.sid] + Uncharged(k)

\* An ended session holds no address once its events are settled, even when
\* statements have failed on the way.
EndedHoldsNoAddress ==
  \A b \in bindings : Settled(b.sid) /\ HasEnded(b.sid) => ~IsOpen(b)

\* The pipeline implements the bill a subscriber is promised: what has been
\* accrued follows what the NAS has counted.
Identified == Sessions \ Anonymous

Billing == INSTANCE SessionBilling WITH
             Sessions <- Identified,
             reported <- [s \in Identified |-> nas[s].bytes],
             billed <- [s \in Identified |-> accrued[s]]

\* Every step of the pipeline counts, bills or changes neither.
ImplementsBilling == Billing!Spec

\* Every byte counted for an identified session reaches the quota, unless a
\* statement fails.
EverythingIsBilled ==
  \A s \in Identified : nas[s].phase = "down" ~> accrued[s] = nas[s].bytes \/ faults > 0

-----------------------------------------------------------------------------
(* What makes the quota follow the session, where the packets of a session *)
(* are handled in order and no catch-up request replays an older one.      *)

Ordered == InOrder /\ Runners = {}

\* What a NAS sends later carries no less, and never more than it has counted.
SentInOrder ==
  /\ \A s \in Sessions : nas[s].phase # "off" => START(s) \in wire
  /\ \A k \in wire :
       /\ nas[k.sid].phase # "off"
       /\ k.kind = "INTERIM" => k.time <= nas[k.sid].updates
       /\ k.kind = "STOP" => nas[k.sid].phase = "down"
       /\ total[k] <= nas[k.sid].bytes
  /\ \A j, k \in wire : j.sid = k.sid /\ Rank(j) <= Rank(k) => total[j] <= total[k]

Busy(p) == pc[p] # "idle"

\* A session has one event in hand, sent by its NAS, with no later one stored.
HandledInOrder ==
  /\ \A k \in Keys : raw[k] # "none" => k \in wire
  /\ \A p, q \in Procs : Busy(p) /\ Busy(q) /\ evt[p].sid = evt[q].sid => p = q
  /\ \A p \in Procs : Busy(p) =>
       /\ evt[p] \in wire
       /\ pc[p] = "insertRaw" => raw[evt[p]] = "none"
       /\ \A j \in wire : j.sid = evt[p].sid /\ Rank(j) > Rank(evt[p]) => raw[j] = "none"

\* Only packets with a User-Name get beyond the audit row; a handler about to
\* write a session row has read it as it is.
RowsAsRead ==
  /\ \A s \in Sessions : ~Known(s) => sess[s].bytes = 0
  /\ \A s \in Anonymous : ~Known(s)
  /\ \A p \in Procs : Busy(p) =>
       /\ pc[p] \notin {"lookup", "insertRaw", "insertAcct", "mark"} => evt[p].sid \notin Anonymous
       /\ pc[p] \in {"insertSession", "updateSession"} => seen[p] = sess[evt[p].sid]
       /\ pc[p] = "insertSession" => seen[p].status = "NONE"

\* The statements between the stored total and the quota.
Owing == {"closeOwn", "accrue"}

\* The total of a session is one its NAS has sent, and no more than that of the
\* event in hand; the quota lags behind it by what the handler has yet to add.
NoneOvercharged ==
  /\ \A s \in Sessions :
       /\ accrued[s] <= sess[s].bytes
       /\ sess[s].bytes = 0
          \/ \E k \in wire : k.sid = s /\ raw[k] # "none" /\ sess[s].bytes = total[k]
  /\ \A p \in Procs : Busy(p) =>
       /\ sess[evt[p].sid].bytes <= total[evt[p]]
       /\ pc[p] \in Owing =>
            /\ accrued[evt[p].sid] <= seen[p].bytes
            /\ seen[p].bytes <= total[evt[p]]
            /\ sess[evt[p].sid].bytes = total[evt[p]]

\* An interval of a session was opened before the event in hand was received.
IntervalsBefore ==
  /\ \A b \in bindings : b.from <= clock
  /\ \A p \in Procs : Busy(p) =>
       /\ obs[p] <= clock \/ (pc[p] = "lookup" /\ raw[evt[p]] # "none")
       /\ \A b \in bindings : b.sid = evt[p].sid => b.from <= obs[p]

\* Statements that come after the raw row is stored.
Stored(p) == pc[p] \notin {"idle", "lookup", "insertRaw"}

\* A session is known once an event of it is stored, unless that one is still
\* in hand, and not before.
StoredLeavesRow ==
  faults = 0 =>
    /\ \A k \in wire : raw[k] # "none" /\ k.sid \notin Anonymous =>
         Known(k.sid) \/ \E p \in Procs : Stored(p) /\ evt[p] = k
    /\ \A s \in Sessions : Known(s) => \E k \in wire : k.sid = s /\ raw[k] # "none"

\* What is stored and not charged is in the hands of a handler, or came first.
AllCharged ==
  faults = 0 => \A k \in Keys : First(k) /\ Known(k.sid) =>
    /\ (\A p \in Procs : pc[p] \in Owing => evt[p].sid # k.sid) =>
         sess[k.sid].bytes = accrued[k.sid] + Uncharged(k)
    /\ \A p \in Procs : pc[p] \in Owing /\ evt[p].sid = k.sid =>
         seen[p].bytes = accrued[k.sid] + Uncharged(k)

\* A session is ended by its STOP, and no other event is handled after it; the
\* STOP is past its binding only when that is closed.
StopClosesBinding ==
  /\ \A s \in Sessions : HasEnded(s) => raw[STOP(s)] # "none"
  /\ \A b \in bindings : b.sid \notin Anonymous /\ HasIp(b.sid) /\ b.ip = IpOf[b.sid]
  /\ \A p \in Procs : pc[p] \in {"closeOpen", "openBinding"} =>
       evt[p].kind # "STOP" /\ HasIp(evt[p].sid)
  /\ \A b \in bindings : IsOpen(b) =>
       /\ raw[STOP(b.sid)] # "done"
       /\ \A p \in Procs : pc[p] \in {"accrue", "mark"} /\ evt[p].kind = "STOP" => evt[p].sid # b.sid

-----------------------------------------------------------------------------
(* What makes an address be handed over, where no catch-up request runs.   *)

\* The event k is to get an interval of its own from at[k]: whoever has it in
\* hand is at one of the two statements that open it.
Opens(k) ==
  /\ k.kind # "STOP" /\ raw[k] = "pending"
  /\ \A p \in Procs : Stored(p) /\ evt[p] = k => pc[p] \in {"closeOpen", "openBinding"}

HasOpened(k) == \E b \in bindings : b.sid = k.sid /\ b.from = at[k]

\* A stored event is in one hand, with the receipt time of its row.
OneHandPerEvent ==
  /\ \A k \in Keys : raw[k] # "none" => k \in wire
  /\ \A p \in Procs : Busy(p) => evt[p] \in wire
  /\ \A p \in Procs : Stored(p) => raw[evt[p]] = "pending" /\ at[evt[p]] = obs[p]
  /\ \A p, q \in Procs : Stored(p) /\ Stored(q) /\ evt[p] = evt[q] => p = q

\* Only a STOP closes without opening, and only an event with an address opens.
BindingSteps ==
  \A p \in Procs :
    /\ pc[p] \in {"closeOpen", "openBinding"} => evt[p].kind # "STOP" /\ HasIp(evt[p].sid)
    /\ pc[p] \notin {"idle", "lookup", "insertRaw", "insertAcct", "mark"} => evt[p].sid \notin Anonymous
    /\ pc[p] = "closeOwn" => evt[p].kind = "STOP"

\* An interval ended with its session or for an event that opens one, and an
\* event of a running session opens one unless it has been opened.
HandedOver ==
  /\ \A b \in bindings : IsOpen(b) \/ HasEnded(b.sid) \/
       \E k \in Keys : IpOf[k.sid] = b.ip /\ at[k] = b.to /\ k.kind # "STOP" /\ raw[k] # "none"
                       /\ (Opens(k) \/ HasOpened(k))
  /\ \A s \in Sessions : sess[s].status = "ACTIVE" /\ HasIp(s) =>
       (\E b \in bindings : b.sid = s) \/ \E k \in Keys : k.sid = s /\ Opens(k)

=============================================================================
