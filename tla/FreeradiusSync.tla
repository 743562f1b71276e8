---------------------------- MODULE FreeradiusSync ----------------------------
(***************************************************************************)
(* With RADIUS_MODE=freeradius the sessions are rows of radacct, which     *)
(* FreeRADIUS writes in its own database and updates in place.  Every 15   *)
(* seconds the portal copies them to radius_sessions: the open rows, and   *)
(* those touched since the last run that succeeded, less an overlap.  The  *)
(* ship of a row is that of the device at its NAS address.                 *)
(*                                                                         *)
(* Each row has a session id of its own.  A version stands for its byte    *)
(* counts and times.                                                       *)
(***************************************************************************)
EXTENDS DeviceInventory, FiniteSets

CONSTANTS
  Rows,      \* radacct rows
  Bare,      \* the rows that FreeRADIUS wrote without a username or a start time
  Limit,     \* rows a SELECT returns at most
  Overlap,   \* OVERLAP_MS
  MaxLag     \* how far the stamps of FreeRADIUS lag behind the portal's clock

ASSUME SyncOK ==
  /\ Bare \subseteq Rows
  /\ Limit \in Nat /\ Overlap \in Nat /\ MaxLag \in Nat
  /\ MaxLag < Overlap

VARIABLES
  clock,      \* the portal's clock
  acct,       \* radacct: state, NAS address, latest of its stamps, version
  session,    \* radius_sessions: per ship and row, version and status, 0 without a row
  watermark,  \* lastSyncedAt
  running,    \* the flag that keeps runs apart
  run,        \* per timer callback: when it began, and the rows it has still to copy
  missed      \* rows a run passed over: bare, no device at the NAS, or over the limit (history)

syncVars == <<clock, acct, session, watermark, running, run, missed>>
vars == <<invVars, left, syncVars>>

NoRun == [at |-> "idle", started |-> 0, batch |-> {}]
NoSession == [version |-> 0, status |-> "NONE"]

Init ==
  /\ InitInventory
  /\ clock = 0
  /\ acct = [r \in Rows |-> [state |-> "none", nas |-> None, stamp |-> 0, version |-> 0]]
  /\ session = [h \in Ships |-> [r \in Rows |-> NoSession]]
  /\ watermark = 0
  /\ running = FALSE
  /\ run = [t \in Timers |-> NoRun]
  /\ missed = {}

Tick ==
  /\ left.ticks > 0
  /\ left' = [left EXCEPT !.ticks = @ - 1]
  /\ clock' = clock + 1
  /\ UNCHANGED <<invVars, acct, session, watermark, running, run, missed>>

-----------------------------------------------------------------------------
(* FreeRADIUS handles a packet: START, INTERIM_UPDATE or STOP.             *)

Later(r, lag) == IF acct[r].stamp > clock - lag THEN acct[r].stamp ELSE clock - lag

Packet(r, from, to, i) ==
  /\ acct[r].state = from
  /\ left.packets > 0
  /\ left' = [left EXCEPT !.packets = @ - 1]
  /\ \E lag \in 0..MaxLag :
       acct' = [acct EXCEPT ![r] = [state |-> to, nas |-> i, stamp |-> Later(r, lag),
                                    version |-> @.version + 1]]
  /\ UNCHANGED <<invVars, clock, session, watermark, running, run, missed>>

\* A session begins; rows not begun are all alike but for being bare.
NextRow(r) == r = CHOOSE x \in Rows : acct[x].state = "none" /\ (x \in Bare <=> r \in Bare)

Start(r) == acct[r].state = "none" /\ NextRow(r) /\ \E i \in Ips : Packet(r, "none", "open", i)
Interim(r) == Packet(r, "open", "open", acct[r].nas)
Stop(r) == Packet(r, "open", "stopped", acct[r].nas)

-----------------------------------------------------------------------------
(* syncOnce.                                                               *)

\* Faulty variant: no look at the flag.
MayRunAlways == TRUE

MayRun == ~running

Resting == {t \in left.actors \intersect Timers : run[t] = NoRun}

\* The timer fires; a run under way makes it return at once.
StartSync(t) ==
  /\ t \in Resting
  /\ t = CHOOSE u \in Resting : TRUE
  /\ MayRun
  /\ running' = TRUE
  /\ run' = [run EXCEPT ![t] = [at |-> "select", started |-> clock, batch |-> {}]]
  /\ UNCHANGED <<invVars, left, clock, acct, session, watermark, missed>>

\* Faulty variant: only what was touched since the last run.
WithinClosed(r, mark) == acct[r].state = "open" \/ acct[r].stamp > mark

Within(r, mark) == acct[r].state = "open" \/ acct[r].stamp > mark - Overlap

Touched == {r \in Rows : acct[r].state # "none" /\ Within(r, watermark)}

Snapshot(r) == [row |-> r, nas |-> acct[r].nas, version |-> acct[r].version,
                status |-> IF acct[r].state = "open" THEN "ACTIVE" ELSE "CLOSED"]

\* In no order: over the limit, which rows are left out is the database's choice.
Select(t) ==
  /\ run[t].at = "select"
  /\ \E S \in SUBSET Touched :
       /\ IF Cardinality(Touched) <= Limit THEN S = Touched ELSE Cardinality(S) = Limit
       /\ run' = [run EXCEPT ![t].at = "copy", ![t].batch = {Snapshot(r) : r \in S}]
       /\ missed' = missed \union (Touched \ S)
  /\ UNCHANGED <<invVars, left, clock, acct, session, watermark, running>>

\* One row: to the ship of a device at its NAS address, or passed over.
Copy(t, b) ==
  /\ run[t].at = "copy" /\ b \in run[t].batch
  /\ run' = [run EXCEPT ![t].batch = @ \ {b}]
  /\ IF b.row \in Bare \/ DevicesAt(b.nas) = {}
       THEN missed' = missed \union {b.row} /\ UNCHANGED session
       ELSE \E d \in DevicesAt(b.nas) :
              /\ session' = [session EXCEPT ![dev[d].ship][b.row] =
                               [version |-> b.version, status |-> b.status]]
              /\ missed' = missed \ {b.row}
  /\ UNCHANGED <<invVars, left, clock, acct, watermark, running>>

\* Faulty variant: the time of the end instead of the beginning.
MarkAtEnd(t) == clock

Mark(t) == run[t].started

Finish(t) ==
  /\ run[t].at = "copy" /\ run[t].batch = {}
  /\ watermark' = Mark(t)
  /\ running' = FALSE
  /\ run' = [run EXCEPT ![t] = NoRun]
  /\ UNCHANGED <<invVars, left, clock, acct, session, missed>>

\* A statement fails: the next run covers this one's span again.
SyncFails(t) ==
  /\ run[t] # NoRun
  /\ Blame
  /\ running' = FALSE
  /\ run' = [run EXCEPT ![t] = NoRun]
  /\ UNCHANGED <<invVars, clock, acct, session, watermark, missed>>

\* The process restarts: the watermark and every request are gone, the copy of
\* the inventory is read before anything is served.
Restart ==
  /\ Blame
  /\ watermark' = 0
  /\ running' = FALSE
  /\ run' = [t \in Timers |-> NoRun]
  /\ cache' = Rows0
  /\ refresh' = [c \in Refreshers |-> AtRest]
  /\ req' = [q \in Requests |-> Idle]
  /\ stray' = stray \union UNION {About(req[q]) : q \in Requests}
  /\ UNCHANGED <<ship, dev, nas, clock, acct, session, missed>>

-----------------------------------------------------------------------------

Sync(t) == Select(t) \/ Finish(t) \/ \E b \in run[t].batch : Copy(t, b)

Next ==
  \/ NextInventory /\ UNCHANGED syncVars
  \/ Tick
  \/ \E r \in Rows : Start(r) \/ Interim(r) \/ Stop(r)
  \/ \E t \in Timers : StartSync(t) \/ Sync(t) \/ SyncFails(t)
  \/ Restart

Spec == Init /\ [][Next]_vars

\* The timers fire for ever and awaited statements settle.
FairSpec ==
  /\ Spec
  /\ InventoryFairness
  /\ WF_vars(\E t \in Timers : Sync(t))
  /\ WF_vars(\E t \in Timers : StartSync(t))

-----------------------------------------------------------------------------
(* Properties.                                                             *)

Statuses == {"NONE", "ACTIVE", "CLOSED"}

\* Types; at most one run is under way, and the flag tells.
TypeOK ==
  /\ InventoryTypeOK
  /\ clock \in Nat
  /\ acct \in [Rows -> [state : {"none", "open", "stopped"}, nas : Ips \union {None},
                        stamp : Int, version : Nat]]
  /\ session \in [Ships -> [Rows -> [version : Nat, status : Statuses]]]
  /\ watermark \in Nat
  /\ running \in BOOLEAN
  /\ run \in [Timers -> [at : {"idle", "select", "copy"}, started : Nat,
                         batch : SUBSET [row : Rows, nas : Ips \union {None}, version : Nat,
                                         status : Statuses]]]
  /\ missed \subseteq Rows
  /\ \A t, u \in Timers : run[t] # NoRun /\ run[u] # NoRun => t = u
  /\ running <=> \E t \in Timers : run[t] # NoRun

\* The clocks: a run begins after the one that set the watermark, and stamps
\* lag behind no further than MaxLag.
Clocks ==
  /\ watermark <= clock
  /\ \A t \in Timers : run[t] # NoRun => watermark <= run[t].started /\ run[t].started <= clock
  /\ \A r \in Rows : acct[r].state # "none" => acct[r].stamp >= -MaxLag

\* No copy is newer than its row.
CopiesFollow == \A h \in Ships, r \in Rows : session[h][r].version <= acct[r].version

\* The rows in the hands of a run: one snapshot of each, not older than its
\* copies; a row that has changed since was stamped within reach of the next run.
BatchesHold ==
  \A t \in Timers : \A b \in run[t].batch :
    /\ run[t].at = "copy"
    /\ b.version <= acct[b.row].version
    /\ \A h \in Ships : session[h][b.row].version <= b.version
    /\ b.version < acct[b.row].version => acct[b.row].stamp > run[t].started - Overlap
    /\ b.version = acct[b.row].version => b = Snapshot(b.row) /\ Within(b.row, watermark)
    /\ \A c \in run[t].batch : c.row = b.row => c = b

\* A session copied as it is now, to some ship.
Mirrored(r) == \E h \in Ships : session[h][r].version = acct[r].version

\* Nothing is forgotten: a session that has stopped is copied, or within the
\* reach of the next run, or in the hands of this one, unless a run passed it
\* over.  Whatever the clocks, restarts and failures, no STOP is skipped because
\* it was written while a run was under way.
NothingForgotten ==
  \A r \in Rows :
    acct[r].state = "stopped" =>
      \/ r \in missed
      \/ Mirrored(r)
      \/ acct[r].stamp > watermark - Overlap /\ \A t \in Timers : run[t].at # "copy"
      \/ \E t \in Timers : run[t].at = "copy" /\ Snapshot(r) \in run[t].batch
      \/ \E t \in Timers : run[t].at = "copy" /\ acct[r].stamp > run[t].started - Overlap

\* What every step preserves.
IInv == TypeOK /\ Clocks /\ CopiesFollow /\ BatchesHold /\ NothingForgotten

\* No run writes an older state over a newer one: bytes do not shrink and a
\* closed session does not open again.
NeverBackwards ==
  [][\A h \in Ships, r \in Rows : session'[h][r].version >= session[h][r].version]_vars

\* Every session that stops is closed, unless a run passed it over.
StoppedIsClosed ==
  \A r \in Rows :
    acct[r].state = "stopped" ~>
      \/ r \in missed
      \/ \E h \in Ships : session[h][r].status = "CLOSED"

=============================================================================
