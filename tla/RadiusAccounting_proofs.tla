----------------------- MODULE RadiusAccounting_proofs -----------------------
(***************************************************************************)
(* Proofs about RadiusAccounting, for any number of sessions, handlers,    *)
(* catch-up requests and failures.                                         *)
(***************************************************************************)
EXTENDS RadiusAccounting, TLAPS

\* Each kind of key is a key of its session.
LEMMA KeysOfSession ==
  ASSUME NEW s \in Sessions
  PROVE  /\ START(s) \in Keys
         /\ STOP(s) \in Keys
         /\ \A n \in 1..MaxInterims : INTERIM(s, n) \in Keys
BY ConstantsOK DEF Keys, START, STOP, INTERIM, ConstantsOK

\* A key names a session of the system.
LEMMA SessionOfKey ==
  ASSUME NEW k \in Keys
  PROVE  k.sid \in Sessions
BY DEF Keys

\* Closing intervals keeps the table well typed.
LEMMA CloseType ==
  ASSUME NEW T \in SUBSET Bindings,
         NEW ip, NEW S, NEW t \in Nat
  PROVE  Close(T, ip, S, t) \in SUBSET Bindings
BY DEF Close, OpenRows, Bindings

\* The row of a session never met has the type of a row.
LEMMA NoRowType == NoRow \in SessionRows
BY DEF NoRow, SessionRows

\* The counters and rows of the pipeline have their types in every state.
LEMMA TypeInit == Init => TypeOK
BY ConstantsOK DEF Init, TypeOK, NasStates, Statuses, SessionRows, PCs, NoRow, ConstantsOK

LEMMA TypeNext == TypeOK /\ [Next]_vars => TypeOK'
<1> SUFFICES ASSUME TypeOK, [Next]_vars PROVE TypeOK'
  OBVIOUS
<1> USE ConstantsOK, NoRowType DEF ConstantsOK
<1>1. ASSUME NEW s \in Sessions, NasStart(s) PROVE TypeOK'
  BY <1>1, KeysOfSession DEF TypeOK, NasStart, Send, nasVars, rawVars, procVars, NasStates
<1>2. ASSUME NEW s \in Sessions, NasInterim(s) PROVE TypeOK'
  <2>1. PICK d \in Increments : /\ nas[s].phase = "up"
                                /\ nas[s].updates < MaxInterims
                                /\ nas' = [nas EXCEPT ![s].updates = @ + 1, ![s].bytes = @ + d]
                                /\ Send(INTERIM(s, nas[s].updates + 1), nas[s].bytes + d)
    BY <1>2 DEF NasInterim
  <2>2. nas[s] \in NasStates /\ nas[s].bytes + d \in Nat
    BY DEF TypeOK, NasStates
  <2>3. INTERIM(s, nas[s].updates + 1) \in Keys
    BY <2>1, <2>2, KeysOfSession DEF NasStates
  <2>4. nas' \in [Sessions -> NasStates]
    <3>1. nas[s].updates + 1 \in 0..MaxInterims
      BY <2>1, <2>2 DEF NasStates
    <3>2. [nas[s] EXCEPT !.updates = @ + 1, !.bytes = @ + d] \in NasStates
      BY <2>2, <3>1 DEF NasStates
    <3> QED
      BY <2>1, <3>2 DEF TypeOK
  <2>5. total' \in [Keys -> Nat] /\ wire' \subseteq Keys
    BY <2>1, <2>2, <2>3 DEF TypeOK, Send
  <2> QED
    BY <2>1, <2>4, <2>5 DEF TypeOK, Send, rawVars, procVars
<1>3. ASSUME NEW s \in Sessions, NasStop(s) PROVE TypeOK'
  <2>1. PICK d \in Increments : /\ nas[s].phase = "up"
                                /\ nas' = [nas EXCEPT ![s].phase = "down", ![s].bytes = @ + d]
                                /\ Send(STOP(s), nas[s].bytes + d)
    BY <1>3 DEF NasStop
  <2>2. nas[s] \in NasStates /\ nas[s].bytes + d \in Nat
    BY DEF TypeOK, NasStates
  <2>3. STOP(s) \in Keys
    BY <2>1, <2>2, KeysOfSession DEF NasStates
  <2>4. nas' \in [Sessions -> NasStates]
    BY <2>1, <2>2 DEF TypeOK, NasStates
  <2>5. total' \in [Keys -> Nat] /\ wire' \subseteq Keys
    BY <2>1, <2>2, <2>3 DEF TypeOK, Send
  <2> QED
    BY <2>1, <2>4, <2>5 DEF TypeOK, Send, rawVars, procVars
<1>4. ASSUME NEW w \in Workers, Lookup(w) PROVE TypeOK'
  BY <1>4 DEF TypeOK, Lookup, Goto, Release, nasVars, rawVars, PCs, Procs
<1>5. ASSUME NEW w \in Workers, InsertRaw(w) PROVE TypeOK'
  BY <1>5 DEF TypeOK, InsertRaw, Goto, Release, nasVars, rawVars, PCs, Procs, Statuses
<1>6. ASSUME NEW w \in Workers, NEW k \in wire, Receive(w, k) PROVE TypeOK'
  BY <1>6 DEF TypeOK, Receive, nasVars, rawVars, PCs, Procs
<1>7. ASSUME NEW r \in Runners, StartCatchUp(r) PROVE TypeOK'
  BY <1>7 DEF TypeOK, StartCatchUp, nasVars, rawVars, procVars
<1>8. ASSUME NEW r \in Runners, TakePending(r) PROVE TypeOK'
  BY <1>8 DEF TypeOK, TakePending, nasVars, rawVars, procVars, PCs, Procs
<1>9. ASSUME NEW p \in Procs, InsertAcct(p) PROVE TypeOK'
  BY <1>9 DEF TypeOK, InsertAcct, AfterAcct, Goto, nasVars, rawVars, PCs
<1>10. ASSUME NEW p \in Procs, FindSession(p) PROVE TypeOK'
  BY <1>10 DEF TypeOK, FindSession, AfterFind, AfterSession, nasVars, rawVars, PCs, SessionRows, Keys
<1>11. ASSUME NEW p \in Procs, InsertSession(p) PROVE TypeOK'
  <2>1. evt[p] \in Keys /\ total[evt[p]] \in Nat /\ evt[p].sid \in Sessions
    BY <1>11, SessionOfKey DEF TypeOK, InsertSession
  <2>2. sess' \in [Sessions -> SessionRows]
    <3>1. [status |-> IF evt[p].kind = "STOP" THEN "ORPHANED" ELSE "ACTIVE",
           bytes |-> IF evt[p].kind = "START" THEN 0 ELSE total[evt[p]]] \in SessionRows
      BY <2>1 DEF SessionRows, Ended
    <3> QED
      BY <1>11, <2>1, <3>1 DEF TypeOK, InsertSession
  <2>3. /\ pc' \in [Procs -> PCs]
        /\ evt' \in [Procs -> Keys \union {NoKey}]
        /\ \A q \in Procs : pc'[q] # "idle" => evt'[q] \in Keys
        /\ obs' \in [Procs -> Nat]
        /\ seen' \in [Procs -> SessionRows]
    BY <1>11, <2>1 DEF TypeOK, InsertSession, AfterSession, Abort, Release, Goto, PCs
  <2> QED
    BY <1>11, <2>2, <2>3 DEF TypeOK, InsertSession, nasVars, rawVars
<1>12. ASSUME NEW p \in Procs, UpdateSession(p) PROVE TypeOK'
  BY <1>12 DEF TypeOK, UpdateSession, AfterUpdate, AfterSession, StatusAfter, Goto, nasVars, rawVars, PCs, SessionRows, Keys, Ended
<1>13. ASSUME NEW p \in Procs, CloseOpen(p) PROVE TypeOK'
  BY <1>13, CloseType DEF TypeOK, CloseOpen, Abort, Release, Goto, nasVars, rawVars, PCs
<1>14. ASSUME NEW p \in Procs, OpenBinding(p) PROVE TypeOK'
  <2>1. evt[p] \in Keys /\ IpOf[evt[p].sid] \in Ips \union {NoIp}
    BY <1>14, SessionOfKey DEF TypeOK, OpenBinding
  <2>2. [ip |-> IpOf[evt[p].sid], sid |-> evt[p].sid, from |-> obs[p], to |-> 0]
          \in Bindings
    BY <2>1, SessionOfKey DEF TypeOK, Bindings
  <2> QED
    BY <1>14, <2>2 DEF TypeOK, OpenBinding, Abort, Release, Goto, nasVars, rawVars, PCs
<1>15. ASSUME NEW p \in Procs, CloseOwn(p) PROVE TypeOK'
  BY <1>15, CloseType DEF TypeOK, CloseOwn, Abort, Release, Goto, nasVars, rawVars, PCs
<1>16. ASSUME NEW p \in Procs, Accrue(p) PROVE TypeOK'
  BY <1>16 DEF TypeOK, Accrue, Delta, Goto, nasVars, rawVars, PCs, SessionRows, Keys
<1>17. ASSUME NEW p \in Procs, Mark(p) PROVE TypeOK'
  BY <1>17 DEF TypeOK, Mark, Release, nasVars, PCs, Statuses
<1>18. ASSUME NEW p \in Procs, Fault(p) PROVE TypeOK'
  BY <1>18 DEF TypeOK, Fault, Abort, Release, nasVars, rawVars, PCs
<1>19. ASSUME Restart PROVE TypeOK'
  BY <1>19 DEF TypeOK, Restart, nasVars, rawVars, PCs
<1>20. CASE UNCHANGED vars
  BY <1>20 DEF TypeOK, vars
<1> QED
  BY <1>1, <1>2, <1>3, <1>4, <1>5, <1>6, <1>7, <1>8, <1>9, <1>10, <1>11, <1>12, <1>13, <1>14, <1>15, <1>16, <1>17, <1>18, <1>19, <1>20 DEF Next, Nas, Handle, CatchUp, Normalise, Procs

\* Every reachable state is well typed.
THEOREM TypeCorrect == Spec => []TypeOK
<1>1. Init => TypeOK
  BY TypeInit
<1>2. TypeOK /\ [Next]_vars => TypeOK'
  BY TypeNext
<1> QED
  BY <1>1, <1>2, PTL DEF Spec

-----------------------------------------------------------------------------
(* Processed events and session rows.                                      *)

\* No step removes a session row, and none revives an ended session: the two
\* statements that write one insert where nothing is or keep its end.
LEMMA RowsStay ==
  ASSUME TypeOK, [Next]_vars, NEW s \in Sessions
  PROVE  /\ Known(s) => Known(s)'
         /\ HasEnded(s) => HasEnded(s)'
<1>1. ASSUME NEW p \in Procs, InsertSession(p)
      PROVE  Known(s) => sess'[s].status = sess[s].status
  BY <1>1 DEF InsertSession, TypeOK, Known
<1>2. ASSUME NEW p \in Procs, UpdateSession(p)
      PROVE  sess'[s].status \in {sess[s].status, "CLOSED"}
  <2>1. evt[p] \in Keys /\ sess[evt[p].sid] \in SessionRows
    BY <1>2, SessionOfKey DEF UpdateSession, TypeOK
  <2> QED
    BY <1>2, <2>1 DEF UpdateSession, StatusAfter, TypeOK, SessionRows
<1>3. CASE sess' = sess
  BY <1>3 DEF Known, HasEnded
<1>4. \/ sess' = sess
      \/ \E p \in Procs : InsertSession(p) \/ UpdateSession(p)
  BY DEF Next, vars, Nas, NasStart, NasInterim, NasStop, Send, Handle, Receive, Lookup,
         InsertRaw, CatchUp, StartCatchUp, TakePending, Normalise, InsertAcct,
         FindSession, CloseOpen, OpenBinding, CloseOwn, Accrue, Mark, Fault, Restart, Procs
<1> QED
  BY <1>1, <1>2, <1>3, <1>4 DEF Known, HasEnded, Ended

\* An ended session is never revived.
THEOREM EndedSessionsStayEnded == Spec => EndedForGood
<1>1. TypeOK /\ [Next]_vars =>
        [\A s \in Sessions : HasEnded(s) => HasEnded(s)']_vars
  BY RowsStay
<1> QED
  BY <1>1, TypeCorrect, PTL DEF Spec, EndedForGood

\* The strengthening of ProcessedLeavesSession that every step preserves.
SessionInv == TypeOK /\ HandlersLeaveSession /\ ProcessedLeavesSession

LEMMA SessionInit == Init => SessionInv
BY TypeInit DEF Init, SessionInv, HandlersLeaveSession, HandlerLeavesSession, ProcessedLeavesSession

\* A step of the handler p leaves the others where they are, and takes p only
\* where the session row allows it.
LEMMA HandlersNext ==
  ASSUME SessionInv, [Next]_vars
  PROVE  HandlersLeaveSession'
<1> USE DEF SessionInv
<1>1. \A s \in Sessions : /\ Known(s) => Known(s)'
                          /\ HasEnded(s) => HasEnded(s)'
  BY RowsStay
<1>2. \A k \in Keys : k.sid \in Sessions
  BY SessionOfKey
<1>3. ASSUME NEW q \in Procs, pc'[q] = pc[q], evt'[q] = evt[q]
      PROVE  HandlerLeavesSession(q)'
  <2>1. pc[q] # "idle" => evt[q].sid \in Sessions
    BY <1>2 DEF TypeOK
  <2> QED
    BY <1>1, <1>3, <2>1 DEF HandlersLeaveSession, HandlerLeavesSession, Known, HasEnded
<1>4. CASE UNCHANGED <<pc, evt>>
  BY <1>3, <1>4 DEF HandlersLeaveSession
<1>5. ASSUME NEW w \in Workers, Lookup(w) PROVE HandlersLeaveSession'
  <2>1. \A q \in Procs \ {w} : pc'[q] = pc[q] /\ evt'[q] = evt[q]
    BY <1>5 DEF Lookup, Goto, Release, TypeOK
  <2>2. HandlerLeavesSession(w)'
    BY <1>5, <1>2 DEF Lookup, Goto, Release, HandlerLeavesSession, HandlersLeaveSession, SessionDone, TypeOK, Procs
  <2> QED
    BY <1>3, <2>1, <2>2 DEF HandlersLeaveSession
<1>6. ASSUME NEW w \in Workers, InsertRaw(w) PROVE HandlersLeaveSession'
  <2>1. \A q \in Procs \ {w} : pc'[q] = pc[q] /\ evt'[q] = evt[q]
    BY <1>6 DEF InsertRaw, Goto, Release, TypeOK
  <2>2. HandlerLeavesSession(w)'
    BY <1>6, <1>2 DEF InsertRaw, Goto, Release, HandlerLeavesSession, HandlersLeaveSession, SessionDone, TypeOK, Procs
  <2> QED
    BY <1>3, <2>1, <2>2 DEF HandlersLeaveSession
<1>7. ASSUME NEW w \in Workers, NEW k \in wire, Receive(w, k) PROVE HandlersLeaveSession'
  <2>1. \A q \in Procs \ {w} : pc'[q] = pc[q] /\ evt'[q] = evt[q]
    BY <1>7 DEF Receive, TypeOK
  <2>2. HandlerLeavesSession(w)'
    BY <1>7, <1>2 DEF Receive, HandlerLeavesSession, HandlersLeaveSession, SessionDone, TypeOK, Procs
  <2> QED
    BY <1>3, <2>1, <2>2 DEF HandlersLeaveSession
<1>8. ASSUME NEW r \in Runners, TakePending(r) PROVE HandlersLeaveSession'
  <2>1. \A q \in Procs \ {r} : pc'[q] = pc[q] /\ evt'[q] = evt[q]
    BY <1>8 DEF TakePending, procVars, TypeOK
  <2>2. HandlerLeavesSession(r)'
    BY <1>8, <1>2 DEF TakePending, procVars, HandlerLeavesSession, HandlersLeaveSession, SessionDone, TypeOK, Procs
  <2> QED
    BY <1>3, <2>1, <2>2 DEF HandlersLeaveSession
<1>9. ASSUME NEW p \in Procs, InsertAcct(p) PROVE HandlersLeaveSession'
  <2>1. \A q \in Procs \ {p} : pc'[q] = pc[q] /\ evt'[q] = evt[q]
    BY <1>9 DEF InsertAcct, Goto, TypeOK
  <2>2. HandlerLeavesSession(p)'
    BY <1>9, <1>2 DEF InsertAcct, AfterAcct, Goto, HandlerLeavesSession, HandlersLeaveSession, SessionDone, TypeOK, Procs
  <2> QED
    BY <1>3, <2>1, <2>2 DEF HandlersLeaveSession
<1>10. ASSUME NEW p \in Procs, FindSession(p) PROVE HandlersLeaveSession'
  <2>1. \A q \in Procs \ {p} : pc'[q] = pc[q] /\ evt'[q] = evt[q]
    BY <1>10 DEF FindSession, TypeOK
  <2>2. HandlerLeavesSession(p)'
    BY <1>10, <1>2 DEF FindSession, AfterFind, AfterSession, SessionRows, Known, HasEnded, Ended, HandlerLeavesSession, HandlersLeaveSession, SessionDone, TypeOK, Procs
  <2> QED
    BY <1>3, <2>1, <2>2 DEF HandlersLeaveSession
<1>11. ASSUME NEW p \in Procs, InsertSession(p) PROVE HandlersLeaveSession'
  <2>1. \A q \in Procs \ {p} : pc'[q] = pc[q] /\ evt'[q] = evt[q]
    BY <1>11 DEF InsertSession, Abort, Release, Goto, TypeOK
  <2>2. HandlerLeavesSession(p)'
    BY <1>11, <1>2 DEF InsertSession, AfterSession, Abort, Release, Goto, Known, HasEnded, Ended, HandlerLeavesSession, HandlersLeaveSession, SessionDone, TypeOK, Procs
  <2> QED
    BY <1>3, <2>1, <2>2 DEF HandlersLeaveSession
<1>12. ASSUME NEW p \in Procs, UpdateSession(p) PROVE HandlersLeaveSession'
  <2>1. \A q \in Procs \ {p} : pc'[q] = pc[q] /\ evt'[q] = evt[q]
    BY <1>12 DEF UpdateSession, Goto, TypeOK
  <2>2. HandlerLeavesSession(p)'
    BY <1>12, <1>2 DEF UpdateSession, StatusAfter, AfterUpdate, AfterSession, Goto, Known, HasEnded, Ended, HandlerLeavesSession, HandlersLeaveSession, SessionDone, TypeOK, Procs
  <2> QED
    BY <1>3, <2>1, <2>2 DEF HandlersLeaveSession
<1>13. ASSUME NEW p \in Procs, CloseOpen(p) PROVE HandlersLeaveSession'
  <2>1. \A q \in Procs \ {p} : pc'[q] = pc[q] /\ evt'[q] = evt[q]
    BY <1>13 DEF CloseOpen, Abort, Release, Goto, TypeOK
  <2>2. HandlerLeavesSession(p)'
    BY <1>13, <1>2 DEF CloseOpen, Abort, Release, Goto, Known, HasEnded, HandlerLeavesSession, HandlersLeaveSession, SessionDone, TypeOK, Procs
  <2> QED
    BY <1>3, <2>1, <2>2 DEF HandlersLeaveSession
<1>14. ASSUME NEW p \in Procs, OpenBinding(p) PROVE HandlersLeaveSession'
  <2>1. \A q \in Procs \ {p} : pc'[q] = pc[q] /\ evt'[q] = evt[q]
    BY <1>14 DEF OpenBinding, Abort, Release, Goto, TypeOK
  <2>2. HandlerLeavesSession(p)'
    BY <1>14, <1>2 DEF OpenBinding, Abort, Release, Goto, Known, HasEnded, HandlerLeavesSession, HandlersLeaveSession, SessionDone, TypeOK, Procs
  <2> QED
    BY <1>3, <2>1, <2>2 DEF HandlersLeaveSession
<1>15. ASSUME NEW p \in Procs, CloseOwn(p) PROVE HandlersLeaveSession'
  <2>1. \A q \in Procs \ {p} : pc'[q] = pc[q] /\ evt'[q] = evt[q]
    BY <1>15 DEF CloseOwn, Abort, Release, Goto, TypeOK
  <2>2. HandlerLeavesSession(p)'
    BY <1>15, <1>2 DEF CloseOwn, Abort, Release, Goto, Known, HasEnded, HandlerLeavesSession, HandlersLeaveSession, SessionDone, TypeOK, Procs
  <2> QED
    BY <1>3, <2>1, <2>2 DEF HandlersLeaveSession
<1>16. ASSUME NEW p \in Procs, Accrue(p) PROVE HandlersLeaveSession'
  <2>1. \A q \in Procs \ {p} : pc'[q] = pc[q] /\ evt'[q] = evt[q]
    BY <1>16 DEF Accrue, Goto, TypeOK
  <2>2. HandlerLeavesSession(p)'
    BY <1>16, <1>2 DEF Accrue, Goto, Known, HasEnded, HandlerLeavesSession, HandlersLeaveSession, SessionDone, TypeOK, Procs
  <2> QED
    BY <1>3, <2>1, <2>2 DEF HandlersLeaveSession
<1>17. ASSUME NEW p \in Procs, Mark(p) PROVE HandlersLeaveSession'
  <2>1. \A q \in Procs \ {p} : pc'[q] = pc[q] /\ evt'[q] = evt[q]
    BY <1>17 DEF Mark, Release, TypeOK
  <2>2. HandlerLeavesSession(p)'
    BY <1>17, <1>2 DEF Mark, Release, HandlerLeavesSession, HandlersLeaveSession, SessionDone, TypeOK, Procs
  <2> QED
    BY <1>3, <2>1, <2>2 DEF HandlersLeaveSession
<1>18. ASSUME NEW p \in Procs, Fault(p) PROVE HandlersLeaveSession'
  <2>1. \A q \in Procs \ {p} : pc'[q] = pc[q] /\ evt'[q] = evt[q]
    BY <1>18 DEF Fault, Abort, Release, TypeOK
  <2>2. HandlerLeavesSession(p)'
    BY <1>18, <1>2 DEF Fault, Abort, Release, HandlerLeavesSession, HandlersLeaveSession, SessionDone, TypeOK, Procs
  <2> QED
    BY <1>3, <2>1, <2>2 DEF HandlersLeaveSession
<1>19. CASE Restart
  BY <1>19 DEF HandlersLeaveSession, HandlerLeavesSession, Restart
<1> QED
  BY <1>4, <1>5, <1>6, <1>7, <1>8, <1>9, <1>10, <1>11, <1>12, <1>13, <1>14, <1>15, <1>16, <1>17, <1>18, <1>19 DEF Next, vars, Nas, NasStart,
     NasInterim, NasStop, Send, Handle, CatchUp, StartCatchUp, Normalise, procVars, Procs

\* Only Mark sets processed_at, at the end of a handler that has left its
\* session row in place.
LEMMA ProcessedNext ==
  ASSUME SessionInv, [Next]_vars
  PROVE  ProcessedLeavesSession'
<1> USE DEF SessionInv
<1>1. \A s \in Sessions : /\ Known(s) => Known(s)'
                          /\ HasEnded(s) => HasEnded(s)'
  BY RowsStay
<1>2. \A k \in Keys : k.sid \in Sessions
  BY SessionOfKey
<1>3. \A k \in Keys : raw'[k] = "done" =>
        \/ raw[k] = "done"
        \/ \E p \in Procs : Mark(p) /\ evt[p] = k
  <2>1. ASSUME NEW w \in Workers, InsertRaw(w), NEW k \in Keys, raw'[k] = "done"
        PROVE  raw[k] = "done"
    BY <2>1 DEF InsertRaw, rawVars, TypeOK
  <2>2. ASSUME NEW p \in Procs, Mark(p), NEW k \in Keys, raw'[k] = "done"
        PROVE  raw[k] = "done" \/ evt[p] = k
    BY <2>2 DEF Mark, TypeOK
  <2>3. \/ raw' = raw
        \/ \E w \in Workers : InsertRaw(w)
        \/ \E p \in Procs : Mark(p)
    BY DEF Next, vars, Nas, NasStart, NasInterim, NasStop, Send, Handle, Receive, Lookup,
           CatchUp, StartCatchUp, TakePending, Normalise, InsertAcct, FindSession,
           InsertSession, UpdateSession, CloseOpen, OpenBinding, CloseOwn, Accrue, Fault,
           Restart, Procs, rawVars
  <2> QED
    BY <2>1, <2>2, <2>3
<1>4. ASSUME NEW p \in Procs, Mark(p), evt[p].sid \notin Anonymous
      PROVE  /\ Known(evt[p].sid)
             /\ evt[p].kind = "STOP" => HasEnded(evt[p].sid)
  BY <1>4 DEF Mark, HandlersLeaveSession, HandlerLeavesSession, SessionDone
<1> SUFFICES ASSUME NEW k \in Keys, raw'[k] = "done", k.sid \notin Anonymous
             PROVE  /\ Known(k.sid)'
                    /\ k.kind = "STOP" => HasEnded(k.sid)'
  BY DEF ProcessedLeavesSession
<1>5. CASE raw[k] = "done"
  BY <1>1, <1>2, <1>5 DEF ProcessedLeavesSession
<1>6. ASSUME NEW p \in Procs, Mark(p), evt[p] = k
      PROVE  /\ Known(k.sid)'
             /\ k.kind = "STOP" => HasEnded(k.sid)'
  BY <1>1, <1>2, <1>4, <1>6
<1> QED
  BY <1>3, <1>5, <1>6

\* A processed event has left the session row it is about, and a processed
\* STOP an ended session.
THEOREM ProcessedEventsLeaveSession == Spec => []ProcessedLeavesSession
<1>1. Init => SessionInv
  BY SessionInit
<1>2. SessionInv /\ [Next]_vars => SessionInv'
  BY TypeNext, HandlersNext, ProcessedNext DEF SessionInv
<1>3. SessionInv => ProcessedLeavesSession
  BY DEF SessionInv
<1> QED
  BY <1>1, <1>2, <1>3, PTL DEF Spec

\* An event stored or in hand has a positive receipt time.
LEMMA TimesNext ==
  ASSUME TypeOK, TimesArePositive, [Next]_vars
  PROVE  TimesArePositive'
<1> USE DEF TimesArePositive
<1>1. ASSUME NEW w \in Workers, Lookup(w) PROVE TimesArePositive'
  BY <1>1 DEF Lookup, Goto, Release, rawVars, TypeOK, Procs
<1>2. ASSUME NEW w \in Workers, InsertRaw(w) PROVE TimesArePositive'
  BY <1>2 DEF InsertRaw, Goto, Release, rawVars, TypeOK, Procs
<1>3. ASSUME NEW w \in Workers, NEW k \in wire, Receive(w, k) PROVE TimesArePositive'
  BY <1>3 DEF Receive, rawVars, TypeOK, Procs
<1>4. ASSUME NEW r \in Runners, TakePending(r) PROVE TimesArePositive'
  BY <1>4 DEF TakePending, procVars, rawVars, TypeOK, Procs
<1>5. ASSUME NEW p \in Procs, InsertAcct(p) PROVE TimesArePositive'
  BY <1>5 DEF InsertAcct, AfterAcct, Goto, rawVars, TypeOK, Procs
<1>6. ASSUME NEW p \in Procs, FindSession(p) PROVE TimesArePositive'
  BY <1>6 DEF FindSession, rawVars, TypeOK, Procs
<1>7. ASSUME NEW p \in Procs, InsertSession(p) PROVE TimesArePositive'
  BY <1>7 DEF InsertSession, Abort, Release, Goto, rawVars, TypeOK, Procs
<1>8. ASSUME NEW p \in Procs, UpdateSession(p) PROVE TimesArePositive'
  BY <1>8 DEF UpdateSession, Goto, rawVars, TypeOK, Procs
<1>9. ASSUME NEW p \in Procs, CloseOpen(p) PROVE TimesArePositive'
  BY <1>9 DEF CloseOpen, Abort, Release, Goto, rawVars, TypeOK, Procs
<1>10. ASSUME NEW p \in Procs, OpenBinding(p) PROVE TimesArePositive'
  BY <1>10 DEF OpenBinding, Abort, Release, Goto, rawVars, TypeOK, Procs
<1>11. ASSUME NEW p \in Procs, CloseOwn(p) PROVE TimesArePositive'
  BY <1>11 DEF CloseOwn, Abort, Release, Goto, rawVars, TypeOK, Procs
<1>12. ASSUME NEW p \in Procs, Accrue(p) PROVE TimesArePositive'
  BY <1>12 DEF Accrue, Goto, rawVars, TypeOK, Procs
<1>13. ASSUME NEW p \in Procs, Mark(p) PROVE TimesArePositive'
  <2>1. evt[p] \in Keys /\ pc[p] = "mark"
    BY <1>13 DEF Mark, TypeOK
  <2>2. raw[evt[p]] # "none"
    BY <2>1
  <2> QED
    BY <1>13, <2>1, <2>2 DEF Mark, Release, TypeOK
<1>14. ASSUME NEW p \in Procs, Fault(p) PROVE TimesArePositive'
  BY <1>14 DEF Fault, Abort, Release, rawVars, TypeOK, Procs
<1>15. CASE Restart
  BY <1>15 DEF Restart, rawVars
<1>16. CASE UNCHANGED <<raw, at, pc, evt, obs>>
  BY <1>16
<1> QED
  BY <1>1, <1>2, <1>3, <1>4, <1>5, <1>6, <1>7, <1>8, <1>9, <1>10, <1>11, <1>12, <1>13, <1>14, <1>15, <1>16 DEF Next, vars, Nas, NasStart,
     NasInterim, NasStop, Send, Handle, CatchUp, StartCatchUp, Normalise, procVars, rawVars,
     Procs

-----------------------------------------------------------------------------
(* The packets of a session in order.  A handler has one event of a session *)
(* in hand, and no catch-up request replays an older one (Ordered).         *)

\* The packets of a session are ranked from its START to its STOP.
LEMMA Ranks ==
  ASSUME NEW k \in Keys
  PROVE  /\ Rank(k) \in Nat
         /\ Rank(k) <= MaxInterims + 1
         /\ k.kind = "START" => k = START(k.sid) /\ Rank(k) = 0
         /\ k.kind = "INTERIM" => k = INTERIM(k.sid, k.time) /\ Rank(k) = k.time
         /\ k.kind = "STOP" => k = STOP(k.sid)
         /\ k.kind # "STOP" => Rank(k) < MaxInterims + 1
         /\ k.kind # "START" => Rank(k) > 0
<1> USE ConstantsOK DEF ConstantsOK
<1>1. k.kind \in {"START", "INTERIM", "STOP"} /\ k.time \in 0..MaxInterims
  BY DEF Keys
<1>2. k = [sid |-> k.sid, kind |-> k.kind, time |-> k.time]
  BY DEF Keys
<1>3. k.kind = "INTERIM" <=> k.time > 0
  BY DEF Keys
<1> QED
  BY <1>1, <1>2, <1>3 DEF Rank, START, INTERIM, STOP

\* A START comes first and a STOP last.
LEMMA RankOfStop ==
  ASSUME NEW s \in Sessions
  PROVE  Rank(STOP(s)) = MaxInterims + 1 /\ Rank(START(s)) = 0
BY DEF Rank, STOP, START

\* Two packets of a session with one rank are the same.
LEMMA SameRank ==
  ASSUME NEW j \in Keys, NEW k \in Keys, j.sid = k.sid, Rank(j) = Rank(k)
  PROVE  j = k
<1>1. /\ j.kind \in {"START", "INTERIM", "STOP"} /\ j.time \in 0..MaxInterims
      /\ k.kind \in {"START", "INTERIM", "STOP"} /\ k.time \in 0..MaxInterims
  BY DEF Keys
<1>2. \A i \in {j, k} : /\ i.kind = "START" => Rank(i) = 0
                        /\ i.kind = "INTERIM" => Rank(i) = i.time /\ i.time > 0
                        /\ i.kind = "STOP" => Rank(i) = MaxInterims + 1
                        /\ i.kind # "STOP" => Rank(i) < MaxInterims + 1
                        /\ i.kind # "START" => Rank(i) > 0
  BY Ranks, RankOfStop, SessionOfKey DEF Keys
<1>3. j.kind = k.kind
  BY <1>1, <1>2, ConstantsOK DEF ConstantsOK
<1>4. j.kind = "INTERIM" => j.time = k.time
  BY <1>2, <1>3
<1> QED
  BY <1>1, <1>3, <1>4, Ranks

\* What one packet more does to those sent before.
LEMMA SentOneMore ==
  ASSUME TypeOK, SentInOrder, NEW s \in Sessions, NEW k \in Keys, k.sid = s, NEW n \in Nat,
         NEW st \in NasStates, st.phase # "off", Send(k, n), nas' = [nas EXCEPT ![s] = st],
         k \notin wire,
         \A j \in wire : j.sid = s => Rank(j) < Rank(k) /\ j.kind # "STOP",
         nas[s].phase # "off" => nas[s].bytes <= n, n <= st.bytes,
         st.updates >= nas[s].updates,
         k.kind = "START" \/ nas[s].phase # "off",
         k.kind = "STOP" => st.phase = "down",
         k.kind = "INTERIM" => k.time <= st.updates
  PROVE  SentInOrder'
<1> USE ConstantsOK DEF ConstantsOK
<1>1. /\ wire' = wire \union {k}
      /\ total' = [total EXCEPT ![k] = n]
      /\ total'[k] = n
      /\ \A j \in wire : total'[j] = total[j]
  BY DEF Send, TypeOK
<1>2. /\ nas'[s] = st
      /\ \A t \in Sessions : t # s => nas'[t] = nas[t]
      /\ \A t \in Sessions : nas[t] \in NasStates
  BY DEF TypeOK
<1>3. \A j \in wire : j \in Keys /\ j.sid \in Sessions /\ total[j] \in Nat
  BY SessionOfKey DEF TypeOK
<1>4. \A t \in Sessions : nas'[t].phase # "off" => START(t) \in wire'
  BY <1>1, <1>2, Ranks DEF SentInOrder
<1>5. \A j \in wire' : /\ nas'[j.sid].phase # "off"
                       /\ j.kind = "INTERIM" => j.time <= nas'[j.sid].updates
                       /\ j.kind = "STOP" => nas'[j.sid].phase = "down"
                       /\ total'[j] <= nas'[j.sid].bytes
  <2> SUFFICES ASSUME NEW j \in wire'
               PROVE /\ nas'[j.sid].phase # "off"
                     /\ j.kind = "INTERIM" => j.time <= nas'[j.sid].updates
                     /\ j.kind = "STOP" => nas'[j.sid].phase = "down"
                     /\ total'[j] <= nas'[j.sid].bytes
    OBVIOUS
  <2>1. CASE j = k
    BY <1>1, <1>2, <2>1
  <2>2. CASE j \in wire /\ j.sid # s
    BY <1>1, <1>2, <1>3, <2>2 DEF SentInOrder
  <2>3. CASE j \in wire /\ j.sid = s
    <3>1. j.time \in Nat /\ nas[s].updates \in Nat /\ st.updates \in Nat /\ nas[s].bytes \in Nat /\ st.bytes \in Nat
      BY <1>2, <1>3, <2>3 DEF Keys, NasStates
    <3> QED
      BY <1>1, <1>2, <1>3, <2>3, <3>1 DEF SentInOrder
  <2> QED
    BY <1>1, <2>1, <2>2, <2>3
<1>6. \A i, j \in wire' : i.sid = j.sid /\ Rank(i) <= Rank(j) => total'[i] <= total'[j]
  <2> SUFFICES ASSUME NEW i \in wire', NEW j \in wire', i.sid = j.sid, Rank(i) <= Rank(j)
               PROVE  total'[i] <= total'[j]
    OBVIOUS
  <2>0. Rank(i) \in Nat /\ Rank(j) \in Nat
    BY <1>1, <1>3, Ranks
  <2>1. CASE i \in wire /\ j \in wire
    BY <1>1, <1>3, <2>1 DEF SentInOrder
  <2>2. CASE j = k /\ i \in wire
    <3>1. i.sid = s
      BY <2>2
    <3>2. nas[s].phase # "off" /\ total[i] <= nas[s].bytes
      BY <2>2, <3>1 DEF SentInOrder
    <3>3. nas[s].bytes \in Nat /\ total[i] \in Nat
      BY <1>2, <1>3, <2>2 DEF NasStates
    <3>4. total[i] <= n
      BY <3>2, <3>3
    <3> QED
      BY <1>1, <2>2, <3>4
  <2>3. CASE i = k /\ j = k
    BY <1>1, <2>3
  <2>4. CASE i = k /\ j \in wire
    BY <2>0, <2>4
  <2> QED
    BY <1>1, <2>1, <2>2, <2>3, <2>4
<1> QED
  BY <1>4, <1>5, <1>6 DEF SentInOrder

\* The NAS sends each packet of a session once, and none after its STOP.
LEMMA SentNext ==
  ASSUME TypeOK, SentInOrder, [Next]_vars
  PROVE  SentInOrder'
<1> USE ConstantsOK DEF ConstantsOK
<1>0. \A s \in Sessions : nas[s] \in NasStates
  BY DEF TypeOK
<1>1. ASSUME NEW s \in Sessions, NasStart(s) PROVE SentInOrder'
  <2> DEFINE st == [nas[s] EXCEPT !.phase = "up"]
  <2>1. st \in NasStates /\ st.phase = "up" /\ st.bytes = nas[s].bytes /\ st.updates = nas[s].updates
    BY <1>0 DEF NasStates
  <2>2. nas' = [nas EXCEPT ![s] = st] /\ Send(START(s), 0)
    BY <1>1 DEF NasStart
  <2>3. START(s) \in Keys /\ START(s).sid = s /\ START(s).kind = "START"
    BY KeysOfSession DEF START
  <2>4. \A j \in wire : j.sid # s
    BY <1>1 DEF NasStart, SentInOrder
  <2>5. 0 \in Nat /\ 0 <= st.bytes /\ st.updates >= nas[s].updates
    BY <2>1, <1>0 DEF NasStates
  <2>6. nas[s].phase = "off" /\ START(s) \notin wire
    BY <1>1, <2>3, <2>4 DEF NasStart
  <2> QED
    BY <2>1, <2>2, <2>3, <2>4, <2>5, <2>6, SentOneMore
<1>2. ASSUME NEW s \in Sessions, NasInterim(s) PROVE SentInOrder'
  <2>1. PICK d \in Increments : /\ nas[s].phase = "up"
                                /\ nas[s].updates < MaxInterims
                                /\ nas' = [nas EXCEPT ![s].updates = @ + 1, ![s].bytes = @ + d]
                                /\ Send(INTERIM(s, nas[s].updates + 1), nas[s].bytes + d)
    BY <1>2 DEF NasInterim
  <2> DEFINE st == [nas[s] EXCEPT !.updates = @ + 1, !.bytes = @ + d]
             k == INTERIM(s, nas[s].updates + 1)
  <2>2. /\ st \in NasStates /\ st.phase = "up" /\ st.bytes = nas[s].bytes + d
        /\ st.updates = nas[s].updates + 1 /\ nas[s].updates \in 0..MaxInterims
        /\ nas[s].bytes \in Nat /\ d \in Nat
    <3>1. nas[s] \in [phase : {"off", "up", "down"}, updates : 0..MaxInterims, bytes : Nat]
      BY <1>0 DEF NasStates
    <3>2. d \in Nat
      OBVIOUS
    <3>3. st.phase = nas[s].phase /\ st.updates = nas[s].updates + 1 /\ st.bytes = nas[s].bytes + d
      BY <3>1
    <3>4. nas[s].updates + 1 \in 0..MaxInterims /\ nas[s].bytes + d \in Nat
      BY <2>1, <3>1, <3>2
    <3>5. st \in NasStates
      BY <3>1, <3>4 DEF NasStates
    <3> HIDE DEF st
    <3> QED
      BY <2>1, <3>1, <3>2, <3>3, <3>5
  <2>3. nas' = [nas EXCEPT ![s] = st]
    BY <2>1 DEF TypeOK
  <2>4. k \in Keys /\ k.sid = s /\ k.kind = "INTERIM" /\ k.time = nas[s].updates + 1
    BY <2>1, <2>2, KeysOfSession DEF INTERIM
  <2>5. Rank(k) = nas[s].updates + 1
    BY <2>4, Ranks
  <2>6. ASSUME NEW j \in wire, j.sid = s
        PROVE  Rank(j) < Rank(k) /\ j.kind # "STOP"
    <3>1. j \in Keys /\ j.kind \in {"START", "INTERIM", "STOP"} /\ j.kind # "STOP"
      BY <2>1, <2>6 DEF TypeOK, Keys, SentInOrder
    <3>2. j.kind = "INTERIM" => Rank(j) <= nas[s].updates
      BY <2>6, <3>1, Ranks DEF SentInOrder
    <3> QED
      BY <2>2, <2>5, <3>1, <3>2, Ranks
  <2>7. k \notin wire
    BY <2>4, <2>5, <2>6, <2>2
  <2>8. nas[s].bytes <= nas[s].bytes + d /\ nas[s].bytes + d \in Nat /\ k.time <= st.updates /\ st.updates >= nas[s].updates
    BY <2>2, <2>4
  <2> HIDE DEF st, k
  <2>9. Send(k, nas[s].bytes + d)
    BY <2>1 DEF k
  <2>10. k.kind # "STOP" /\ nas[s].phase # "off" /\ nas[s].bytes + d <= st.bytes /\ st.phase # "off"
    BY <2>1, <2>2, <2>4
  <2> QED
    BY <2>2, <2>3, <2>4, <2>6, <2>7, <2>8, <2>9, <2>10, SentOneMore
<1>3. ASSUME NEW s \in Sessions, NasStop(s) PROVE SentInOrder'
  <2>1. PICK d \in Increments : /\ nas[s].phase = "up"
                                /\ nas' = [nas EXCEPT ![s].phase = "down", ![s].bytes = @ + d]
                                /\ Send(STOP(s), nas[s].bytes + d)
    BY <1>3 DEF NasStop
  <2> DEFINE st == [nas[s] EXCEPT !.phase = "down", !.bytes = @ + d]
             k == STOP(s)
  <2>2. /\ st \in NasStates /\ st.phase = "down" /\ st.bytes = nas[s].bytes + d
        /\ st.updates = nas[s].updates /\ nas[s].updates \in Nat
        /\ nas[s].bytes \in Nat /\ d \in Nat
    <3>1. nas[s] \in [phase : {"off", "up", "down"}, updates : 0..MaxInterims, bytes : Nat]
      BY <1>0 DEF NasStates
    <3>2. d \in Nat
      OBVIOUS
    <3>3. st.phase = "down" /\ st.updates = nas[s].updates /\ st.bytes = nas[s].bytes + d
      BY <3>1
    <3>4. nas[s].updates \in Nat /\ nas[s].bytes + d \in Nat
      BY <3>1, <3>2
    <3>5. st \in NasStates
      BY <3>1, <3>4 DEF NasStates
    <3> HIDE DEF st
    <3> QED
      BY <3>1, <3>2, <3>3, <3>5
  <2>3. nas' = [nas EXCEPT ![s] = st]
    BY <2>1 DEF TypeOK
  <2>4. k \in Keys /\ k.sid = s /\ k.kind = "STOP"
    BY KeysOfSession DEF STOP
  <2>6. ASSUME NEW j \in wire, j.sid = s
        PROVE  Rank(j) < Rank(k) /\ j.kind # "STOP"
    <3>1. j \in Keys /\ j.kind # "STOP"
      BY <2>1, <2>6 DEF TypeOK, SentInOrder
    <3> QED
      BY <3>1, Ranks, RankOfStop
  <2>7. k \notin wire
    BY <2>4, <2>6
  <2>8. /\ nas[s].bytes <= nas[s].bytes + d /\ nas[s].bytes + d \in Nat /\ st.updates >= nas[s].updates
        /\ nas[s].bytes + d <= st.bytes
    BY <2>2, <2>4
  <2> HIDE DEF st, k
  <2>9. Send(k, nas[s].bytes + d)
    BY <2>1 DEF k
  <2>10. k.kind # "INTERIM" /\ nas[s].phase # "off" /\ st.phase # "off"
    BY <2>1, <2>2, <2>4
  <2> QED
    BY <2>2, <2>3, <2>4, <2>6, <2>7, <2>8, <2>9, <2>10, SentOneMore
<1>4. CASE UNCHANGED nasVars
  BY <1>4 DEF SentInOrder, nasVars
<1> QED
  BY <1>1, <1>2, <1>3, <1>4 DEF Next, vars, Nas, Handle, Receive, Lookup, InsertRaw, CatchUp,
     StartCatchUp, TakePending, Normalise, InsertAcct, FindSession, InsertSession, UpdateSession,
     CloseOpen, OpenBinding, CloseOwn, Accrue, Mark, Fault, Restart, nasVars

-----------------------------------------------------------------------------
\* The steps of a handler, once it has an event.
Handling(p) == Lookup(p) \/ InsertRaw(p) \/ Normalise(p) \/ Fault(p)

\* The handlers other than p stay where they are.
Others(p) ==
  \A q \in Procs \ {p} :
    pc'[q] = pc[q] /\ evt'[q] = evt[q] /\ obs'[q] = obs[q] /\ seen'[q] = seen[q]

\* A step of a handler is about its own event: it goes on with it or leaves it.
LEMMA HandlingSteps ==
  ASSUME TypeOK, NEW p \in Procs, Handling(p)
  PROVE  /\ UNCHANGED <<nasVars, clock>>
         /\ Busy(p) /\ Others(p)
         /\ \/ pc'[p] = "idle"
            \/ evt'[p] = evt[p] /\ obs'[p] = obs[p] /\ pc'[p] \notin {"lookup", "idle"}
         /\ \A k \in Keys : k # evt[p] => raw'[k] = raw[k]
         /\ raw[evt[p]] # "none" => raw'[evt[p]] # "none"
         /\ pc'[p] = "insertRaw" => raw'[evt[p]] = "none"
<1> USE DEF Others, nasVars, rawVars, Busy
<1>0. evt[p] \in Keys \/ pc[p] = "idle"
  BY DEF TypeOK
<1>1. CASE Lookup(p)
  BY <1>0, <1>1 DEF Lookup, Goto, Release, TypeOK
<1>2. CASE InsertRaw(p)
  BY <1>0, <1>2 DEF InsertRaw, Goto, Release, TypeOK
<1>3. CASE InsertAcct(p)
  BY <1>0, <1>3 DEF InsertAcct, AfterAcct, Goto, TypeOK
<1>4. CASE FindSession(p)
  BY <1>0, <1>4 DEF FindSession, AfterFind, AfterSession, TypeOK, Keys, SessionRows
<1>5. CASE InsertSession(p)
  BY <1>0, <1>5 DEF InsertSession, AfterSession, Abort, Release, Goto, TypeOK, Keys
<1>6. CASE UpdateSession(p)
  BY <1>0, <1>6 DEF UpdateSession, AfterUpdate, AfterSession, Goto, TypeOK, Keys
<1>7. CASE CloseOpen(p)
  BY <1>0, <1>7 DEF CloseOpen, Abort, Release, Goto, TypeOK
<1>8. CASE OpenBinding(p)
  BY <1>0, <1>8 DEF OpenBinding, Abort, Release, Goto, TypeOK
<1>9. CASE CloseOwn(p)
  BY <1>0, <1>9 DEF CloseOwn, Abort, Release, Goto, TypeOK
<1>10. CASE Accrue(p)
  BY <1>0, <1>10 DEF Accrue, Goto, TypeOK
<1>11. CASE Mark(p)
  BY <1>0, <1>11 DEF Mark, Release, TypeOK
<1>12. CASE Fault(p)
  BY <1>0, <1>12 DEF Fault, Abort, Release, TypeOK
<1> QED
  BY <1>1, <1>2, <1>3, <1>4, <1>5, <1>6, <1>7, <1>8, <1>9, <1>10, <1>11, <1>12 DEF Handling, Normalise

\* Without catch-up requests a step is the NAS's, a packet's, a handler's or
\* a restart.
LEMMA StepsWithoutReplay ==
  ASSUME Runners = {}, [Next]_vars
  PROVE  \/ \E s \in Sessions : Nas(s)
         \/ \E p \in Procs, k \in wire : Receive(p, k)
         \/ \E p \in Procs : Handling(p)
         \/ Restart
         \/ UNCHANGED vars
BY DEF Next, Handle, Handling, CatchUp, Procs

\* The same where the packets come in order.
LEMMA Steps ==
  ASSUME Ordered, [Next]_vars
  PROVE  \/ \E s \in Sessions : Nas(s)
         \/ \E p \in Procs, k \in wire : Receive(p, k)
         \/ \E p \in Procs : Handling(p)
         \/ Restart
         \/ UNCHANGED vars
BY StepsWithoutReplay DEF Ordered

\* A NAS adds packets to those sent and leaves the tables and the handlers alone.
LEMMA NasSteps ==
  ASSUME NEW s \in Sessions, Nas(s)
  PROVE  /\ UNCHANGED <<clock, rawVars, acctRows, sess, bindings, accrued, charges,
                        procVars, todo, catchUps, faults>>
         /\ wire \subseteq wire'
BY DEF Nas, NasStart, NasInterim, NasStop, Send

\* A session keeps one event in hand, and none is stored before an older one in
\* hand is left.
LEMMA HandledNext ==
  ASSUME TypeOK, SentInOrder, HandledInOrder, Ordered, [Next]_vars
  PROVE  HandledInOrder'
<1>0. \A k \in wire : k \in Keys
  BY DEF TypeOK
<1>1. ASSUME NEW s \in Sessions, Nas(s) PROVE HandledInOrder'
  <2>1. raw' = raw /\ pc' = pc /\ evt' = evt /\ wire \subseteq wire'
    BY <1>1, NasSteps DEF rawVars, procVars
  <2>2. \A k \in wire' : k \in Keys /\ (k \in wire \/ raw[k] = "none")
    BY TypeNext DEF HandledInOrder, TypeOK
  <2>3. \A k \in Keys : raw'[k] # "none" => k \in wire'
    BY <2>1 DEF HandledInOrder
  <2>4. ASSUME NEW p \in Procs, Busy(p)'
        PROVE  /\ evt'[p] \in wire'
               /\ pc'[p] = "insertRaw" => raw'[evt'[p]] = "none"
               /\ \A j \in wire' : j.sid = evt'[p].sid /\ Rank(j) > Rank(evt'[p]) => raw'[j] = "none"
    BY <2>1, <2>2, <2>4 DEF HandledInOrder, Busy
  <2>5. \A p, q \in Procs : Busy(p)' /\ Busy(q)' /\ evt'[p].sid = evt'[q].sid => p = q
    BY <2>1 DEF HandledInOrder, Busy
  <2> QED
    BY <2>3, <2>4, <2>5 DEF HandledInOrder
<1>2. ASSUME NEW p \in Procs, NEW k \in wire, Receive(p, k) PROVE HandledInOrder'
  BY <1>0, <1>2 DEF HandledInOrder, Receive, Deliverable, InHand, Ordered, nasVars, rawVars, Busy, TypeOK
<1>3. ASSUME NEW p \in Procs, Handling(p) PROVE HandledInOrder'
  <2>1. evt[p] \in Keys /\ evt[p] \in wire
    BY <1>3, HandlingSteps DEF HandledInOrder, Busy, TypeOK
  <2>2. \A k \in Keys : raw'[k] # "none" => k \in wire'
    BY <1>3, <2>1, HandlingSteps DEF HandledInOrder, nasVars
  <2>3. \A q, r \in Procs : Busy(q)' /\ Busy(r)' /\ evt'[q].sid = evt'[r].sid => q = r
    BY <1>3, <2>1, HandlingSteps DEF HandledInOrder, Busy, Others
  <2>4. ASSUME NEW q \in Procs, Busy(q)'
        PROVE  /\ evt'[q] \in wire'
               /\ pc'[q] = "insertRaw" => raw'[evt'[q]] = "none"
               /\ \A j \in wire' : j.sid = evt'[q].sid /\ Rank(j) > Rank(evt'[q]) => raw'[j] = "none"
    <3>1. CASE q = p
      <4>1. evt'[p] = evt[p] /\ wire' = wire
        BY <1>3, <2>4, <3>1, HandlingSteps DEF Busy, nasVars
      <4>2. \A j \in wire : Rank(j) > Rank(evt[p]) => raw'[j] = raw[j]
        BY <1>0, <1>3, <2>1, HandlingSteps, Ranks
      <4> QED
        BY <1>3, <2>1, <3>1, <4>1, <4>2, HandlingSteps DEF HandledInOrder
    <3>2. CASE q # p
      <4>1. evt'[q] = evt[q] /\ wire' = wire /\ pc'[q] = pc[q] /\ Busy(q) /\ evt[q] \in Keys
        BY <1>3, <2>4, <3>2, HandlingSteps DEF Busy, nasVars, Others, TypeOK
      <4>2. evt[q].sid # evt[p].sid
        BY <1>3, <3>2, <4>1, HandlingSteps DEF HandledInOrder
      <4>3. \A j \in wire : j.sid = evt[q].sid => raw'[j] = raw[j]
        BY <1>0, <1>3, <2>1, <4>2, HandlingSteps
      <4> QED
        BY <4>1, <4>3 DEF HandledInOrder
    <3> QED
      BY <3>1, <3>2
  <2> QED
    BY <2>2, <2>3, <2>4 DEF HandledInOrder
<1>4. CASE Restart
  BY <1>4 DEF HandledInOrder, Restart, nasVars, rawVars, Busy
<1>5. CASE UNCHANGED vars
  BY <1>5 DEF HandledInOrder, vars, Busy
<1> QED
  BY <1>1, <1>2, <1>3, <1>4, <1>5, Steps

\* What every step of this part preserves beyond ProcessedLeavesSession.
OrderInv == SessionInv /\ TimesArePositive /\ SentInOrder /\ HandledInOrder /\ RowsAsRead

\* A packet once sent keeps its total.
LEMMA TotalsStay ==
  ASSUME TypeOK, SentInOrder, Ordered, [Next]_vars, NEW k \in wire
  PROVE  k \in wire' /\ total'[k] = total[k]
<1> USE ConstantsOK DEF ConstantsOK
<1>0. \A j \in wire : j \in Keys
  BY DEF TypeOK
<1>1. ASSUME NEW s \in Sessions, Nas(s) PROVE k \in wire' /\ total'[k] = total[k]
  <2>1. CASE NasStart(s)
    BY <1>0, <2>1 DEF NasStart, Send, SentInOrder, START, TypeOK
  <2>2. CASE NasInterim(s)
    <3>1. PICK d \in Increments : /\ nas[s].phase = "up"
                                  /\ Send(INTERIM(s, nas[s].updates + 1), nas[s].bytes + d)
      BY <2>2 DEF NasInterim
    <3>2. k # INTERIM(s, nas[s].updates + 1)
      <4>1. nas[s].updates \in Nat
        BY DEF TypeOK, NasStates
      <4> SUFFICES ASSUME k = INTERIM(s, nas[s].updates + 1) PROVE FALSE
        OBVIOUS
      <4>2. k.sid = s /\ k.kind = "INTERIM" /\ k.time = nas[s].updates + 1
        BY DEF INTERIM
      <4>3. k.time <= nas[s].updates
        BY <4>2 DEF SentInOrder
      <4> QED
        BY <4>1, <4>2, <4>3
    <3> QED
      BY <1>0, <3>1, <3>2 DEF Send, TypeOK
  <2>3. CASE NasStop(s)
    BY <1>0, <2>3 DEF NasStop, Send, SentInOrder, STOP, TypeOK
  <2> QED
    BY <1>1, <2>1, <2>2, <2>3 DEF Nas
<1>2. CASE UNCHANGED nasVars
  BY <1>2 DEF nasVars
<1> QED
  BY <1>1, <1>2, Steps, HandlingSteps DEF Receive, Restart, vars, nasVars

\* A handler writes the rows of the session in its hand only.
LEMMA OwnSession ==
  ASSUME TypeOK, NEW p \in Procs, Handling(p)
  PROVE  \A s \in Sessions : s # evt[p].sid => sess'[s] = sess[s] /\ accrued'[s] = accrued[s]
<1>1. evt[p] \in Keys /\ evt[p].sid \in Sessions
  BY HandlingSteps, SessionOfKey DEF TypeOK, Busy
<1> QED
  BY <1>1 DEF TypeOK, Handling, Normalise, Lookup, InsertRaw, InsertAcct, FindSession, InsertSession,
     UpdateSession, CloseOpen, OpenBinding, CloseOwn, Accrue, Mark, Fault

\* While a handler makes a step the others hold events of other sessions.
LEMMA OthersApart ==
  ASSUME TypeOK, HandledInOrder, NEW p \in Procs, Handling(p), NEW q \in Procs, q # p, Busy(q)'
  PROVE  /\ Busy(q) /\ pc'[q] = pc[q] /\ evt'[q] = evt[q] /\ obs'[q] = obs[q] /\ seen'[q] = seen[q]
         /\ evt[q] \in Keys /\ evt[q] \in wire /\ evt[q].sid \in Sessions
         /\ evt[q].sid # evt[p].sid
<1>1. Busy(q) /\ pc'[q] = pc[q] /\ evt'[q] = evt[q] /\ obs'[q] = obs[q] /\ seen'[q] = seen[q] /\ Busy(p)
  BY HandlingSteps DEF Others, Busy
<1>2. evt[q] \in Keys /\ evt[q].sid \in Sessions
  BY <1>1, SessionOfKey DEF TypeOK, Busy
<1> QED
  BY <1>1, <1>2 DEF HandledInOrder

\* What a step of a handler leaves in the row of its own session.
LEMMA OwnRow ==
  ASSUME OrderInv, NEW p \in Procs, Handling(p)
  PROVE  /\ sess'[evt[p].sid].status = "NONE" => sess'[evt[p].sid].bytes = 0
         /\ evt[p].sid \in Anonymous => sess'[evt[p].sid].status = "NONE"
<1> USE DEF OrderInv, SessionInv, Busy, Known
<1>1. evt[p] \in Keys /\ evt[p].sid \in Sessions /\ Busy(p) /\ sess[evt[p].sid] \in SessionRows
  BY HandlingSteps, SessionOfKey DEF TypeOK
<1>2. CASE sess' = sess
  BY <1>1, <1>2 DEF RowsAsRead
<1>3. CASE InsertSession(p) /\ sess' # sess
  <2>1. evt[p].sid \notin Anonymous
    BY <1>1, <1>3 DEF InsertSession, RowsAsRead
  <2> QED
    BY <1>1, <1>3, <2>1 DEF InsertSession, TypeOK
<1>4. CASE UpdateSession(p)
  <2>1. evt[p].sid \notin Anonymous /\ sess[evt[p].sid].status # "NONE"
    BY <1>1, <1>4 DEF UpdateSession, RowsAsRead, HandlersLeaveSession, HandlerLeavesSession
  <2>2. sess'[evt[p].sid].status # "NONE"
    BY <1>1, <1>4, <2>1 DEF UpdateSession, StatusAfter, TypeOK, SessionRows
  <2> QED
    BY <2>1, <2>2
<1> QED
  BY <1>2, <1>3, <1>4 DEF Handling, Normalise, Lookup, InsertRaw, InsertAcct, FindSession, InsertSession,
     CloseOpen, OpenBinding, CloseOwn, Accrue, Mark, Fault

\* A handler that goes on to the session row has read it as it is.
LEMMA OwnRowAsRead ==
  ASSUME OrderInv, NEW p \in Procs, Handling(p), Busy(p)'
  PROVE  /\ pc'[p] \notin {"lookup", "insertRaw", "insertAcct", "mark"} => evt[p].sid \notin Anonymous
         /\ pc'[p] \in {"insertSession", "updateSession"} => seen'[p] = sess'[evt[p].sid]
         /\ pc'[p] = "insertSession" => seen'[p].status = "NONE"
<1> USE DEF OrderInv, SessionInv, Busy
<1>1. evt[p] \in Keys /\ evt[p].sid \in Sessions /\ Busy(p) /\ pc'[p] # "idle"
  BY HandlingSteps, SessionOfKey DEF TypeOK
<1>2. pc[p] \notin {"lookup", "insertRaw", "insertAcct", "mark"} => evt[p].sid \notin Anonymous
  BY <1>1 DEF RowsAsRead
<1>3. CASE Lookup(p)
  BY <1>1, <1>3 DEF Lookup, Goto, Release, TypeOK
<1>4. CASE InsertRaw(p)
  BY <1>1, <1>4 DEF InsertRaw, Goto, Release, TypeOK
<1>5. CASE InsertAcct(p)
  BY <1>1, <1>5 DEF InsertAcct, AfterAcct, Goto, TypeOK
<1>6. CASE FindSession(p)
  <2>1. evt[p].sid \notin Anonymous
    BY <1>2, <1>6 DEF FindSession
  <2> QED
    BY <1>1, <1>6, <2>1 DEF FindSession, AfterFind, AfterSession, TypeOK, Keys, SessionRows
<1>7. CASE InsertSession(p)
  BY <1>1, <1>2, <1>7 DEF InsertSession, AfterSession, Abort, Release, Goto, TypeOK, Keys
<1>8. CASE UpdateSession(p)
  BY <1>1, <1>2, <1>8 DEF UpdateSession, AfterUpdate, AfterSession, Goto, TypeOK, Keys
<1>9. CASE CloseOpen(p)
  BY <1>1, <1>2, <1>9 DEF CloseOpen, Abort, Release, Goto, TypeOK
<1>10. CASE OpenBinding(p)
  BY <1>1, <1>2, <1>10 DEF OpenBinding, Abort, Release, Goto, TypeOK
<1>11. CASE CloseOwn(p)
  BY <1>1, <1>2, <1>11 DEF CloseOwn, Abort, Release, Goto, TypeOK
<1>12. CASE Accrue(p)
  BY <1>1, <1>2, <1>12 DEF Accrue, Goto, TypeOK
<1>13. CASE Mark(p)
  BY <1>1, <1>13 DEF Mark, Release, TypeOK
<1>14. CASE Fault(p)
  BY <1>1, <1>14 DEF Fault, Abort, Release, TypeOK
<1> QED
  BY <1>3, <1>4, <1>5, <1>6, <1>7, <1>8, <1>9, <1>10, <1>11, <1>12, <1>13, <1>14 DEF Handling, Normalise

\* Handlers read and write rows of their own session only, so what one has read
\* stays as it was.
LEMMA RowsNext ==
  ASSUME OrderInv, Ordered, [Next]_vars
  PROVE  RowsAsRead'
<1> USE DEF OrderInv, SessionInv
<1>0. \A p \in Procs : Busy(p) => evt[p] \in Keys /\ evt[p].sid \in Sessions
  BY SessionOfKey DEF TypeOK, Busy
<1>1. ASSUME NEW s \in Sessions, Nas(s) PROVE RowsAsRead'
  BY <1>1, NasSteps DEF RowsAsRead, procVars, Busy, Known
<1>2. ASSUME NEW p \in Procs, NEW k \in wire, Receive(p, k) PROVE RowsAsRead'
  BY <1>2 DEF RowsAsRead, Receive, Busy, Known, TypeOK
<1>3. ASSUME NEW p \in Procs, Handling(p) PROVE RowsAsRead'
  <2>1. Busy(p) /\ evt[p].sid \in Sessions
    BY <1>0, <1>3, HandlingSteps
  <2>2. \A s \in Sessions : ~Known(s)' => sess'[s].bytes = 0
    BY <1>3, <2>1, OwnRow, OwnSession DEF RowsAsRead, Known
  <2>3. \A s \in Anonymous : ~Known(s)'
    BY <1>3, <2>1, OwnRow, OwnSession, ConstantsOK DEF RowsAsRead, Known, ConstantsOK
  <2>4. ASSUME NEW q \in Procs, Busy(q)'
        PROVE  /\ pc'[q] \notin {"lookup", "insertRaw", "insertAcct", "mark"} => evt'[q].sid \notin Anonymous
               /\ pc'[q] \in {"insertSession", "updateSession"} => seen'[q] = sess'[evt'[q].sid]
               /\ pc'[q] = "insertSession" => seen'[q].status = "NONE"
    <3>1. CASE q = p
      <4>1. evt'[p] = evt[p]
        BY <1>3, <2>4, <3>1, HandlingSteps DEF Busy
      <4> QED
        BY <1>3, <2>4, <3>1, <4>1, OwnRowAsRead
    <3>2. CASE q # p
      BY <1>3, <2>4, <3>2, OthersApart, OwnSession DEF RowsAsRead
    <3> QED
      BY <3>1, <3>2
  <2> QED
    BY <2>2, <2>3, <2>4 DEF RowsAsRead
<1>4. CASE Restart
  BY <1>4 DEF RowsAsRead, Restart, Busy, Known
<1>5. CASE UNCHANGED vars
  BY <1>5 DEF RowsAsRead, vars, Busy, Known
<1> QED
  BY <1>1, <1>2, <1>3, <1>4, <1>5, Steps

\* The invariant of the ordered pipeline, whatever the constants.
LEMMA OrderInit == Init => OrderInv
BY SessionInit, ConstantsOK DEF Init, OrderInv, TimesArePositive, SentInOrder, HandledInOrder, RowsAsRead,
   Busy, Known, NoRow, ConstantsOK

\* Every step keeps the order of the events, the row each handler has read and
\* the receipt times.
LEMMA OrderNext ==
  ASSUME OrderInv, Ordered, [Next]_vars
  PROVE  OrderInv'
<1>1. SessionInv' /\ TimesArePositive'
  BY TypeNext, HandlersNext, ProcessedNext, TimesNext DEF OrderInv, SessionInv
<1> QED
  BY <1>1, SentNext, HandledNext, RowsNext DEF OrderInv, SessionInv

-----------------------------------------------------------------------------
(* What is charged.                                                        *)

\* A step of a handler charges its session for no more than it has stored, and
\* stores no more than its event carries.
LEMMA OwnCharge ==
  ASSUME OrderInv, NoneOvercharged, NEW p \in Procs, Handling(p)
  PROVE  /\ accrued'[evt[p].sid] <= sess'[evt[p].sid].bytes
         /\ sess'[evt[p].sid].bytes <= total[evt[p]]
         /\ \/ sess'[evt[p].sid].bytes \in {0, sess[evt[p].sid].bytes}
            \/ sess'[evt[p].sid].bytes = total[evt[p]] /\ raw[evt[p]] # "none"
         /\ pc'[p] \in Owing =>
              /\ accrued'[evt[p].sid] <= seen'[p].bytes
              /\ seen'[p].bytes <= total[evt[p]]
              /\ sess'[evt[p].sid].bytes = total[evt[p]]
<1> USE DEF OrderInv, SessionInv, Busy
<1>1. /\ evt[p] \in Keys /\ evt[p].sid \in Sessions /\ Busy(p)
      /\ total[evt[p]] \in Nat /\ accrued[evt[p].sid] \in Nat /\ seen[p].bytes \in Nat
      /\ sess[evt[p].sid] \in SessionRows /\ sess[evt[p].sid].bytes \in Nat
  BY HandlingSteps, SessionOfKey DEF TypeOK, SessionRows
<1>2. /\ accrued[evt[p].sid] <= sess[evt[p].sid].bytes
      /\ sess[evt[p].sid].bytes <= total[evt[p]]
  BY <1>1 DEF NoneOvercharged
<1>3. pc[p] \in Owing =>
        /\ accrued[evt[p].sid] <= seen[p].bytes
        /\ seen[p].bytes <= total[evt[p]]
        /\ sess[evt[p].sid].bytes = total[evt[p]]
  BY <1>1 DEF NoneOvercharged
<1>4. ASSUME sess' = sess, accrued' = accrued, pc'[p] \notin Owing
      PROVE  sess'[evt[p].sid].bytes = sess[evt[p].sid].bytes /\ accrued'[evt[p].sid] = accrued[evt[p].sid]
  BY <1>4
<1>5. CASE InsertSession(p)
  <2>1. /\ sess[evt[p].sid].bytes = 0 /\ seen[p].bytes = 0 /\ sess[evt[p].sid].status = "NONE"
        /\ raw[evt[p]] # "none"
    BY <1>1, <1>5 DEF InsertSession, RowsAsRead, Known, TimesArePositive
  <2>2. /\ sess'[evt[p].sid].bytes = (IF evt[p].kind = "START" THEN 0 ELSE total[evt[p]])
        /\ accrued'[evt[p].sid] = accrued[evt[p].sid]
        /\ seen'[p] = seen[p]
        /\ pc'[p] \in Owing => evt[p].kind = "STOP"
    BY <1>1, <1>5, <2>1 DEF InsertSession, AfterSession, Goto, TypeOK, Keys, Owing
  <2>3. accrued[evt[p].sid] = 0
    BY <1>1, <1>2, <2>1
  <2> QED
    BY <1>1, <2>1, <2>2, <2>3
<1>6. CASE UpdateSession(p)
  <2>1. seen[p] = sess[evt[p].sid] /\ raw[evt[p]] # "none"
    BY <1>1, <1>6 DEF UpdateSession, RowsAsRead, TimesArePositive
  <2>2. /\ sess'[evt[p].sid].bytes = total[evt[p]]
        /\ accrued'[evt[p].sid] = accrued[evt[p].sid]
        /\ seen'[p] = seen[p]
    BY <1>1, <1>6 DEF UpdateSession, Goto, TypeOK, SessionRows
  <2> QED
    BY <1>1, <1>2, <2>1, <2>2
<1>7. CASE Accrue(p)
  <2>1. /\ sess'[evt[p].sid] = sess[evt[p].sid] /\ pc'[p] = "mark"
        /\ accrued'[evt[p].sid] = accrued[evt[p].sid] + Delta(evt[p], seen[p])
        /\ pc[p] \in Owing
    BY <1>1, <1>7 DEF Accrue, Goto, TypeOK, Owing
  <2>2. accrued'[evt[p].sid] <= total[evt[p]]
    BY <1>1, <1>3, <2>1 DEF Delta
  <2> QED
    BY <1>1, <1>2, <1>3, <2>1, <2>2 DEF Owing
<1>8. CASE CloseOwn(p)
  BY <1>1, <1>2, <1>3, <1>8 DEF CloseOwn, Abort, Release, Goto, TypeOK, Owing
<1>9. CASE FindSession(p)
  <2>1. pc'[p] \notin Owing
    BY <1>1, <1>9 DEF FindSession, AfterFind, AfterSession, TypeOK, Owing, Keys, SessionRows
  <2> QED
    BY <1>1, <1>2, <1>4, <1>9, <2>1 DEF FindSession
<1>10. CASE Lookup(p) \/ InsertRaw(p) \/ InsertAcct(p) \/ CloseOpen(p) \/ OpenBinding(p) \/ Mark(p) \/ Fault(p)
  <2>1. pc'[p] \notin Owing
    BY <1>1, <1>10 DEF Lookup, InsertRaw, InsertAcct, AfterAcct, CloseOpen, OpenBinding, Mark, Fault, Abort, Release,
       Goto, TypeOK, Owing
  <2>2. sess' = sess /\ accrued' = accrued
    BY <1>10 DEF Lookup, InsertRaw, InsertAcct, CloseOpen, OpenBinding, Mark, Fault
  <2> QED
    BY <1>1, <1>2, <1>4, <2>1, <2>2
<1> QED
  BY <1>5, <1>6, <1>7, <1>8, <1>9, <1>10 DEF Handling, Normalise

\* A packet meets a session whose stored total is that of an earlier packet.
LEMMA ReceivedIsNewest ==
  ASSUME OrderInv, NoneOvercharged, Ordered, NEW p \in Procs, NEW k \in wire, Receive(p, k)
  PROVE  sess[k.sid].bytes <= total[k] /\ ~InHand(k.sid)
<1> USE DEF OrderInv, SessionInv
<1>1. k \in Keys /\ k.sid \in Sessions /\ total[k] \in Nat
  BY SessionOfKey DEF TypeOK
<1>2. /\ ~InHand(k.sid)
      /\ \A j \in wire : j.sid = k.sid /\ Rank(j) > Rank(k) => raw[j] = "none"
  BY DEF Receive, Deliverable, Ordered
<1>3. CASE sess[k.sid].bytes = 0
  BY <1>1, <1>2, <1>3
<1>4. ASSUME NEW j \in wire, j.sid = k.sid, raw[j] # "none", sess[k.sid].bytes = total[j]
      PROVE  sess[k.sid].bytes <= total[k]
  <2>1. j \in Keys /\ Rank(j) \in Nat /\ Rank(k) \in Nat
    BY <1>1, Ranks DEF TypeOK
  <2>2. Rank(j) <= Rank(k)
    BY <1>2, <1>4, <2>1
  <2> QED
    BY <1>4, <2>2 DEF SentInOrder
<1> QED
  BY <1>1, <1>2, <1>3, <1>4 DEF NoneOvercharged

\* A session is never charged for more than is stored for it.
LEMMA ChargesNext ==
  ASSUME OrderInv, NoneOvercharged, Ordered, [Next]_vars
  PROVE  NoneOvercharged'
<1> USE DEF OrderInv, SessionInv
<1>0. \A p \in Procs : Busy(p) => evt[p] \in Keys /\ evt[p] \in wire /\ evt[p].sid \in Sessions
  BY SessionOfKey DEF TypeOK, Busy, HandledInOrder
<1>00. \A k \in wire : k \in Keys /\ k \in wire' /\ total'[k] = total[k]
  BY TotalsStay DEF TypeOK
<1>1. ASSUME NEW s \in Sessions, Nas(s) PROVE NoneOvercharged'
  <2>1. raw' = raw /\ pc' = pc /\ evt' = evt /\ seen' = seen /\ sess' = sess /\ accrued' = accrued
    BY <1>1, NasSteps DEF rawVars, procVars
  <2>2. \A t \in Sessions :
          /\ accrued'[t] <= sess'[t].bytes
          /\ \/ sess'[t].bytes = 0
             \/ \E k \in wire' : k.sid = t /\ raw'[k] # "none" /\ sess'[t].bytes = total'[k]
    BY <2>1, <1>00 DEF NoneOvercharged
  <2>3. ASSUME NEW q \in Procs, Busy(q)'
        PROVE  /\ sess'[evt'[q].sid].bytes <= total'[evt'[q]]
               /\ pc'[q] \in Owing =>
                    /\ accrued'[evt'[q].sid] <= seen'[q].bytes
                    /\ seen'[q].bytes <= total'[evt'[q]]
                    /\ sess'[evt'[q].sid].bytes = total'[evt'[q]]
    <3>1. Busy(q)
      BY <2>1, <2>3 DEF Busy
    <3>2. total'[evt'[q]] = total[evt[q]]
      BY <1>0, <1>00, <2>1, <3>1
    <3> QED
      BY <2>1, <3>1, <3>2 DEF NoneOvercharged
  <2> QED
    BY <2>2, <2>3 DEF NoneOvercharged
<1>2. ASSUME NEW p \in Procs, NEW k \in wire, Receive(p, k) PROVE NoneOvercharged'
  <2>1. sess[k.sid].bytes <= total[k]
    BY <1>2, ReceivedIsNewest
  <2>2. /\ raw' = raw /\ sess' = sess /\ accrued' = accrued /\ total' = total /\ wire' = wire /\ seen' = seen
        /\ pc'[p] = "lookup" /\ evt'[p] = k
        /\ \A q \in Procs \ {p} : pc'[q] = pc[q] /\ evt'[q] = evt[q]
    BY <1>2 DEF Receive, nasVars, rawVars, TypeOK
  <2> QED
    BY <2>1, <2>2 DEF NoneOvercharged, Busy, Owing
<1>3. ASSUME NEW p \in Procs, Handling(p) PROVE NoneOvercharged'
  <2>1. Busy(p) /\ evt[p] \in Keys /\ evt[p] \in wire /\ evt[p].sid \in Sessions /\ total' = total /\ wire' = wire
    BY <1>0, <1>3, HandlingSteps DEF nasVars
  <2>2. \A k \in wire : raw[k] # "none" => raw'[k] # "none"
    BY <1>00, <1>3, HandlingSteps
  <2>3. ASSUME NEW s \in Sessions
        PROVE  /\ accrued'[s] <= sess'[s].bytes
               /\ sess'[s].bytes = 0
                  \/ \E k \in wire' : k.sid = s /\ raw'[k] # "none" /\ sess'[s].bytes = total'[k]
    <3>1. CASE s # evt[p].sid
      BY <1>3, <2>1, <2>2, <3>1, OwnSession DEF NoneOvercharged
    <3>2. CASE s = evt[p].sid
      BY <1>3, <2>1, <2>2, <3>2, OwnCharge DEF NoneOvercharged
    <3> QED
      BY <3>1, <3>2
  <2>4. ASSUME NEW q \in Procs, Busy(q)'
        PROVE  /\ sess'[evt'[q].sid].bytes <= total'[evt'[q]]
               /\ pc'[q] \in Owing =>
                    /\ accrued'[evt'[q].sid] <= seen'[q].bytes
                    /\ seen'[q].bytes <= total'[evt'[q]]
                    /\ sess'[evt'[q].sid].bytes = total'[evt'[q]]
    <3>1. CASE q = p
      <4>1. evt'[p] = evt[p]
        BY <1>3, <2>4, <3>1, HandlingSteps DEF Busy
      <4> QED
        BY <1>3, <2>1, <3>1, <4>1, OwnCharge
    <3>2. CASE q # p
      BY <1>3, <2>1, <2>4, <3>2, OthersApart, OwnSession DEF NoneOvercharged
    <3> QED
      BY <3>1, <3>2
  <2> QED
    BY <2>3, <2>4 DEF NoneOvercharged
<1>4. CASE Restart
  BY <1>4 DEF NoneOvercharged, Restart, Busy, Owing, nasVars, rawVars
<1>5. CASE UNCHANGED vars
  BY <1>5 DEF NoneOvercharged, vars, Busy
<1> QED
  BY <1>1, <1>2, <1>3, <1>4, <1>5, Steps

\* Every step of the pipeline counts, bills or does neither.
LEMMA BillingStep ==
  ASSUME OrderInv, NoneOvercharged, TypeOK', Ordered, [Next]_vars
  PROVE  [Billing!Next]_(Billing!vars)
<1> USE DEF OrderInv, SessionInv
<1>0. /\ nas \in [Sessions -> NasStates] /\ accrued \in [Sessions -> Nat]
      /\ nas' \in [Sessions -> NasStates] /\ accrued' \in [Sessions -> Nat]
  BY DEF TypeOK
<1>1. CASE UNCHANGED <<nas, accrued>>
  BY <1>1 DEF Billing!vars
<1>2. ASSUME NEW s \in Sessions, accrued' = accrued,
             \A t \in Sessions : t # s => nas'[t] = nas[t],
             nas'[s].bytes >= nas[s].bytes
      PROVE  [Billing!Next]_(Billing!vars)
  <2>1. CASE s \in Identified /\ nas'[s].bytes > nas[s].bytes
    <3>1. Billing!Count(s)
      BY <1>2, <2>1 DEF Billing!Count, Identified
    <3> QED
      BY <2>1, <3>1 DEF Billing!Next
  <2>2. CASE s \notin Identified \/ nas'[s].bytes = nas[s].bytes
    <3>1. \A t \in Identified : nas'[t].bytes = nas[t].bytes
      BY <1>2, <2>2 DEF Identified
    <3> QED
      BY <1>2, <3>1 DEF Billing!vars
  <2> QED
    BY <1>0, <1>2, <2>1, <2>2 DEF NasStates
<1>3. ASSUME NEW s \in Sessions, Nas(s) PROVE [Billing!Next]_(Billing!vars)
  <2>1. accrued' = accrued
    BY <1>3, NasSteps
  <2>2. \A t \in Sessions : t # s => nas'[t] = nas[t]
    BY <1>0, <1>3 DEF Nas, NasStart, NasInterim, NasStop
  <2>3. nas'[s].bytes >= nas[s].bytes
    <3>0. nas[s] \in NasStates /\ nas[s].bytes \in Nat
      BY <1>0 DEF NasStates
    <3>1. CASE NasStart(s)
      BY <1>0, <3>0, <3>1 DEF NasStart, NasStates
    <3>2. CASE NasInterim(s)
      <4>1. PICK d \in Increments : nas' = [nas EXCEPT ![s].updates = @ + 1, ![s].bytes = @ + d]
        BY <3>2 DEF NasInterim
      <4>2. nas'[s].bytes = nas[s].bytes + d /\ d \in Nat
        BY <1>0, <4>1, ConstantsOK DEF ConstantsOK, NasStates
      <4> QED
        BY <3>0, <4>2
    <3>3. CASE NasStop(s)
      <4>1. PICK d \in Increments : nas' = [nas EXCEPT ![s].phase = "down", ![s].bytes = @ + d]
        BY <3>3 DEF NasStop
      <4>2. nas'[s].bytes = nas[s].bytes + d /\ d \in Nat
        BY <1>0, <4>1, ConstantsOK DEF ConstantsOK, NasStates
      <4> QED
        BY <3>0, <4>2
    <3> QED
      BY <1>3, <3>1, <3>2, <3>3 DEF Nas
  <2> QED
    BY <1>2, <2>1, <2>2, <2>3
<1>4. ASSUME NEW p \in Procs, Accrue(p) PROVE [Billing!Next]_(Billing!vars)
  <2>0. PICK s \in Sessions : evt[p].sid = s
    BY <1>4, SessionOfKey DEF Accrue, TypeOK
  <2>1. evt[p] \in Keys /\ s \in Identified
    BY <1>4, <2>0 DEF Accrue, RowsAsRead, Busy, TypeOK, Identified
  <2>2. nas' = nas /\ accrued' = [accrued EXCEPT ![s] = @ + Delta(evt[p], seen[p])]
    BY <1>4, <2>0 DEF Accrue, nasVars
  <2>3. Delta(evt[p], seen[p]) \in Nat
    BY <1>4, <2>1 DEF Delta, TypeOK, SessionRows
  <2>4. accrued'[s] <= nas[s].bytes
    <3>1. /\ evt[p] \in wire /\ accrued[s] <= seen[p].bytes /\ seen[p].bytes <= total[evt[p]]
          /\ total[evt[p]] <= nas[s].bytes
      BY <1>4, <2>0 DEF Accrue, Busy, Owing, NoneOvercharged, HandledInOrder, SentInOrder
    <3>2. accrued[s] \in Nat /\ seen[p].bytes \in Nat /\ total[evt[p]] \in Nat /\ nas[s].bytes \in Nat
      BY <2>1 DEF TypeOK, SessionRows, NasStates
    <3> QED
      BY <1>0, <2>1, <2>2, <3>1, <3>2 DEF Delta
  <2>5. CASE Delta(evt[p], seen[p]) = 0
    <3>1. \A t \in Identified : accrued'[t] = accrued[t]
      BY <1>0, <2>1, <2>2, <2>5 DEF Identified
    <3> QED
      BY <2>2, <3>1 DEF Billing!vars
  <2>6. CASE Delta(evt[p], seen[p]) > 0
    <3>1. accrued'[s] > accrued[s] /\ \A t \in Sessions : t # s => accrued'[t] = accrued[t]
      BY <1>0, <2>1, <2>2, <2>3, <2>6
    <3>2. nas' = nas
      BY <2>2
    <3>3. Billing!Bill(s)
      BY <2>1, <2>4, <3>1, <3>2 DEF Billing!Bill, Identified
    <3> QED
      BY <2>1, <3>3 DEF Billing!Next
  <2> QED
    BY <2>3, <2>5, <2>6
<1> QED
  BY <1>1, <1>3, <1>4, Steps DEF Receive, Handling, Normalise, Lookup, InsertRaw, InsertAcct, FindSession, InsertSession,
     UpdateSession, CloseOpen, OpenBinding, CloseOwn, Mark, Fault, Restart, vars, nasVars

\* What a subscriber is charged follows what the NAS has counted, never beyond
\* it and never back, whatever packets are lost and whatever fails, as long as
\* the packets of a session are handled in order.
THEOREM BillingImplemented == ASSUME Ordered PROVE Spec => ImplementsBilling
<1>1. Init => Billing!Init
  BY DEF Init, Billing!Init, Identified
<1>2. Init => OrderInv /\ NoneOvercharged
  BY OrderInit, ConstantsOK DEF Init, NoneOvercharged, Busy, NoRow
<1>3. OrderInv /\ NoneOvercharged /\ [Next]_vars => (OrderInv /\ NoneOvercharged)'
  BY OrderNext, ChargesNext
<1>4. OrderInv /\ NoneOvercharged /\ (OrderInv /\ NoneOvercharged)' /\ [Next]_vars => [Billing!Next]_(Billing!vars)
  BY BillingStep DEF OrderInv, SessionInv
<1> QED
  BY <1>1, <1>2, <1>3, <1>4, PTL DEF Spec, ImplementsBilling, Billing!Spec

-----------------------------------------------------------------------------
(* The addresses of ended sessions.                                        *)

\* Closing intervals moves their ends only: what is open after it was open
\* before, and is none of those selected.
LEMMA ClosedRows ==
  ASSUME NEW T \in SUBSET Bindings, NEW ip, NEW S, NEW t \in Nat, t > 0, NEW b \in Close(T, ip, S, t)
  PROVE  /\ \E c \in T : c.ip = b.ip /\ c.sid = b.sid /\ c.from = b.from
         /\ IsOpen(b) => b \in T /\ ~(b.ip = ip /\ b.sid \in S)
BY DEF Close, OpenRows, IsOpen, Bindings

\* The ends written are those of the intervals selected, and no interval goes.
LEMMA ClosedAt ==
  ASSUME NEW T \in SUBSET Bindings, NEW ip, NEW S, NEW t, NEW b \in Close(T, ip, S, t), b \notin T
  PROVE  b.ip = ip /\ b.sid \in S /\ b.to = t
BY DEF Close, OpenRows, Bindings

\* Closing moves no beginning and removes no row.
LEMMA ClosedStay ==
  ASSUME NEW T \in SUBSET Bindings, NEW ip, NEW S, NEW t, NEW b \in T
  PROVE  \E c \in Close(T, ip, S, t) : c.sid = b.sid /\ c.from = b.from
<1>1. CASE b \in OpenRows(T, ip, S)
  <2>1. [b EXCEPT !.to = t] \in Close(T, ip, S, t)
    BY <1>1 DEF Close
  <2> QED
    BY <2>1 DEF Bindings
<1>2. CASE b \notin OpenRows(T, ip, S)
  BY <1>2 DEF Close
<1> QED
  BY <1>1, <1>2

\* Which intervals are open changes only by what a handler opens or closes.
LEMMA OpenIntervals ==
  ASSUME OrderInv, NEW p \in Procs, Handling(p), NEW b \in bindings'
  PROVE  \/ \E c \in bindings : c.ip = b.ip /\ c.sid = b.sid /\ c.from = b.from
                                /\ (IsOpen(b) => b = c)
                                /\ (CloseOwn(p) /\ pc'[p] = "accrue" /\ IsOpen(b)
                                      => ~(b.ip = IpOf[evt[p].sid] /\ b.sid = evt[p].sid))
         \/ /\ OpenBinding(p)
            /\ b = [ip |-> IpOf[evt[p].sid], sid |-> evt[p].sid, from |-> obs[p], to |-> 0]
<1> USE DEF OrderInv, SessionInv
<1>1. obs[p] \in Nat /\ obs[p] > 0 /\ Busy(p) /\ bindings \in SUBSET Bindings
  BY HandlingSteps DEF TypeOK, TimesArePositive, Busy
<1>2. CASE bindings' = bindings /\ ~(CloseOwn(p) /\ pc'[p] = "accrue")
  BY <1>2
<1>3. CASE CloseOpen(p)
  <2>1. bindings' = bindings \/ bindings' = Close(bindings, IpOf[evt[p].sid], Sessions, obs[p])
    BY <1>3 DEF CloseOpen
  <2>2. ~CloseOwn(p)
    BY <1>3 DEF CloseOpen, CloseOwn
  <2>3. ASSUME b \in Close(bindings, IpOf[evt[p].sid], Sessions, obs[p])
        PROVE  \E c \in bindings : c.ip = b.ip /\ c.sid = b.sid /\ c.from = b.from /\ (IsOpen(b) => b = c)
    BY <1>1, <2>3, ClosedRows
  <2> QED
    BY <2>1, <2>2, <2>3
<1>4. CASE CloseOwn(p)
  <2>1. \/ bindings' = bindings /\ pc'[p] = "idle"
        \/ bindings' = Close(bindings, IpOf[evt[p].sid], {evt[p].sid}, obs[p])
    BY <1>4 DEF CloseOwn, Abort, Release, TypeOK
  <2>2. ASSUME b \in Close(bindings, IpOf[evt[p].sid], {evt[p].sid}, obs[p])
        PROVE  \E c \in bindings : c.ip = b.ip /\ c.sid = b.sid /\ c.from = b.from /\ (IsOpen(b) => b = c)
                   /\ (IsOpen(b) => ~(b.ip = IpOf[evt[p].sid] /\ b.sid = evt[p].sid))
    BY <1>1, <2>2, ClosedRows
  <2> QED
    BY <2>1, <2>2
<1>5. CASE OpenBinding(p)
  BY <1>5 DEF OpenBinding, CloseOwn
<1> QED
  BY <1>2, <1>3, <1>4, <1>5 DEF Handling, Normalise, Lookup, InsertRaw, InsertAcct, FindSession, InsertSession,
     UpdateSession, CloseOwn, Accrue, Mark, Fault

\* The way of a STOP past the bindings, and of the others into them.
LEMMA OwnBinding ==
  ASSUME OrderInv, StopClosesBinding, NEW p \in Procs, Handling(p)
  PROVE  /\ pc'[p] \in {"closeOpen", "openBinding"} => evt[p].kind # "STOP" /\ HasIp(evt[p].sid)
         /\ pc'[p] \in {"accrue", "mark"} /\ evt[p].kind = "STOP" =>
              \/ evt[p].sid \in Anonymous
              \/ ~HasIp(evt[p].sid)
              \/ pc[p] \in {"accrue", "mark"}
              \/ CloseOwn(p)
         /\ \A k \in Keys : raw'[k] = "done" => raw[k] = "done" \/ (k = evt[p] /\ pc[p] = "mark")
<1> USE DEF OrderInv, SessionInv, Busy
<1>1. evt[p] \in Keys /\ evt[p].sid \in Sessions /\ Busy(p)
  BY HandlingSteps, SessionOfKey DEF TypeOK
<1>2. pc[p] \in {"closeOpen", "openBinding"} => evt[p].kind # "STOP" /\ HasIp(evt[p].sid)
  BY DEF StopClosesBinding
<1>3. CASE Lookup(p)
  BY <1>1, <1>3 DEF Lookup, Goto, Release, TypeOK, rawVars
<1>4. CASE InsertRaw(p)
  BY <1>1, <1>4 DEF InsertRaw, Goto, Release, TypeOK, rawVars
<1>5. CASE InsertAcct(p)
  BY <1>1, <1>5 DEF InsertAcct, AfterAcct, Goto, TypeOK, rawVars
<1>6. CASE FindSession(p)
  BY <1>1, <1>6 DEF FindSession, AfterFind, AfterSession, TypeOK, Keys, SessionRows, rawVars
<1>7. CASE InsertSession(p)
  BY <1>1, <1>7 DEF InsertSession, AfterSession, Abort, Release, Goto, TypeOK, Keys, rawVars
<1>8. CASE UpdateSession(p)
  BY <1>1, <1>8 DEF UpdateSession, AfterUpdate, AfterSession, Goto, TypeOK, Keys, rawVars
<1>9. CASE CloseOpen(p)
  BY <1>1, <1>2, <1>9 DEF CloseOpen, Abort, Release, Goto, TypeOK, rawVars
<1>10. CASE OpenBinding(p)
  BY <1>1, <1>2, <1>10 DEF OpenBinding, Abort, Release, Goto, TypeOK, rawVars
<1>11. CASE CloseOwn(p)
  BY <1>1, <1>11 DEF CloseOwn, Abort, Release, Goto, TypeOK, rawVars
<1>12. CASE Accrue(p)
  BY <1>1, <1>12 DEF Accrue, Goto, TypeOK, rawVars
<1>13. CASE Mark(p)
  BY <1>1, <1>13 DEF Mark, Release, TypeOK
<1>14. CASE Fault(p)
  BY <1>1, <1>14 DEF Fault, Abort, Release, TypeOK, rawVars
<1> QED
  BY <1>3, <1>4, <1>5, <1>6, <1>7, <1>8, <1>9, <1>10, <1>11, <1>12, <1>13, <1>14 DEF Handling, Normalise

\* A session is ended by the STOP it has sent.
LEMMA EndedByStop ==
  ASSUME OrderInv, StopClosesBinding, NEW p \in Procs, Handling(p), NEW s \in Sessions, HasEnded(s)'
  PROVE  raw'[STOP(s)] # "none"
<1> USE DEF OrderInv, SessionInv
<1>1. evt[p] \in Keys /\ evt[p].sid \in Sessions /\ Busy(p) /\ STOP(s) \in Keys
  BY HandlingSteps, SessionOfKey, KeysOfSession DEF TypeOK, Busy
<1>2. CASE HasEnded(s)
  <2>1. raw[STOP(s)] # "none"
    BY <1>2 DEF StopClosesBinding
  <2> QED
    BY <1>1, <2>1, HandlingSteps
<1>3. CASE ~HasEnded(s)
  <2>1. s = evt[p].sid
    BY <1>3, OwnSession DEF HasEnded
  <2>2. evt[p].kind = "STOP" /\ raw' = raw /\ raw[evt[p]] # "none"
    <3>1. CASE InsertSession(p)
      BY <1>1, <1>3, <2>1, <3>1 DEF InsertSession, HasEnded, Ended, TypeOK, TimesArePositive, rawVars
    <3>2. CASE UpdateSession(p)
      BY <1>1, <1>3, <2>1, <3>2 DEF UpdateSession, StatusAfter, HasEnded, Ended, TypeOK, SessionRows, TimesArePositive, rawVars
    <3>3. CASE sess' = sess
      BY <1>3, <3>3 DEF HasEnded
    <3> QED
      BY <3>1, <3>2, <3>3 DEF Handling, Normalise, Lookup, InsertRaw, InsertAcct, FindSession,
         CloseOpen, OpenBinding, CloseOwn, Accrue, Mark, Fault
  <2> QED
    BY <1>1, <2>1, <2>2, Ranks
<1> QED
  BY <1>2, <1>3

\* A STOP past its binding leaves none open, and none is opened after it.
LEMMA StopNext ==
  ASSUME OrderInv, StopClosesBinding, Ordered, [Next]_vars
  PROVE  StopClosesBinding'
<1> USE DEF OrderInv, SessionInv
<1>0. \A p \in Procs : Busy(p) => evt[p] \in Keys /\ evt[p] \in wire /\ evt[p].sid \in Sessions
  BY SessionOfKey DEF TypeOK, Busy, HandledInOrder
<1>1. ASSUME NEW s \in Sessions, Nas(s) PROVE StopClosesBinding'
  BY <1>1, NasSteps DEF StopClosesBinding, procVars, rawVars, HasEnded
<1>2. ASSUME NEW p \in Procs, NEW k \in wire, Receive(p, k) PROVE StopClosesBinding'
  BY <1>2 DEF StopClosesBinding, Receive, HasEnded, rawVars, TypeOK
<1>3. ASSUME NEW p \in Procs, Handling(p) PROVE StopClosesBinding'
  <2>0. Busy(p) /\ evt[p] \in Keys /\ evt[p] \in wire /\ evt[p].sid \in Sessions
    BY <1>0, <1>3, HandlingSteps
  <2>1. \A s \in Sessions : HasEnded(s)' => raw'[STOP(s)] # "none"
    BY <1>3, EndedByStop
  <2>2. ASSUME NEW b \in bindings'
        PROVE  b.sid \notin Anonymous /\ HasIp(b.sid) /\ b.ip = IpOf[b.sid] /\ b.sid \in Sessions
    <3>1. CASE OpenBinding(p)
               /\ b = [ip |-> IpOf[evt[p].sid], sid |-> evt[p].sid, from |-> obs[p], to |-> 0]
      BY <2>0, <3>1 DEF OpenBinding, RowsAsRead, StopClosesBinding
    <3>2. ASSUME NEW c \in bindings, c.ip = b.ip, c.sid = b.sid
          PROVE  b.sid \notin Anonymous /\ HasIp(b.sid) /\ b.ip = IpOf[b.sid] /\ b.sid \in Sessions
      BY <3>2 DEF StopClosesBinding, TypeOK, Bindings
    <3> QED
      BY <1>3, <3>1, <3>2, OpenIntervals
  <2>3. ASSUME NEW q \in Procs, pc'[q] \in {"closeOpen", "openBinding"}
        PROVE  evt'[q].kind # "STOP" /\ HasIp(evt'[q].sid)
    <3>1. CASE q = p
      BY <1>3, <2>3, <3>1, OwnBinding, HandlingSteps
    <3>2. CASE q # p
      <4>1. Busy(q)'
        BY <2>3 DEF Busy
      <4> QED
        BY <1>3, <2>3, <3>2, <4>1, OthersApart DEF StopClosesBinding
    <3> QED
      BY <3>1, <3>2
  <2>4. ASSUME NEW b \in bindings', IsOpen(b)
        PROVE  /\ raw'[STOP(b.sid)] # "done"
               /\ \A q \in Procs : pc'[q] \in {"accrue", "mark"} /\ evt'[q].kind = "STOP" => evt'[q].sid # b.sid
    <3>0. b.sid \in Sessions /\ STOP(b.sid) \in Keys /\ STOP(b.sid).kind = "STOP" /\ STOP(b.sid).sid = b.sid
      BY <2>2, KeysOfSession DEF STOP
    <3>1. CASE OpenBinding(p)
               /\ b = [ip |-> IpOf[evt[p].sid], sid |-> evt[p].sid, from |-> obs[p], to |-> 0]
      <4>1. raw' = raw /\ pc[p] = "openBinding" /\ evt[p].kind # "STOP" /\ b.sid = evt[p].sid
        BY <3>1 DEF OpenBinding, StopClosesBinding, rawVars
      <4>2. raw[STOP(b.sid)] = "none"
        BY <2>0, <3>0, <4>1, Ranks, RankOfStop DEF HandledInOrder
      <4>3. ASSUME NEW q \in Procs, pc'[q] \in {"accrue", "mark"}, evt'[q].kind = "STOP", evt'[q].sid = b.sid
            PROVE  FALSE
        <5>1. Busy(q)'
          BY <4>3 DEF Busy
        <5>2. q # p
          BY <1>3, <4>1, <4>3, HandlingSteps
        <5> QED
          BY <1>3, <4>1, <4>3, <5>1, <5>2, OthersApart
      <4> QED
        BY <4>1, <4>2, <4>3
    <3>2. CASE /\ b \in bindings
               /\ CloseOwn(p) /\ pc'[p] = "accrue" => ~(b.ip = IpOf[evt[p].sid] /\ b.sid = evt[p].sid)
      <4>1. /\ raw[STOP(b.sid)] # "done"
            /\ \A q \in Procs : pc[q] \in {"accrue", "mark"} /\ evt[q].kind = "STOP" => evt[q].sid # b.sid
        BY <2>4, <3>2 DEF StopClosesBinding
      <4>2. raw'[STOP(b.sid)] # "done"
        BY <1>3, <3>0, <4>1, OwnBinding
      <4>3. ASSUME NEW q \in Procs, pc'[q] \in {"accrue", "mark"}, evt'[q].kind = "STOP", evt'[q].sid = b.sid
            PROVE  FALSE
        <5>1. Busy(q)'
          BY <4>3 DEF Busy
        <5>2. CASE q # p
          BY <1>3, <4>1, <4>3, <5>1, <5>2, OthersApart
        <5>3. CASE q = p
          <6>1. evt[p].kind = "STOP" /\ evt[p].sid = b.sid
            BY <1>3, <4>3, <5>3, HandlingSteps
          <6>2. CloseOwn(p)
            BY <1>3, <2>2, <4>1, <4>3, <5>3, <6>1, OwnBinding
          <6>3. pc'[p] = "accrue"
            BY <4>3, <5>3, <6>2 DEF CloseOwn, Goto, Abort, Release, TypeOK
          <6> QED
            BY <2>2, <3>2, <6>1, <6>2, <6>3
        <5> QED
          BY <5>2, <5>3
      <4> QED
        BY <4>2, <4>3
    <3> QED
      BY <1>3, <2>4, <3>1, <3>2, OpenIntervals
  <2> QED
    BY <2>1, <2>2, <2>3, <2>4 DEF StopClosesBinding
<1>4. CASE Restart
  BY <1>4 DEF StopClosesBinding, Restart, HasEnded, rawVars
<1>5. CASE UNCHANGED vars
  BY <1>5 DEF StopClosesBinding, vars, HasEnded
<1> QED
  BY <1>1, <1>2, <1>3, <1>4, <1>5, Steps

\* An ended session holds no address once its events are settled: not even a
\* failed statement leaves it one, as long as the packets of a session are
\* handled in order.
THEOREM EndedSessionsHoldNoAddress == ASSUME Ordered PROVE Spec => []EndedHoldsNoAddress
<1>1. Init => OrderInv /\ StopClosesBinding
  BY OrderInit DEF Init, StopClosesBinding, HasEnded, Ended, NoRow
<1>2. OrderInv /\ StopClosesBinding /\ [Next]_vars => (OrderInv /\ StopClosesBinding)'
  BY OrderNext, StopNext
<1>3. OrderInv /\ StopClosesBinding => EndedHoldsNoAddress
  <2> SUFFICES ASSUME OrderInv, StopClosesBinding, NEW b \in bindings, Settled(b.sid), HasEnded(b.sid)
               PROVE  ~IsOpen(b)
    BY DEF EndedHoldsNoAddress
  <2> USE DEF OrderInv, SessionInv
  <2>1. b.sid \in Sessions /\ STOP(b.sid) \in Keys /\ STOP(b.sid).sid = b.sid
    BY KeysOfSession DEF TypeOK, Bindings, STOP
  <2>2. raw[STOP(b.sid)] # "none"
    BY <2>1 DEF StopClosesBinding
  <2>3. raw[STOP(b.sid)] = "done"
    BY <2>1, <2>2 DEF HandledInOrder, Settled, TypeOK, Statuses
  <2> QED
    BY <2>3 DEF StopClosesBinding
<1> QED
  BY <1>1, <1>2, <1>3, PTL DEF Spec

-----------------------------------------------------------------------------
(* The quota and the session.                                              *)

\* A handler's event was received before now, and after the intervals of its
\* session were opened.
LEMMA IntervalsNext ==
  ASSUME OrderInv, IntervalsBefore, Ordered, [Next]_vars
  PROVE  IntervalsBefore'
<1> USE DEF OrderInv, SessionInv
<1>0. \A p \in Procs : obs[p] \in Nat /\ (Busy(p) => evt[p] \in Keys)
  BY DEF TypeOK, Busy
<1>00. clock \in Nat /\ \A b \in bindings : b \in Bindings /\ b.from \in Nat
  BY DEF TypeOK, Bindings
<1>1. ASSUME NEW s \in Sessions, Nas(s) PROVE IntervalsBefore'
  BY <1>1, NasSteps DEF IntervalsBefore, procVars, rawVars, Busy
<1>2. ASSUME NEW p \in Procs, NEW k \in wire, Receive(p, k) PROVE IntervalsBefore'
  <2>1. /\ raw' = raw /\ bindings' = bindings
        /\ pc'[p] = "lookup" /\ evt'[p] = k /\ obs'[p] = clock + 1
        /\ \A q \in Procs \ {p} : pc'[q] = pc[q] /\ evt'[q] = evt[q] /\ obs'[q] = obs[q]
        /\ clock' = IF raw[k] = "none" THEN clock + 1 ELSE clock
    BY <1>2 DEF Receive, rawVars, TypeOK
  <2>2. \A b \in bindings : b.from <= clock /\ b.from <= clock' /\ b.from <= clock + 1
    BY <1>00, <2>1 DEF IntervalsBefore
  <2>3. clock <= clock' /\ clock' \in Nat
    BY <1>00, <2>1
  <2>4. ASSUME NEW q \in Procs, Busy(q)'
        PROVE  /\ obs'[q] <= clock' \/ (pc'[q] = "lookup" /\ raw'[evt'[q]] # "none")
               /\ \A b \in bindings' : b.sid = evt'[q].sid => b.from <= obs'[q]
    <3>1. CASE q = p
      BY <1>00, <2>1, <2>2, <3>1
    <3>2. CASE q # p
      BY <1>0, <1>00, <2>1, <2>3, <2>4, <3>2 DEF IntervalsBefore, Busy
    <3> QED
      BY <3>1, <3>2
  <2> QED
    BY <2>1, <2>2, <2>4 DEF IntervalsBefore
<1>3. ASSUME NEW p \in Procs, Handling(p) PROVE IntervalsBefore'
  <2>0. Busy(p) /\ evt[p] \in Keys /\ clock' = clock
    BY <1>0, <1>3, HandlingSteps
  <2>1. pc'[p] # "idle" => obs[p] <= clock
    <3>1. CASE Lookup(p)
      BY <2>0, <3>1 DEF Lookup, Release, Goto, IntervalsBefore, TypeOK
    <3>2. CASE pc[p] # "lookup"
      BY <2>0, <3>2 DEF IntervalsBefore
    <3>3. CASE Fault(p)
      BY <3>3 DEF Fault, Abort, Release, TypeOK
    <3> QED
      BY <1>3, <3>1, <3>2, <3>3 DEF Handling, Normalise, InsertRaw, InsertAcct, FindSession, InsertSession,
         UpdateSession, CloseOpen, OpenBinding, CloseOwn, Accrue, Mark
  <2>2. \A b \in bindings' :
          \/ \E c \in bindings : c.sid = b.sid /\ c.from = b.from
          \/ b.sid = evt[p].sid /\ b.from = obs[p] /\ obs[p] <= clock
    <3>1. OpenBinding(p) => obs[p] <= clock
      BY <2>0 DEF OpenBinding, IntervalsBefore
    <3> QED
      BY <1>3, <3>1, OpenIntervals
  <2>3. \A b \in bindings' : b.from <= clock'
    BY <2>0, <2>2 DEF IntervalsBefore
  <2>4. ASSUME NEW q \in Procs, Busy(q)'
        PROVE  /\ obs'[q] <= clock' \/ (pc'[q] = "lookup" /\ raw'[evt'[q]] # "none")
               /\ \A b \in bindings' : b.sid = evt'[q].sid => b.from <= obs'[q]
    <3>1. CASE q = p
      <4>1. evt'[p] = evt[p] /\ obs'[p] = obs[p] /\ pc'[p] # "idle"
        BY <1>3, <2>4, <3>1, HandlingSteps DEF Busy
      <4>2. obs[p] <= clock
        BY <2>1, <4>1
      <4>3. ASSUME NEW b \in bindings', b.sid = evt[p].sid PROVE b.from <= obs[p]
        <5>1. CASE b.from = obs[p]
          BY <1>0, <5>1
        <5>2. ASSUME NEW c \in bindings, c.sid = b.sid, c.from = b.from PROVE b.from <= obs[p]
          BY <2>0, <4>3, <5>2 DEF IntervalsBefore
        <5> QED
          BY <2>2, <5>1, <5>2
      <4> QED
        BY <2>0, <3>1, <4>1, <4>2, <4>3
    <3>2. CASE q # p
      <4>1. /\ Busy(q) /\ pc'[q] = pc[q] /\ evt'[q] = evt[q] /\ obs'[q] = obs[q]
            /\ evt[q] \in Keys /\ evt[q].sid # evt[p].sid
        BY <1>3, <2>4, <3>2, OthersApart
      <4>2. raw[evt[q]] # "none" => raw'[evt[q]] # "none"
        BY <1>3, <4>1, HandlingSteps
      <4> QED
        BY <2>0, <2>2, <4>1, <4>2 DEF IntervalsBefore
    <3> QED
      BY <3>1, <3>2
  <2> QED
    BY <2>3, <2>4 DEF IntervalsBefore
<1>4. CASE Restart
  BY <1>4 DEF IntervalsBefore, Restart, Busy
<1>5. CASE UNCHANGED vars
  BY <1>5 DEF IntervalsBefore, vars, Busy
<1> QED
  BY <1>1, <1>2, <1>3, <1>4, <1>5, Steps

\* A failure is counted for good.
LEMMA FaultsStay ==
  ASSUME TypeOK, [Next]_vars, faults' = 0
  PROVE  faults = 0 /\ ~Restart /\ \A p \in Procs : ~Fault(p)
<1>1. faults \in Nat
  BY DEF TypeOK
<1>2. Restart \/ (\E p \in Procs : Fault(p)) => faults' = faults + 1
  BY DEF Restart, Fault
<1>3. faults' = faults \/ Restart \/ \E p \in Procs : Fault(p)
  BY DEF Next, vars, Nas, NasStart, NasInterim, NasStop, Send, Handle, Receive, Lookup, InsertRaw, CatchUp,
     StartCatchUp, TakePending, Normalise, InsertAcct, FindSession, InsertSession, UpdateSession,
     CloseOpen, OpenBinding, CloseOwn, Accrue, Mark, Procs
<1> QED
  BY <1>1, <1>2, <1>3

\* An UPDATE finds the session and leaves it known.
LEMMA RowsOfUpdate ==
  ASSUME SessionInv, RowsAsRead, NEW p \in Procs, UpdateSession(p)
  PROVE  Known(evt[p].sid)
<1>1. pc[p] = "updateSession"
  BY DEF UpdateSession
<1> QED
  BY <1>1 DEF RowsAsRead, Busy, SessionInv, HandlersLeaveSession, HandlerLeavesSession

\* A known session stays known.
LEMMA RowKept ==
  ASSUME TypeOK, NEW p \in Procs, Handling(p), NEW s \in Sessions, Known(s)
  PROVE  sess'[s].status # "NONE"
<1>1. evt[p] \in Keys /\ evt[p].sid \in Sessions /\ sess[s] \in SessionRows
  BY HandlingSteps, SessionOfKey DEF TypeOK, Busy
<1>2a. CASE InsertSession(p)
  BY <1>1, <1>2a DEF InsertSession, Known, TypeOK
<1>2. CASE UpdateSession(p)
  <2>1. sess'[s].status \in {sess[s].status, "CLOSED"}
    BY <1>1, <1>2 DEF UpdateSession, StatusAfter, TypeOK, SessionRows
  <2> QED
    BY <2>1 DEF Known
<1>3. CASE sess' = sess
  BY <1>3 DEF Known
<1> QED
  BY <1>2a, <1>2, <1>3 DEF Handling, Normalise, Lookup, InsertRaw, InsertAcct, FindSession,
     CloseOpen, OpenBinding, CloseOwn, Accrue, Mark, Fault

\* A handler with a stored event stays on it until the session is known.
LEMMA OwnStart ==
  ASSUME OrderInv, NEW p \in Procs, Handling(p), ~Fault(p), evt[p].sid \notin Anonymous,
         sess'[evt[p].sid].status = "NONE"
  PROVE  /\ Stored(p) => Stored(p)'
         /\ raw'[evt[p]] # raw[evt[p]] => Stored(p)'
         /\ Stored(p)' => evt'[p] = evt[p]
<1> USE DEF OrderInv, SessionInv, Busy, Stored
<1>1. evt[p] \in Keys /\ evt[p].sid \in Sessions /\ Busy(p)
  BY HandlingSteps, SessionOfKey DEF TypeOK
<1>2. ~Known(evt[p].sid)
  BY <1>1, RowKept DEF Known
<1>3. pc[p] \notin SessionDone \union {"updateSession"}
  BY <1>1, <1>2 DEF HandlersLeaveSession, HandlerLeavesSession
<1>4. CASE Lookup(p)
  BY <1>1, <1>4 DEF Lookup, Goto, Release, rawVars, TypeOK
<1>5. CASE InsertRaw(p)
  BY <1>1, <1>5 DEF InsertRaw, Goto, Release, rawVars, TypeOK
<1>6. CASE InsertAcct(p)
  BY <1>1, <1>6 DEF InsertAcct, AfterAcct, Goto, rawVars, TypeOK
<1>7. CASE FindSession(p)
  BY <1>1, <1>2, <1>7 DEF FindSession, AfterFind, AfterSession, Known, rawVars, TypeOK, Keys
<1>8. CASE InsertSession(p)
  BY <1>1, <1>2, <1>8 DEF InsertSession, Known, TypeOK
<1> QED
  BY <1>1, <1>3, <1>4, <1>5, <1>6, <1>7, <1>8 DEF Handling, Normalise, SessionDone, UpdateSession,
     CloseOpen, OpenBinding, CloseOwn, Accrue, Mark

\* A handler gives a session a row only for an event stored.
LEMMA OwnKnown ==
  ASSUME OrderInv, NEW p \in Procs, Handling(p), ~Known(evt[p].sid), sess'[evt[p].sid].status # "NONE"
  PROVE  InsertSession(p) /\ pc[p] = "insertSession" /\ Stored(p) /\ raw[evt[p]] # "none"
<1> USE DEF OrderInv, SessionInv, Busy, Stored
<1>1. evt[p] \in Keys /\ evt[p].sid \in Sessions /\ Busy(p)
  BY HandlingSteps, SessionOfKey DEF TypeOK
<1>2. ~UpdateSession(p)
  BY <1>1, RowsOfUpdate DEF Known
<1>3. InsertSession(p)
  BY <1>1, <1>2 DEF Handling, Normalise, Known, Lookup, InsertRaw, InsertAcct, FindSession,
     CloseOpen, OpenBinding, CloseOwn, Accrue, Mark, Fault
<1> QED
  BY <1>3 DEF InsertSession, TimesArePositive

\* A session is known from its first stored event on.
LEMMA StoredNext ==
  ASSUME OrderInv, StoredLeavesRow, Ordered, [Next]_vars
  PROVE  StoredLeavesRow'
<1> USE DEF OrderInv, SessionInv
<1> SUFFICES ASSUME faults' = 0
             PROVE  StoredLeavesRow'
  BY DEF StoredLeavesRow
<1>a. ASSUME \A k \in wire' : raw'[k] # "none" /\ k.sid \notin Anonymous =>
                sess'[k.sid].status # "NONE" \/ \E p \in Procs : Stored(p)' /\ evt'[p] = k,
             \A s \in Sessions : sess'[s].status # "NONE" => \E k \in wire' : k.sid = s /\ raw'[k] # "none"
      PROVE  StoredLeavesRow'
  BY <1>a DEF StoredLeavesRow, Known
<1>0. faults = 0 /\ ~Restart /\ \A p \in Procs : ~Fault(p)
  BY FaultsStay
<1>1. \A p \in Procs : Busy(p) => evt[p] \in Keys /\ evt[p] \in wire /\ evt[p].sid \in Sessions
  BY SessionOfKey DEF TypeOK, Busy, HandledInOrder
<1>2. \A k \in Keys : raw[k] # "none" => k \in wire
  BY DEF HandledInOrder
<1>3. \A k \in wire : raw[k] # "none" /\ k.sid \notin Anonymous =>
        Known(k.sid) \/ \E p \in Procs : Stored(p) /\ evt[p] = k
  BY <1>0 DEF StoredLeavesRow
<1>4. \A s \in Sessions : Known(s) => \E k \in wire : k.sid = s /\ raw[k] # "none"
  BY <1>0 DEF StoredLeavesRow
<1>5. \A k \in wire' : k \in Keys /\ k.sid \in Sessions
  BY TypeNext, SessionOfKey DEF TypeOK
<1>6. \A s \in Sessions : Known(s) => sess'[s].status # "NONE"
  BY RowsStay DEF Known
<1>7. ASSUME NEW s \in Sessions, Nas(s) PROVE StoredLeavesRow'
  <2>1. raw' = raw /\ pc' = pc /\ evt' = evt /\ sess' = sess /\ wire \subseteq wire'
    BY <1>7, NasSteps DEF procVars, rawVars
  <2>2. \A k \in wire' : raw'[k] # "none" => k \in wire
    BY <1>2, <1>5, <2>1
  <2>3. \A k \in wire' : raw'[k] # "none" /\ k.sid \notin Anonymous =>
          sess'[k.sid].status # "NONE" \/ \E p \in Procs : Stored(p)' /\ evt'[p] = k
    BY <1>3, <2>1, <2>2 DEF Known, Stored
  <2>4. \A t \in Sessions : sess'[t].status # "NONE" => \E k \in wire' : k.sid = t /\ raw'[k] # "none"
    BY <1>4, <2>1 DEF Known
  <2> QED
    BY <1>a, <2>3, <2>4
<1>8. ASSUME NEW p \in Procs, NEW k \in wire, Receive(p, k) PROVE StoredLeavesRow'
  <2>1. /\ raw' = raw /\ sess' = sess /\ wire' = wire /\ pc'[p] = "lookup" /\ pc[p] = "idle"
        /\ \A q \in Procs \ {p} : pc'[q] = pc[q] /\ evt'[q] = evt[q]
    BY <1>8 DEF Receive, nasVars, rawVars, TypeOK
  <2>2. \A q \in Procs : Stored(q) => Stored(q)' /\ evt'[q] = evt[q]
    BY <2>1 DEF Stored
  <2> QED
    BY <1>a, <1>3, <1>4, <2>1, <2>2 DEF Known
<1>9. ASSUME NEW p \in Procs, Handling(p) PROVE StoredLeavesRow'
  <2>0. Busy(p) /\ evt[p] \in Keys /\ evt[p] \in wire /\ evt[p].sid \in Sessions /\ wire' = wire
    BY <1>1, <1>9, HandlingSteps DEF nasVars
  <2>1. \A q \in Procs : q # p /\ Stored(q) => Stored(q)' /\ evt'[q] = evt[q]
    BY <1>9, HandlingSteps DEF Others, Stored
  <2>2. \A k \in wire : k # evt[p] => raw'[k] = raw[k]
    BY <1>9, HandlingSteps DEF TypeOK
  <2>3. ASSUME NEW k \in wire', raw'[k] # "none", k.sid \notin Anonymous, sess'[k.sid].status = "NONE"
        PROVE  \E q \in Procs : Stored(q)' /\ evt'[q] = k
    <3>0. ~Known(k.sid) /\ k \in wire
      BY <1>5, <1>6, <2>0, <2>3
    <3>1. CASE raw[k] # "none"
      <4>1. PICK q \in Procs : Stored(q) /\ evt[q] = k
        BY <1>3, <2>3, <3>0, <3>1
      <4> QED
        BY <1>0, <1>9, <2>1, <2>3, <4>1, OwnStart
    <3>2. CASE raw[k] = "none"
      <4>1. k = evt[p] /\ raw'[evt[p]] # raw[evt[p]]
        BY <2>2, <2>3, <3>0, <3>2
      <4> QED
        BY <1>0, <1>9, <2>3, <4>1, OwnStart
    <3> QED
      BY <3>1, <3>2
  <2>4. ASSUME NEW s \in Sessions, sess'[s].status # "NONE"
        PROVE  \E k \in wire' : k.sid = s /\ raw'[k] # "none"
    <3>1. CASE Known(s)
      BY <1>4, <1>9, <2>0, <2>2, <3>1, HandlingSteps
    <3>2. CASE ~Known(s)
      <4>1. s = evt[p].sid
        BY <1>9, <2>4, <3>2, OwnSession DEF Known
      <4>2. raw[evt[p]] # "none"
        BY <1>9, <2>4, <3>2, <4>1, OwnKnown
      <4> QED
        BY <1>9, <2>0, <4>1, <4>2, HandlingSteps
    <3> QED
      BY <3>1, <3>2
  <2> QED
    BY <1>a, <2>3, <2>4
<1>10. CASE UNCHANGED vars
  BY <1>10 DEF StoredLeavesRow, vars, Stored, Known
<1> QED
  BY <1>0, <1>7, <1>8, <1>9, <1>10, Steps

\* The handler that has stored a total charges what it has added; the row it
\* makes for an event it met first is charged but for that of an update.
LEMMA OwnCharged ==
  ASSUME OrderInv, NoneOvercharged, IntervalsBefore, NEW p \in Procs, Handling(p), ~Fault(p),
         NEW u \in Nat, sess'[evt[p].sid].status # "NONE",
         ~Known(evt[p].sid) => u = Uncharged(evt[p]),
         Known(evt[p].sid) /\ pc[p] \in Owing => seen[p].bytes = accrued[evt[p].sid] + u,
         Known(evt[p].sid) /\ pc[p] \notin Owing => sess[evt[p].sid].bytes = accrued[evt[p].sid] + u
  PROVE  /\ pc'[p] \in Owing => seen'[p].bytes = accrued'[evt[p].sid] + u
         /\ pc'[p] \notin Owing => sess'[evt[p].sid].bytes = accrued'[evt[p].sid] + u
<1> USE DEF OrderInv, SessionInv, Busy
<1>1. /\ evt[p] \in Keys /\ evt[p].sid \in Sessions /\ Busy(p)
      /\ total[evt[p]] \in Nat /\ accrued[evt[p].sid] \in Nat /\ seen[p].bytes \in Nat
      /\ sess[evt[p].sid] \in SessionRows /\ sess[evt[p].sid].bytes \in Nat
  BY HandlingSteps, SessionOfKey DEF TypeOK, SessionRows
<1>2. CASE InsertSession(p)
  <2>1. /\ sess[evt[p].sid].bytes = 0 /\ seen[p].bytes = 0 /\ sess[evt[p].sid].status = "NONE"
        /\ pc[p] = "insertSession" /\ accrued[evt[p].sid] = 0
    BY <1>1, <1>2 DEF InsertSession, RowsAsRead, Known, NoneOvercharged
  <2>2. /\ sess'[evt[p].sid].bytes = IF evt[p].kind = "START" THEN 0 ELSE total[evt[p]]
        /\ accrued' = accrued /\ seen' = seen /\ pc'[p] = AfterSession(evt[p])
    BY <1>1, <1>2, <2>1 DEF InsertSession, Goto, TypeOK
  <2>3. u = Uncharged(evt[p])
    BY <2>1 DEF Known
  <2>4. pc'[p] \in Owing <=> evt[p].kind = "STOP"
    BY <1>1, <2>2 DEF AfterSession, Owing, Keys
  <2> QED
    BY <1>1, <2>1, <2>2, <2>3, <2>4 DEF Uncharged, Keys
<1>3. CASE UpdateSession(p)
  <2>1. seen[p] = sess[evt[p].sid] /\ pc[p] = "updateSession" /\ Known(evt[p].sid)
    BY <1>1, <1>3, RowsOfUpdate DEF UpdateSession, RowsAsRead
  <2>2. /\ accrued'[evt[p].sid] = accrued[evt[p].sid] /\ seen'[p] = seen[p]
        /\ pc'[p] \in Owing
    BY <1>1, <1>3 DEF UpdateSession, AfterUpdate, AfterSession, Goto, TypeOK, Owing
  <2> QED
    BY <2>1, <2>2 DEF Owing
<1>4. CASE CloseOwn(p)
  <2>1. CanClose(bindings, IpOf[evt[p].sid], {evt[p].sid}, obs[p])
    BY <1>1 DEF CanClose, OpenRows, IntervalsBefore
  <2>2. Known(evt[p].sid)
    BY <1>4 DEF CloseOwn, Known
  <2> QED
    BY <1>1, <1>4, <2>1, <2>2 DEF CloseOwn, Goto, TypeOK, Owing
<1>5. CASE Accrue(p)
  <2>0. Known(evt[p].sid)
    BY <1>5 DEF Accrue, Known
  <2>1. /\ seen[p].bytes = accrued[evt[p].sid] + u /\ seen[p].bytes <= total[evt[p]]
        /\ sess[evt[p].sid].bytes = total[evt[p]]
    BY <1>1, <1>5, <2>0 DEF Accrue, Owing, NoneOvercharged
  <2>2. /\ accrued'[evt[p].sid] = accrued[evt[p].sid] + Delta(evt[p], seen[p])
        /\ sess' = sess /\ pc'[p] \notin Owing
    BY <1>1, <1>5 DEF Accrue, Goto, TypeOK, Owing
  <2> QED
    BY <1>1, <2>1, <2>2 DEF Delta
<1>6. CASE FindSession(p)
  <2>1. pc[p] \notin Owing /\ sess' = sess /\ accrued' = accrued /\ Known(evt[p].sid)
    BY <1>6 DEF FindSession, Owing, Known
  <2>2. pc'[p] \notin Owing
    BY <1>1, <1>6 DEF FindSession, AfterFind, AfterSession, TypeOK, Owing, Keys, SessionRows
  <2> QED
    BY <2>1, <2>2
<1>7. CASE Lookup(p) \/ InsertRaw(p) \/ InsertAcct(p) \/ CloseOpen(p) \/ OpenBinding(p) \/ Mark(p)
  <2>1. pc[p] \notin Owing /\ pc'[p] \notin Owing
    BY <1>1, <1>7 DEF Lookup, InsertRaw, InsertAcct, AfterAcct, CloseOpen, OpenBinding, Mark, Abort, Release,
       Goto, TypeOK, Owing
  <2>2. sess' = sess /\ accrued' = accrued
    BY <1>7 DEF Lookup, InsertRaw, InsertAcct, CloseOpen, OpenBinding, Mark
  <2> QED
    BY <2>1, <2>2 DEF Known
<1> QED
  BY <1>2, <1>3, <1>4, <1>5, <1>6, <1>7 DEF Handling, Normalise

\* Everything that makes the quota follow the session.
ChargeInv == OrderInv /\ NoneOvercharged /\ IntervalsBefore /\ StoredLeavesRow /\ AllCharged

\* The first stored event of a known session stays the first, since none of a
\* lower rank is handled after it.
LEMMA FirstStays ==
  ASSUME ChargeInv, Ordered, [Next]_vars, faults = 0, NEW k \in Keys, First(k)', Known(k.sid)
  PROVE  First(k)
<1> USE DEF ChargeInv, OrderInv, SessionInv
<1>1. PICK j \in wire : j \in Keys /\ j.sid = k.sid /\ raw[j] # "none"
  <2>1. k.sid \in Sessions
    BY SessionOfKey
  <2> QED
    BY <2>1 DEF StoredLeavesRow, TypeOK
<1>2. \A i \in Keys : raw[i] # "none" => raw'[i] # "none"
  BY Steps, NasSteps, HandlingSteps DEF Receive, Restart, vars, rawVars
<1>3. CASE raw[k] # "none"
  BY <1>2, <1>3 DEF First
<1>4. CASE raw[k] = "none"
  <2>1. PICK p \in Procs : Handling(p) /\ evt[p] = k /\ Busy(p)
    BY <1>4, Steps, NasSteps, HandlingSteps DEF First, Receive, Restart, vars, rawVars
  <2>2. ~(Rank(j) > Rank(k))
    BY <1>1, <2>1 DEF HandledInOrder
  <2>3. Rank(k) <= Rank(j)
    BY <1>1, <1>2 DEF First
  <2>4. Rank(j) = Rank(k) /\ Rank(j) \in Nat
    BY <2>2, <2>3, <1>1, Ranks
  <2>5. j = k
    BY <1>1, <2>4, SameRank
  <2> QED
    BY <1>1, <1>4, <2>5
<1> QED
  BY <1>3, <1>4

\* What a handler adds to a session it charges before it leaves.
LEMMA ChargedNext ==
  ASSUME ChargeInv, Ordered, [Next]_vars
  PROVE  AllCharged'
<1> USE DEF ChargeInv, OrderInv, SessionInv
<1> SUFFICES ASSUME faults' = 0, NEW k \in Keys, First(k)', Known(k.sid)'
             PROVE  /\ (\A p \in Procs : pc'[p] \in Owing => evt'[p].sid # k.sid) =>
                         sess'[k.sid].bytes = accrued'[k.sid] + Uncharged(k)'
                    /\ \A p \in Procs : pc'[p] \in Owing /\ evt'[p].sid = k.sid =>
                         seen'[p].bytes = accrued'[k.sid] + Uncharged(k)'
  BY DEF AllCharged
<1>0. faults = 0 /\ ~Restart /\ \A p \in Procs : ~Fault(p)
  BY FaultsStay
<1>1. \A p \in Procs : pc[p] \in Owing => Busy(p)
  BY DEF Owing, Busy
<1>2. k.sid \in Sessions /\ total[k] \in Nat
  BY SessionOfKey DEF TypeOK
<1>3. Known(k.sid) =>
        /\ (\A p \in Procs : pc[p] \in Owing => evt[p].sid # k.sid) =>
             sess[k.sid].bytes = accrued[k.sid] + Uncharged(k)
        /\ \A p \in Procs : pc[p] \in Owing /\ evt[p].sid = k.sid =>
             seen[p].bytes = accrued[k.sid] + Uncharged(k)
  BY <1>0, FirstStays DEF AllCharged
<1>4. CASE UNCHANGED <<sess, accrued, seen>> /\ (\A p \in Procs : pc'[p] \in Owing \/ pc[p] \in Owing =>
               pc'[p] = pc[p] /\ evt'[p] = evt[p]) /\ Uncharged(k)' = Uncharged(k)
  BY <1>3, <1>4 DEF Known
<1>5. ASSUME NEW s \in Sessions, Nas(s)
      PROVE  /\ UNCHANGED <<sess, accrued, seen, pc, evt>>
             /\ Uncharged(k)' = Uncharged(k)
  <2>1. UNCHANGED <<sess, accrued, seen, pc, evt, raw>>
    BY <1>5, NasSteps DEF procVars, rawVars
  <2>2. k \in wire
    BY <2>1 DEF First, HandledInOrder
  <2> QED
    BY <2>1, <2>2, TotalsStay DEF Uncharged
<1>6. ASSUME NEW p \in Procs, NEW j \in wire, Receive(p, j)
      PROVE  /\ UNCHANGED <<sess, accrued, seen>> /\ Uncharged(k)' = Uncharged(k)
             /\ \A q \in Procs : pc'[q] \in Owing \/ pc[q] \in Owing => pc'[q] = pc[q] /\ evt'[q] = evt[q]
  BY <1>6 DEF Receive, nasVars, Uncharged, Owing, TypeOK
<1>7. ASSUME NEW p \in Procs, Handling(p)
      PROVE  /\ (\A q \in Procs : pc'[q] \in Owing => evt'[q].sid # k.sid) =>
                  sess'[k.sid].bytes = accrued'[k.sid] + Uncharged(k)'
             /\ \A q \in Procs : pc'[q] \in Owing /\ evt'[q].sid = k.sid =>
                  seen'[q].bytes = accrued'[k.sid] + Uncharged(k)'
  <2>0. /\ Busy(p) /\ evt[p] \in Keys /\ evt[p].sid \in Sessions
        /\ Uncharged(k)' = Uncharged(k) /\ Uncharged(k) \in Nat
    BY <1>2, <1>7, HandlingSteps, SessionOfKey DEF TypeOK, Busy, nasVars, Uncharged
  <2>1. \A q \in Procs \ {p} : pc'[q] \in Owing \/ pc[q] \in Owing =>
           pc'[q] = pc[q] /\ evt'[q] = evt[q] /\ seen'[q] = seen[q]
    BY <1>7, HandlingSteps DEF Others
  <2>2. pc'[p] \in Owing => evt'[p] = evt[p]
    BY <1>7, HandlingSteps DEF Owing
  <2>3. CASE k.sid # evt[p].sid
    <3>1. sess'[k.sid] = sess[k.sid] /\ accrued'[k.sid] = accrued[k.sid]
      BY <1>2, <1>7, <2>3, OwnSession
    <3>2. Known(k.sid)
      BY <3>1 DEF Known
    <3> QED
      BY <1>3, <2>0, <2>1, <2>2, <2>3, <3>1, <3>2
  <2>4. CASE k.sid = evt[p].sid
    <3>1. \A q \in Procs : q # p => evt[q].sid # k.sid \/ ~Busy(q)
      BY <2>0, <2>4 DEF HandledInOrder
    <3>2. \A q \in Procs \ {p} : pc'[q] \in Owing => evt'[q].sid # k.sid
      BY <1>1, <2>1, <3>1
    <3>3. ~Known(k.sid) => Uncharged(k) = Uncharged(evt[p])
      <4> SUFFICES ASSUME ~Known(k.sid) PROVE k = evt[p]
        OBVIOUS
      <4>1. /\ InsertSession(p) /\ Stored(p)
        BY <1>7, <2>4, OwnKnown DEF Known
      <4>2. evt[p].sid \notin Anonymous /\ raw' = raw
        BY <4>1, <2>0 DEF InsertSession, RowsAsRead, Busy, rawVars
      <4>3. k \in wire /\ raw[k] # "none"
        BY <4>2 DEF First, HandledInOrder
      <4>4. PICK q \in Procs : Stored(q) /\ evt[q] = k
        BY <1>0, <2>4, <4>2, <4>3 DEF StoredLeavesRow
      <4> QED
        BY <3>1, <4>4 DEF Stored, Busy
    <3>4. Known(k.sid) =>
            /\ pc[p] \in Owing => seen[p].bytes = accrued[k.sid] + Uncharged(k)
            /\ pc[p] \notin Owing => sess[k.sid].bytes = accrued[k.sid] + Uncharged(k)
      BY <1>1, <1>3, <2>4, <3>1
    <3>5. /\ pc'[p] \in Owing => seen'[p].bytes = accrued'[k.sid] + Uncharged(k)
          /\ pc'[p] \notin Owing => sess'[k.sid].bytes = accrued'[k.sid] + Uncharged(k)
      BY <1>0, <1>7, <2>0, <2>4, <3>3, <3>4, OwnCharged DEF Known
    <3> QED
      BY <2>0, <2>2, <2>4, <3>2, <3>5
  <2> QED
    BY <2>3, <2>4
<1>8. CASE UNCHANGED vars
  <2>1. UNCHANGED <<sess, accrued, seen, pc, evt, total>>
    BY <1>8 DEF vars
  <2> QED
    BY <1>4, <2>1 DEF Uncharged
<1> QED
  BY <1>0, <1>4, <1>5, <1>6, <1>7, <1>8, Steps

\* Once the events of a session are settled, its quota is its stored total less
\* that of an update that came first: whatever the number of sessions and
\* handlers and however they race, and whichever packets are lost, when those of
\* a session are handled in order and no statement fails.
THEOREM QuotaEqualsSession == ASSUME Ordered PROVE Spec => []QuotaFollowsSession
<1>1. Init => ChargeInv
  BY OrderInit, ConstantsOK DEF Init, ChargeInv, NoneOvercharged, IntervalsBefore, StoredLeavesRow, AllCharged,
     Busy, Owing, NoRow, Known, First
<1>2. ChargeInv /\ [Next]_vars => ChargeInv'
  BY OrderNext, ChargesNext, IntervalsNext, StoredNext, ChargedNext DEF ChargeInv
<1>3. ChargeInv => QuotaFollowsSession
  <2> SUFFICES ASSUME ChargeInv, faults = 0, NEW k \in Keys, First(k), k.sid \notin Anonymous, Settled(k.sid)
               PROVE  sess[k.sid].bytes = accrued[k.sid] + Uncharged(k)
    BY DEF QuotaFollowsSession
  <2> USE DEF ChargeInv, OrderInv
  <2>1. \A p \in Procs : pc[p] # "idle" => evt[p].sid # k.sid
    BY DEF Settled, InHand
  <2>2. k \in wire /\ raw[k] # "none"
    BY DEF First, HandledInOrder
  <2>3. Known(k.sid)
    BY <2>1, <2>2 DEF StoredLeavesRow, Stored
  <2> QED
    BY <2>1, <2>3 DEF AllCharged, Owing
<1> QED
  BY <1>1, <1>2, <1>3, PTL DEF Spec

-----------------------------------------------------------------------------
(* Addresses are handed over.  No catch-up request runs; packets come in    *)
(* any order, and statements fail.                                          *)

\* A stored event stays in one hand with the receipt time of its row: of two
\* handlers with copies of a packet one stores it and the other lets it go.
LEMMA OneHandNext ==
  ASSUME TypeOK, OneHandPerEvent, Runners = {}, [Next]_vars
  PROVE  OneHandPerEvent'
<1> USE DEF OneHandPerEvent, Stored, Busy
<1>0. \A p \in Procs : pc[p] # "idle" => evt[p] \in Keys
  BY DEF TypeOK
<1>1. ASSUME NEW s \in Sessions, Nas(s) PROVE OneHandPerEvent'
  BY <1>1, NasSteps DEF procVars, rawVars
<1>2. ASSUME NEW p \in Procs, NEW k \in wire, Receive(p, k) PROVE OneHandPerEvent'
  BY <1>2 DEF Receive, nasVars, rawVars, TypeOK
<1>3. ASSUME NEW p \in Procs, Handling(p) PROVE OneHandPerEvent'
  <2>0. evt[p] \in Keys /\ pc[p] # "idle" /\ wire' = wire
    BY <1>0, <1>3, HandlingSteps DEF nasVars
  <2>1. CASE Lookup(p)
    <3>1. /\ UNCHANGED <<raw, at>> /\ pc'[p] \in {"idle", "insertRaw"}
          /\ pc'[p] = "insertRaw" => evt'[p] = evt[p]
          /\ \A q \in Procs \ {p} : pc'[q] = pc[q] /\ evt'[q] = evt[q] /\ obs'[q] = obs[q]
      BY <2>1 DEF Lookup, Goto, Release, rawVars, TypeOK
    <3> QED
      BY <2>0, <3>1
  <2>2. CASE InsertRaw(p)
    <3>1. CASE raw[evt[p]] = "none"
      <4>1. /\ raw' = [raw EXCEPT ![evt[p]] = "pending"]
            /\ at' = [at EXCEPT ![evt[p]] = obs[p]]
            /\ pc' = [pc EXCEPT ![p] = "insertAcct"] /\ evt' = evt /\ obs' = obs
        BY <2>2, <3>1 DEF InsertRaw, Goto
      <4>2. \A q \in Procs : Stored(q) => evt[q] # evt[p] /\ evt[q] \in Keys
        BY <1>0, <3>1
      <4>3. \A q \in Procs \ {p} : pc'[q] = pc[q]
        BY <4>1 DEF TypeOK
      <4>4. pc'[p] = "insertAcct" /\ raw'[evt[p]] = "pending" /\ at'[evt[p]] = obs[p]
        BY <2>0, <4>1 DEF TypeOK
      <4>5. \A k \in Keys : k # evt[p] => raw'[k] = raw[k] /\ at'[k] = at[k]
        BY <4>1 DEF TypeOK
      <4>6. \A k \in Keys : raw'[k] # "none" => k \in wire'
        BY <2>0, <4>5
      <4>7. \A q \in Procs : pc'[q] # "idle" => evt'[q] \in wire'
        BY <2>0, <4>1, <4>3
      <4>8. ASSUME NEW q \in Procs, Stored(q)'
            PROVE  raw'[evt'[q]] = "pending" /\ at'[evt'[q]] = obs'[q]
        BY <4>1, <4>2, <4>3, <4>4, <4>5, <4>8
      <4>9. ASSUME NEW q \in Procs, NEW r \in Procs, Stored(q)', Stored(r)', evt'[q] = evt'[r]
            PROVE  q = r
        BY <4>1, <4>2, <4>3, <4>9
      <4> QED
        BY <4>6, <4>7, <4>8, <4>9
    <3>2. CASE raw[evt[p]] # "none"
      <4>1. /\ UNCHANGED <<raw, at>> /\ pc'[p] = "idle"
            /\ \A q \in Procs \ {p} : pc'[q] = pc[q] /\ evt'[q] = evt[q] /\ obs'[q] = obs[q]
        BY <2>2, <3>2 DEF InsertRaw, Release, rawVars, TypeOK
      <4> QED
        BY <2>0, <4>1
    <3> QED
      BY <3>1, <3>2
  <2>3. CASE Mark(p)
    <3>1. evt[p] \in Keys /\ pc[p] = "mark"
      BY <1>0, <2>3 DEF Mark
    <3>2. \A q \in Procs \ {p} : Stored(q) => evt[q] # evt[p]
      BY <3>1
    <3> QED
      BY <1>0, <2>3, <3>1, <3>2 DEF Mark, Release, nasVars, TypeOK
  <2>4. CASE UNCHANGED <<raw, at, wire>> /\ pc[p] \notin {"idle", "lookup", "insertRaw"}
    BY <1>0, <1>3, <2>4, HandlingSteps DEF Others
  <2>5. CASE Fault(p)
    BY <1>0, <2>5 DEF Fault, Abort, Release, nasVars, rawVars, TypeOK
  <2> QED
    BY <1>3, <2>1, <2>2, <2>3, <2>4, <2>5 DEF Handling, Normalise, InsertAcct, FindSession, InsertSession,
       UpdateSession, CloseOpen, OpenBinding, CloseOwn, Accrue, nasVars, rawVars
<1>4. CASE Restart
  BY <1>4 DEF Restart, nasVars, rawVars
<1>5. CASE UNCHANGED vars
  BY <1>5 DEF vars
<1> QED
  BY <1>1, <1>2, <1>3, <1>4, <1>5, StepsWithoutReplay

\* Which statement comes next is decided by the kind of the packet.
LEMMA BindingStepsNext ==
  ASSUME TypeOK, BindingSteps, Runners = {}, [Next]_vars
  PROVE  BindingSteps'
<1> DEFINE At(l, k) ==
             /\ l \in {"closeOpen", "openBinding"} => k.kind # "STOP" /\ HasIp(k.sid)
             /\ l \notin {"idle", "lookup", "insertRaw", "insertAcct", "mark"} => k.sid \notin Anonymous
             /\ l = "closeOwn" => k.kind = "STOP"
<1>0. \A p \in Procs : At(pc[p], evt[p])
  BY DEF BindingSteps
<1>a. ASSUME \A p \in Procs : At(pc'[p], evt'[p])
      PROVE  BindingSteps'
  BY <1>a DEF BindingSteps, HasIp
<1>1. ASSUME NEW s \in Sessions, Nas(s) PROVE \A q \in Procs : At(pc'[q], evt'[q])
  <2>1. pc' = pc /\ evt' = evt
    BY <1>1, NasSteps DEF procVars
  <2> QED
    BY <1>0, <2>1
<1>2. ASSUME NEW p \in Procs, NEW k \in wire, Receive(p, k) PROVE \A q \in Procs : At(pc'[q], evt'[q])
  BY <1>0, <1>2 DEF Receive, TypeOK
<1>3. ASSUME NEW p \in Procs, Handling(p) PROVE \A q \in Procs : At(pc'[q], evt'[q])
  <2>1. evt[p] \in Keys /\ pc[p] # "idle" /\ \A q \in Procs \ {p} : pc'[q] = pc[q] /\ evt'[q] = evt[q]
    BY <1>3, HandlingSteps DEF Others, TypeOK, Busy
  <2>2. CASE pc'[p] = "idle"
    BY <1>0, <2>1, <2>2
  <2>3. CASE pc'[p] # "idle"
    <3>1. evt'[p] = evt[p]
      BY <1>3, <2>3, HandlingSteps
    <3>2. At(pc[p], evt[p])
      BY <1>0
    <3>3. At(pc'[p], evt[p])
      <4>1. CASE Lookup(p) \/ InsertRaw(p) \/ InsertAcct(p) \/ Fault(p)
        BY <2>1, <2>3, <3>2, <4>1 DEF Lookup, InsertRaw, InsertAcct, AfterAcct, Fault, Abort, Goto, Release, TypeOK
      <4>2. CASE FindSession(p)
        BY <2>1, <3>2, <4>2 DEF FindSession, AfterFind, AfterSession, TypeOK, Keys
      <4>3. CASE InsertSession(p)
        BY <2>1, <2>3, <3>2, <4>3 DEF InsertSession, AfterSession, Abort, Goto, Release, TypeOK, Keys
      <4>4. CASE UpdateSession(p)
        BY <2>1, <3>2, <4>4 DEF UpdateSession, AfterUpdate, AfterSession, Goto, TypeOK, Keys
      <4>5. CASE CloseOpen(p)
        BY <2>1, <2>3, <3>2, <4>5 DEF CloseOpen, Abort, Goto, Release, TypeOK
      <4>6. CASE OpenBinding(p) \/ CloseOwn(p) \/ Accrue(p) \/ Mark(p)
        BY <2>1, <2>3, <3>2, <4>6 DEF OpenBinding, CloseOwn, Accrue, Mark, Abort, Goto, Release, TypeOK
      <4> QED
        BY <1>3, <4>1, <4>2, <4>3, <4>4, <4>5, <4>6 DEF Handling, Normalise
    <3> HIDE DEF At
    <3> QED
      BY <1>0, <2>1, <3>1, <3>3
  <2> QED
    BY <2>2, <2>3
<1>4. CASE Restart
  BY <1>4 DEF BindingSteps, Restart
<1>5. CASE UNCHANGED vars
  BY <1>5 DEF BindingSteps, vars
<1> HIDE DEF At
<1> QED
  BY <1>a, <1>1, <1>2, <1>3, <1>4, <1>5, StepsWithoutReplay

\* What every step preserves of the addresses.
HandoverInv == SessionInv /\ TimesArePositive /\ OneHandPerEvent /\ BindingSteps /\ HandedOver

\* No interval goes, and none gets another beginning.
LEMMA BeginningsStay ==
  ASSUME TypeOK, Runners = {}, [Next]_vars
  PROVE  \A b \in bindings : \E c \in bindings' : c.sid = b.sid /\ c.from = b.from
<1>1. ASSUME NEW ip, NEW S, NEW t, bindings' = Close(bindings, ip, S, t)
      PROVE  \A b \in bindings : \E c \in bindings' : c.sid = b.sid /\ c.from = b.from
  <2>1. bindings \in SUBSET Bindings
    BY DEF TypeOK
  <2>2. \A b \in bindings : \E c \in Close(bindings, ip, S, t) : c.sid = b.sid /\ c.from = b.from
    BY <2>1, ClosedStay
  <2> QED
    BY <1>1, <2>2
<1>2. CASE bindings \subseteq bindings'
  BY <1>2
<1>3. ASSUME NEW p \in Procs, CloseOpen(p)
      PROVE  \A b \in bindings : \E c \in bindings' : c.sid = b.sid /\ c.from = b.from
  BY <1>1, <1>2, <1>3 DEF CloseOpen
<1>4. ASSUME NEW p \in Procs, CloseOwn(p)
      PROVE  \A b \in bindings : \E c \in bindings' : c.sid = b.sid /\ c.from = b.from
  BY <1>1, <1>2, <1>4 DEF CloseOwn
<1>5. bindings \subseteq bindings' \/ \E p \in Procs : CloseOpen(p) \/ CloseOwn(p)
  BY StepsWithoutReplay, NasSteps DEF Receive, Restart, vars, Handling, Normalise, Lookup, InsertRaw,
     InsertAcct, FindSession, InsertSession, UpdateSession, OpenBinding, Accrue, Mark, Fault
<1> QED
  BY <1>2, <1>3, <1>4, <1>5

\* An event that opens an interval goes on to do so, or has done it; its receipt
\* time stays, and so do the beginnings of intervals.
LEMMA OpensStays ==
  ASSUME HandoverInv, Runners = {}, [Next]_vars, NEW k \in Keys, raw[k] # "none"
  PROVE  /\ at'[k] = at[k] /\ raw'[k] # "none"
         /\ Opens(k) => Opens(k)' \/ HasOpened(k)'
         /\ HasOpened(k) => HasOpened(k)'
<1> USE DEF HandoverInv, SessionInv, Stored, Busy
<1>1. ASSUME NEW s \in Sessions, Nas(s) 
      PROVE  UNCHANGED <<raw, at, pc, evt, bindings>>
  BY <1>1, NasSteps DEF procVars, rawVars
<1>2. CASE UNCHANGED <<raw, at, pc, evt, bindings>>
  BY <1>2 DEF Opens, HasOpened
<1>3. ASSUME NEW p \in Procs, NEW j \in wire, Receive(p, j)
      PROVE  /\ UNCHANGED <<raw, at, bindings>>
             /\ Opens(k) => Opens(k)'
             /\ HasOpened(k) => HasOpened(k)'
  BY <1>3 DEF Opens, HasOpened, Receive, rawVars, TypeOK
<1>4. CASE Restart
  BY <1>4 DEF Opens, HasOpened, Restart, rawVars
<1>5. ASSUME NEW p \in Procs, Handling(p)
      PROVE  /\ at'[k] = at[k] /\ raw'[k] # "none"
             /\ Opens(k) => Opens(k)' \/ HasOpened(k)'
             /\ HasOpened(k) => HasOpened(k)'
  <2>1. /\ evt[p] \in Keys /\ pc[p] # "idle"
        /\ \A q \in Procs \ {p} : pc'[q] = pc[q] /\ evt'[q] = evt[q]
        /\ pc'[p] = "idle" \/ evt'[p] = evt[p]
    BY <1>5, HandlingSteps DEF Others, TypeOK
  <2>2. at'[k] = at[k] /\ raw'[k] # "none"
    <3>1. CASE InsertRaw(p)
      BY <2>1, <3>1 DEF InsertRaw, rawVars, TypeOK
    <3>2. CASE Mark(p)
      BY <2>1, <3>2 DEF Mark, TypeOK
    <3>3. CASE UNCHANGED <<raw, at>>
      BY <3>3
    <3> QED
      BY <1>5, <3>1, <3>2, <3>3 DEF Handling, Normalise, Lookup, InsertAcct, FindSession, InsertSession,
         UpdateSession, CloseOpen, OpenBinding, CloseOwn, Accrue, Fault, rawVars
  <2>4. HasOpened(k) => HasOpened(k)'
    BY <2>2, BeginningsStay DEF HasOpened
  <2>5. ASSUME Opens(k) PROVE Opens(k)' \/ HasOpened(k)'
    <3>1. CASE Stored(p) /\ evt[p] = k
      <4>1. pc[p] \in {"closeOpen", "openBinding"} /\ at[k] = obs[p]
        BY <2>5, <3>1 DEF Opens, OneHandPerEvent
      <4>2. raw' = raw
        BY <1>5, <4>1 DEF Handling, Normalise, Lookup, InsertRaw, InsertAcct, FindSession, InsertSession,
           UpdateSession, CloseOpen, OpenBinding, CloseOwn, Accrue, Mark, Fault, rawVars
      <4>3. CASE pc'[p] \in {"idle", "openBinding"}
        BY <2>1, <2>5, <4>2, <4>3 DEF Opens
      <4>4. CASE pc'[p] \notin {"idle", "openBinding"}
        <5>1. OpenBinding(p) /\ CanInsert(bindings, [ip |-> IpOf[k.sid], sid |-> k.sid, from |-> obs[p], to |-> 0])
          BY <1>5, <3>1, <4>1, <4>4 DEF Handling, Normalise, Lookup, InsertRaw, InsertAcct, FindSession,
             InsertSession, UpdateSession, CloseOpen, OpenBinding, CloseOwn, Accrue, Mark, Fault, Abort,
             Release, Goto, TypeOK
        <5>2. [ip |-> IpOf[k.sid], sid |-> k.sid, from |-> obs[p], to |-> 0] \in bindings'
          BY <3>1, <5>1 DEF OpenBinding
        <5> QED
          BY <2>2, <4>1, <5>2 DEF HasOpened
      <4> QED
        BY <4>3, <4>4
    <3>2. CASE ~(Stored(p) /\ evt[p] = k)
      <4>1. raw'[k] = "pending" /\ ~(pc'[p] \notin {"idle", "lookup", "insertRaw"} /\ evt'[p] = k)
        <5>1. CASE evt[p] # k
          BY <1>5, <2>1, <2>5, <5>1, HandlingSteps DEF Opens
        <5>2. CASE pc[p] = "lookup"
          BY <1>5, <2>1, <2>5, <5>2 DEF Handling, Normalise, Lookup, InsertRaw, InsertAcct, FindSession,
             InsertSession, UpdateSession, CloseOpen, OpenBinding, CloseOwn, Accrue, Mark, Fault, Abort,
             Release, Goto, TypeOK, Opens, rawVars
        <5>3. CASE pc[p] = "insertRaw" /\ evt[p] = k
          BY <1>5, <2>1, <2>5, <5>3 DEF Handling, Normalise, Lookup, InsertRaw, InsertAcct, FindSession,
             InsertSession, UpdateSession, CloseOpen, OpenBinding, CloseOwn, Accrue, Mark, Fault, Abort,
             Release, Goto, TypeOK, Opens, rawVars
        <5> QED
          BY <2>1, <3>2, <5>1, <5>2, <5>3
      <4> QED
        BY <2>1, <2>5, <4>1 DEF Opens
    <3> QED
      BY <3>1, <3>2
  <2> QED
    BY <2>2, <2>4, <2>5
<1>6. CASE UNCHANGED vars
  BY <1>2, <1>6 DEF vars
<1> QED
  BY <1>1, <1>2, <1>3, <1>4, <1>5, <1>6, StepsWithoutReplay DEF Restart, rawVars

\* A closed interval is one that was, or has been closed by a STOP of its own
\* session, or by an event about to open one.
LEMMA ClosedBy ==
  ASSUME HandoverInv, NEW p \in Procs, Handling(p), NEW b \in bindings', ~IsOpen(b)
  PROVE  \/ b \in bindings
         \/ HasEnded(b.sid)
         \/ /\ evt[p] \in Keys /\ IpOf[evt[p].sid] = b.ip /\ at[evt[p]] = b.to
            /\ raw[evt[p]] # "none" /\ Opens(evt[p])
<1> USE DEF HandoverInv, SessionInv
<1>1. evt[p] \in Keys /\ obs[p] \in Nat /\ bindings \in SUBSET Bindings
  BY HandlingSteps DEF TypeOK, Busy
<1>2. CASE CloseOpen(p)
  <2>1. b \in bindings \/ (b.ip = IpOf[evt[p].sid] /\ b.to = obs[p])
    BY <1>1, <1>2, ClosedAt DEF CloseOpen
  <2>2. pc[p] = "closeOpen" /\ Stored(p)
    BY <1>2 DEF CloseOpen, Stored
  <2>3. raw[evt[p]] = "pending" /\ at[evt[p]] = obs[p] /\ evt[p].kind # "STOP"
    BY <2>2 DEF OneHandPerEvent, BindingSteps
  <2>4. Opens(evt[p])
    BY <2>2, <2>3 DEF Opens, OneHandPerEvent
  <2> QED
    BY <1>1, <2>1, <2>3, <2>4
<1>3. CASE CloseOwn(p)
  <2>1. b \in bindings \/ b.sid = evt[p].sid
    BY <1>1, <1>3, ClosedAt DEF CloseOwn
  <2>2. pc[p] = "closeOwn" /\ evt[p].kind = "STOP" /\ evt[p].sid \notin Anonymous
    BY <1>3 DEF CloseOwn, BindingSteps
  <2>3. HasEnded(evt[p].sid)
    BY <2>2 DEF HandlersLeaveSession, HandlerLeavesSession, SessionDone
  <2> QED
    BY <2>1, <2>3
<1>4. CASE OpenBinding(p)
  BY <1>4 DEF OpenBinding, IsOpen
<1>5. CASE bindings' = bindings
  BY <1>5
<1> QED
  BY <1>2, <1>3, <1>4, <1>5 DEF Handling, Normalise, Lookup, InsertRaw, InsertAcct, FindSession,
     InsertSession, UpdateSession, Accrue, Mark, Fault

\* A session made ACTIVE with an address is made so by an event that goes on to
\* open an interval.
LEMMA ActiveBy ==
  ASSUME HandoverInv, NEW p \in Procs, Handling(p), NEW s \in Sessions, HasIp(s),
         sess'[s].status = "ACTIVE", sess[s].status # "ACTIVE"
  PROVE  \E k \in Keys : k.sid = s /\ Opens(k)'
<1> USE DEF HandoverInv, SessionInv
<1>1. evt[p] \in Keys /\ evt[p].sid \in Sessions /\ Others(p)
  BY HandlingSteps, SessionOfKey DEF TypeOK, Busy
<1>2. CASE InsertSession(p)
  <2>1. /\ evt[p].sid = s /\ evt[p].kind # "STOP" /\ pc[p] = "insertSession"
        /\ pc' = [pc EXCEPT ![p] = AfterSession(evt[p])] /\ evt' = evt /\ raw' = raw
    BY <1>1, <1>2 DEF InsertSession, Goto, rawVars, TypeOK
  <2>2. pc'[p] = "closeOpen"
    BY <1>1, <2>1 DEF AfterSession, TypeOK, Keys
  <2>3. Stored(p) /\ raw[evt[p]] = "pending"
    BY <2>1 DEF Stored, OneHandPerEvent
  <2>4. \A q \in Procs \ {p} : pc'[q] = pc[q] /\ (Stored(q) => evt[q] # evt[p])
    BY <1>1, <2>3 DEF OneHandPerEvent, Others
  <2>5. PICK k \in Keys : k = evt[p]
    BY <1>1
  <2>6. Opens(k)'
    BY <2>1, <2>2, <2>3, <2>4, <2>5 DEF Opens, Stored
  <2> QED
    BY <2>1, <2>5, <2>6
<1>3. CASE UpdateSession(p)
  BY <1>1, <1>3 DEF UpdateSession, StatusAfter, TypeOK, SessionRows
<1>4. CASE sess' = sess
  BY <1>4
<1> QED
  BY <1>2, <1>3, <1>4 DEF Handling, Normalise, Lookup, InsertRaw, InsertAcct, FindSession,
     CloseOpen, OpenBinding, CloseOwn, Accrue, Mark, Fault

\* Every interval ends with its session or for one that is opened.
LEMMA HandedNext ==
  ASSUME HandoverInv, Runners = {}, [Next]_vars
  PROVE  HandedOver'
<1> USE DEF HandoverInv, SessionInv
<1> DEFINE Taken(b) == \E k \in Keys : IpOf[k.sid] = b.ip /\ at[k] = b.to /\ k.kind # "STOP"
                                       /\ raw[k] # "none" /\ (Opens(k) \/ HasOpened(k))
           TakenNext(b) == \E k \in Keys : IpOf[k.sid] = b.ip /\ at'[k] = b.to /\ k.kind # "STOP"
                                       /\ raw'[k] # "none" /\ (Opens(k)' \/ HasOpened(k)')
<1>0. \A s \in Sessions : HasEnded(s) => HasEnded(s)'
  BY RowsStay
<1>1. \A b \in bindings' : b.sid \in Sessions
  BY TypeNext DEF TypeOK, Bindings
<1>2. ASSUME NEW b, Taken(b) PROVE TakenNext(b)
  BY <1>2, OpensStays
<1>3. ASSUME NEW b \in bindings', ~IsOpen(b)
      PROVE  HasEnded(b.sid)' \/ TakenNext(b)
  <2>1. CASE b \in bindings
    BY <1>0, <1>1, <1>2, <1>3, <2>1 DEF HandedOver
  <2>2. ASSUME NEW p \in Procs, Handling(p) PROVE HasEnded(b.sid)' \/ TakenNext(b)
    <3>1. CASE HasEnded(b.sid)
      BY <1>0, <1>1, <3>1
    <3>2. CASE /\ evt[p] \in Keys /\ IpOf[evt[p].sid] = b.ip /\ at[evt[p]] = b.to
               /\ raw[evt[p]] # "none" /\ Opens(evt[p])
      <4>1. Taken(b)
        BY <3>2 DEF Opens
      <4> QED
        BY <1>2, <4>1
    <3> QED
      BY <1>3, <2>1, <2>2, <3>1, <3>2, ClosedBy
  <2>3. CASE bindings' = bindings
    BY <2>1, <2>3
  <2> QED
    BY <2>2, <2>3, StepsWithoutReplay, NasSteps DEF Receive, Restart, vars
<1>4. ASSUME NEW s \in Sessions, sess'[s].status = "ACTIVE", HasIp(s)
      PROVE  (\E b \in bindings' : b.sid = s) \/ \E k \in Keys : k.sid = s /\ Opens(k)'
  <2>1. CASE sess[s].status = "ACTIVE"
    <3>0. (\E b \in bindings : b.sid = s) \/ \E k \in Keys : k.sid = s /\ Opens(k)
      BY <1>4, <2>1 DEF HandedOver
    <3>1. CASE \E b \in bindings : b.sid = s
      <4>1. PICK b \in bindings : b.sid = s
        BY <3>1
      <4>2. \E c \in bindings' : c.sid = b.sid
        BY <4>1, BeginningsStay
      <4> QED
        BY <4>1, <4>2
    <3>2. CASE \E k \in Keys : k.sid = s /\ Opens(k)
      <4>1. PICK k \in Keys : k.sid = s /\ Opens(k)
        BY <3>2
      <4>2. Opens(k)' \/ HasOpened(k)'
        BY <4>1, OpensStays DEF Opens
      <4> QED
        BY <4>1, <4>2 DEF HasOpened
    <3> QED
      BY <3>0, <3>1, <3>2
  <2>2. CASE sess[s].status # "ACTIVE"
    <3>1. ASSUME NEW p \in Procs, Handling(p) PROVE \E k \in Keys : k.sid = s /\ Opens(k)'
      BY <1>4, <2>2, <3>1, ActiveBy
    <3>2. sess' # sess
      BY <1>4, <2>2
    <3> QED
      BY <3>1, <3>2, StepsWithoutReplay, NasSteps DEF Receive, Restart, vars
  <2> QED
    BY <2>1, <2>2
<1> QED
  BY <1>3, <1>4 DEF HandedOver, HasIp, IsOpen

\* An address goes from one session to another, or its interval ends with the
\* session; a running session has had its own: for any number of sessions and
\* handlers, packets in any order, lost or repeated, and failures anywhere.
THEOREM AddressesAreHandedOver == ASSUME Runners = {} PROVE Spec => []AddressIsHandedOver
<1>1. Init => HandoverInv
  BY SessionInit DEF Init, HandoverInv, TimesArePositive, OneHandPerEvent, BindingSteps, HandedOver,
     Stored, Busy, NoRow
<1>2. HandoverInv /\ [Next]_vars => HandoverInv'
  <2> SUFFICES ASSUME HandoverInv, [Next]_vars PROVE HandoverInv'
    OBVIOUS
  <2>1. SessionInv' /\ TimesArePositive'
    BY TypeNext, HandlersNext, ProcessedNext, TimesNext DEF HandoverInv, SessionInv
  <2> QED
    BY <2>1, OneHandNext, BindingStepsNext, HandedNext DEF HandoverInv, SessionInv
<1>3. HandoverInv => AddressIsHandedOver
  <2> SUFFICES ASSUME HandoverInv PROVE AddressIsHandedOver
    OBVIOUS
  <2>1. ASSUME NEW b \in bindings, ~IsOpen(b), ~HasEnded(b.sid)
        PROVE  \E k \in Keys : TakesOver(k, b)
    BY <2>1 DEF HandoverInv, HandedOver, TakesOver, Opens, HasOpened
  <2>2. ASSUME NEW s \in Sessions, sess[s].status = "ACTIVE", HasIp(s), Settled(s)
        PROVE  \E b \in bindings : b.sid = s
    <3>1. \A k \in Keys : k.sid = s => ~Opens(k)
      BY <2>2 DEF HandoverInv, OneHandPerEvent, Settled, Opens
    <3> QED
      BY <2>2, <3>1 DEF HandoverInv, HandedOver
  <2> QED
    BY <2>1, <2>2 DEF AddressIsHandedOver
<1> QED
  BY <1>1, <1>2, <1>3, PTL DEF Spec

==============================================================================
