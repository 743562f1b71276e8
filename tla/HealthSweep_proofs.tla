------------------------- MODULE HealthSweep_proofs -------------------------
(***************************************************************************)
(* Proofs about the health sweep, for every set of endpoints and their     *)
(* priorities, of overlapping sweeps, forced checks and administrators: no *)
(* breaker is left half-open without the probe it waits for, and whatever  *)
(* has happened, a run that is alone puts the alerts and the active        *)
(* endpoint right.                                                         *)
(***************************************************************************)
EXTENDS HealthSweep, TLAPS

\* What the operations of the breaker return.
LEMMA BreakerOps ==
  ASSUME NEW b \in Breakers
  PROVE  /\ New \in Breakers /\ OnSuccess(b) \in Breakers
         /\ OnFailure(b) \in Breakers /\ Asked(b) \in Breakers /\ CoolDown(b) \in Breakers
         /\ New.state # "HALF_OPEN" /\ OnSuccess(b).state # "HALF_OPEN"
         /\ OnFailure(b).state # "HALF_OPEN"
         /\ CoolDown(b).state = b.state
         /\ Asked(b).state = "HALF_OPEN" =>
              b.state = "HALF_OPEN" \/ (b.state # "CLOSED" /\ CanProbe(b))
<1>1. /\ b.state \in {"CLOSED", "OPEN", "HALF_OPEN"} /\ b.fails \in 0..Threshold
      /\ b.cooled \in BOOLEAN /\ b.inFlight \in BOOLEAN
      /\ b = [state |-> b.state, fails |-> b.fails, cooled |-> b.cooled,
              inFlight |-> b.inFlight]
  BY DEF Breakers
<1>2. New \in Breakers /\ New.state # "HALF_OPEN"
  BY ThresholdOK DEF Breakers, New
<1>3. Counted(b) \in 0..Threshold
  BY <1>1, ThresholdOK DEF Counted
<1>4. OnFailure(b) \in Breakers /\ OnFailure(b).state # "HALF_OPEN"
  BY <1>1, <1>3 DEF OnFailure, Breakers
<1>5. Asked(b) \in Breakers
  BY <1>1 DEF Asked, Breakers
<1>6. Asked(b).state = "HALF_OPEN" =>
        b.state = "HALF_OPEN" \/ (b.state # "CLOSED" /\ CanProbe(b))
  BY <1>1 DEF Asked
<1>7. CoolDown(b) \in Breakers /\ CoolDown(b).state = b.state
  BY <1>1 DEF CoolDown, Breakers
<1> QED
  BY <1>2, <1>4, <1>5, <1>6, <1>7 DEF OnSuccess

-----------------------------------------------------------------------------
(* The breakers.                                                           *)

LEMMA BInvInit == Init => BInv
BY BreakerOps, ThresholdOK
DEF Init, BInv, BreakerTypes, ChecksFirst, HalfOpenHasProbe, Checks, New, Breakers

\* A run that begins replaces no probe, and a trial probe comes with it where
\* a breaker has let one through.
LEMMA BeginKeeps ==
  ASSUME BInv, NEW r \in Runs, NEW on \in SUBSET Endpoints, NEW force \in BOOLEAN,
         Begin(r, on, force)
  PROVE  BInv'
<1>1. /\ phase[r] = "idle" /\ phase' = [phase EXCEPT ![r] = "checking"]
      /\ chk' = [chk EXCEPT ![r] =
               [e \in Endpoints |-> IF e \in on THEN FirstCheck(e, force) ELSE "none"]]
      /\ breaker' = [e \in Endpoints |->
                   IF e \in on /\ ~maint[e] /\ ~force THEN Asked(breaker[e]) ELSE breaker[e]]
  BY DEF Begin
<1>2. \A e \in Endpoints : FirstCheck(e, force) \in Checks
  BY DEF FirstCheck, Checks
<1>3. BreakerTypes'
  BY <1>1, <1>2, BreakerOps DEF BInv, BreakerTypes, Checks
<1>4. ChecksFirst'
  BY <1>1 DEF BInv, BreakerTypes, ChecksFirst
<1>5. ASSUME NEW e \in Endpoints, breaker'[e].state = "HALF_OPEN"
      PROVE  \E q \in Runs : chk'[q][e] = "trial"
  <2>1. CASE breaker[e].state = "HALF_OPEN"
    <3>1. PICK q \in Runs : chk[q][e] = "trial"
      BY <2>1 DEF BInv, HalfOpenHasProbe
    <3>2. q # r
      BY <1>1, <3>1 DEF BInv, ChecksFirst
    <3> QED
      BY <1>1, <3>1, <3>2 DEF BInv, BreakerTypes
  <2>2. CASE breaker[e].state # "HALF_OPEN"
    <3>1. e \in on /\ ~maint[e] /\ ~force /\ breaker' [e] = Asked(breaker[e])
      BY <1>1, <1>5, <2>2
    <3>2. breaker[e].state # "CLOSED" /\ CanProbe(breaker[e])
      BY <1>5, <2>2, <3>1, BreakerOps DEF BInv, BreakerTypes
    <3>3. FirstCheck(e, force) = "trial"
      BY <3>1, <3>2 DEF FirstCheck
    <3> QED
      BY <1>1, <3>1, <3>3 DEF BInv, BreakerTypes
  <2> QED
    BY <2>1, <2>2
<1> QED
  BY <1>3, <1>4, <1>5 DEF BInv, HalfOpenHasProbe

\* A step of a check that is not probing loses no probe.
LEMMA CheckKeeps ==
  ASSUME BInv, NEW r \in Runs, NEW e \in Endpoints, NEW next \in Checks,
         Check(r, e, next), chk[r][e] \notin Probing \union {"none"},
         breaker' = breaker, phase' = phase
  PROVE  BInv'
<1>1. chk' = [chk EXCEPT ![r][e] = next] /\ chk[r][e] # "trial" /\ phase[r] = "checking"
  BY DEF Check, Probing, BInv, BreakerTypes, ChecksFirst
<1>2. BreakerTypes' /\ ChecksFirst'
  BY <1>1 DEF BInv, BreakerTypes, ChecksFirst
<1>3. ASSUME NEW f \in Endpoints, breaker'[f].state = "HALF_OPEN"
      PROVE  \E q \in Runs : chk'[q][f] = "trial"
  <2>1. PICK q \in Runs : chk[q][f] = "trial"
    BY <1>3 DEF BInv, HalfOpenHasProbe
  <2>2. chk'[q][f] = "trial"
    BY <1>1, <2>1 DEF BInv, BreakerTypes
  <2> QED
    BY <2>2
<1> QED
  BY <1>2, <1>3 DEF BInv, HalfOpenHasProbe

\* A probe that reports leaves its breaker open or closed.
LEMMA ReportKeeps ==
  ASSUME BInv, NEW r \in Runs, NEW e \in Endpoints, Report(r, e)
  PROVE  BInv'
<1>1. /\ chk[r][e] \in Probing /\ phase' = phase
      /\ chk' = [chk EXCEPT ![r][e] = "readState"]
      /\ breaker' = [breaker EXCEPT ![e] = IF up[e] THEN OnSuccess(@) ELSE OnFailure(@)]
  BY DEF Report, Check
<1>2. phase[r] = "checking"
  BY <1>1 DEF Probing, BInv, ChecksFirst
<1>3. BreakerTypes' /\ ChecksFirst'
  BY <1>1, <1>2, BreakerOps DEF BInv, BreakerTypes, ChecksFirst, Checks
<1>4. breaker'[e].state # "HALF_OPEN"
  BY <1>1, BreakerOps DEF BInv, BreakerTypes
<1>5. ASSUME NEW f \in Endpoints, breaker'[f].state = "HALF_OPEN"
      PROVE  \E q \in Runs : chk'[q][f] = "trial"
  <2>1. f # e /\ breaker[f].state = "HALF_OPEN"
    BY <1>1, <1>4, <1>5 DEF BInv, BreakerTypes
  <2>2. PICK q \in Runs : chk[q][f] = "trial"
    BY <2>1 DEF BInv, HalfOpenHasProbe
  <2>3. chk'[q][f] = "trial"
    BY <1>1, <2>1, <2>2 DEF BInv, BreakerTypes
  <2> QED
    BY <2>3
<1> QED
  BY <1>3, <1>5 DEF BInv, HalfOpenHasProbe

\* A run that ends, or chooses, has no check under way.
LEMMA RestKeeps ==
  ASSUME BInv, NEW r \in Runs, NEW p \in {"idle", "writing"},
         phase' = [phase EXCEPT ![r] = p] \/ phase' = phase,
         chk' = chk, breaker' = breaker,
         \A e \in Endpoints : chk[r][e] = "none"
  PROVE  BInv'
BY DEF BInv, BreakerTypes, ChecksFirst, HalfOpenHasProbe

\* A step outside the runs.
LEMMA OutsideKeeps ==
  ASSUME BInv, UNCHANGED runVars, UNCHANGED breaker
  PROVE  BInv'
BY DEF BInv, BreakerTypes, ChecksFirst, HalfOpenHasProbe, runVars

LEMMA CheckOneKeeps ==
  ASSUME BInv, NEW r \in Runs, NEW e \in Endpoints, CheckOne(r, e)
  PROVE  BInv'
<1>1. CASE Report(r, e)
  BY <1>1, ReportKeeps
<1>2. CASE ReadState(r, e)
  <2>1. PICK next \in Checks : Check(r, e, next)
    BY <1>2 DEF ReadState, Checks
  <2> QED
    BY <1>2, <2>1, CheckKeeps DEF ReadState, Probing
<1>3. CASE InsertState(r, e)
  <2>1. PICK next \in Checks : Check(r, e, next)
    BY <1>3 DEF InsertState, AfterState, Throw, Checks
  <2> QED
    BY <1>3, <2>1, CheckKeeps DEF InsertState, Probing
<1>4. CASE UpdateState(r, e)
  <2>1. PICK next \in Checks : Check(r, e, next)
    BY <1>4 DEF UpdateState, AfterState, Checks
  <2> QED
    BY <1>4, <2>1, CheckKeeps DEF UpdateState, Probing
<1>5. CASE ResolveAlert(r, e)
  BY <1>5, CheckKeeps DEF ResolveAlert, Probing, Checks
<1>6. CASE FindAlert(r, e)
  <2>1. PICK next \in Checks : Check(r, e, next)
    BY <1>6 DEF FindAlert, Checks
  <2> QED
    BY <1>6, <2>1, CheckKeeps DEF FindAlert, Probing
<1>7. CASE InsertAlert(r, e)
  BY <1>7, CheckKeeps DEF InsertAlert, Probing, Checks
<1> QED
  BY <1>1, <1>2, <1>3, <1>4, <1>5, <1>6, <1>7 DEF CheckOne

LEMMA RecomputeKeeps ==
  ASSUME BInv, NEW r \in Runs, Recompute(r) \/ FaultInSelection(r)
  PROVE  BInv'
<1>1. CASE GiveUp(r)
  BY <1>1, RestKeeps DEF GiveUp, Checked, Rest
<1>2. CASE SelectActive(r)
  BY <1>2, RestKeeps DEF SelectActive, Checked
<1>3. CASE WriteActive(r)
  BY <1>3, RestKeeps DEF WriteActive, Rest, BInv, ChecksFirst
<1>4. CASE FaultInSelection(r)
  BY <1>4, RestKeeps DEF FaultInSelection, Checked, Rest, BInv, ChecksFirst
<1> QED
  BY <1>1, <1>2, <1>3, <1>4 DEF Recompute

LEMMA BInvNext == BInv /\ [Next]_vars => BInv'
<1> SUFFICES ASSUME BInv, [Next]_vars
             PROVE  BInv'
  OBVIOUS
<1>1. CASE UNCHANGED vars
  BY <1>1, OutsideKeeps DEF vars
<1>2. ASSUME NEW e \in Endpoints, Flip(e)
      PROVE  BInv'
  BY <1>2, OutsideKeeps DEF Flip
<1>3. ASSUME NEW e \in Endpoints, Cool(e)
      PROVE  BInv'
  <2>1. \A f \in Endpoints : breaker'[f] \in Breakers /\ breaker'[f].state = breaker[f].state
    BY <1>3, BreakerOps DEF Cool, BInv, BreakerTypes
  <2> QED
    BY <1>3, <2>1 DEF Cool, BInv, BreakerTypes, ChecksFirst, HalfOpenHasProbe, runVars
<1>4. ASSUME NEW r \in Sweepers, StartSweep(r)
      PROVE  BInv'
  BY <1>4, BeginKeeps DEF StartSweep, Runs, Listed
<1>5. ASSUME NEW r \in Forcers, NEW e \in Endpoints, StartForced(r, e)
      PROVE  BInv'
  BY <1>5, BeginKeeps DEF StartForced, Runs
<1>6. ASSUME NEW r \in Runs, Advance(r) \/ FaultInSelection(r)
      PROVE  BInv'
  BY <1>6, CheckOneKeeps, RecomputeKeeps DEF Advance
<1>7. ASSUME NEW r \in Runs, NEW e \in Endpoints, Fault(r, e)
      PROVE  BInv'
  BY <1>7, CheckKeeps DEF Fault, Throw, Checks
<1>8. ASSUME NEW a \in Admins, NEW e \in Endpoints, Administer(a, e)
      PROVE  BInv'
  BY <1>8, OutsideKeeps DEF Administer, AskToDrop, Enable, SetMaintenance, ResolveByHand
<1>9. ASSUME NEW a \in Admins, Drop(a) \/ Maintain(a)
      PROVE  BInv'
  BY <1>9, OutsideKeeps DEF Drop, Maintain
<1>10. CASE Restart
  BY <1>10, BreakerOps, ThresholdOK
  DEF Restart, BInv, BreakerTypes, ChecksFirst, HalfOpenHasProbe, Checks, New, Breakers
<1> QED
  BY <1>1, <1>2, <1>3, <1>4, <1>5, <1>6, <1>7, <1>8, <1>9, <1>10 DEF Next

\* No breaker is left half-open without the probe it waits for.
THEOREM HalfOpenIsProbed == Spec => []HalfOpenHasProbe
<1>1. BInv => HalfOpenHasProbe
  BY DEF BInv
<1> QED
  BY <1>1, BInvInit, BInvNext, PTL DEF Spec

-----------------------------------------------------------------------------
(* Alerts and the choice of the active endpoint.                           *)

\* What one check of a run changes: nothing of the other endpoints and runs.
LEMMA CheckFacts ==
  ASSUME BInv, SweepTypes, NEW r \in Runs, NEW e \in Endpoints, CheckOne(r, e)
  PROVE  /\ phase[r] = "checking" /\ chk[r][e] # "none"
         /\ UNCHANGED <<phase, request, enabled, maint, gone, may, disturbed, pick, left>>
         /\ \A q \in Runs, f \in Endpoints : q # r \/ f # e => chk'[q][f] = chk[q][f]
         /\ \A f \in Endpoints \ {e} :
              status'[f] = status[f] /\ alert'[f] = alert[f] /\ breaker'[f] = breaker[f]
<1>1. chk[r][e] # "none"
  BY DEF CheckOne, Report, Probing, ReadState, InsertState, UpdateState, ResolveAlert, FindAlert, InsertAlert
<1>2. phase[r] = "checking"
  BY <1>1 DEF BInv, ChecksFirst
<1>3. \E next : Check(r, e, next)
  BY DEF CheckOne, Report, ReadState, InsertState, UpdateState, ResolveAlert, FindAlert, InsertAlert, Throw
<1>4. \A q \in Runs, f \in Endpoints : q # r \/ f # e => chk'[q][f] = chk[q][f]
  BY <1>3 DEF Check, BInv, BreakerTypes
<1>5. UNCHANGED <<phase, request, enabled, maint, gone, may, disturbed, pick, left>>
  BY DEF CheckOne, Report, ReadState, InsertState, UpdateState, ResolveAlert, FindAlert, InsertAlert, notes, rowVars
<1>6. /\ status' = status \/ \E s : status' = [status EXCEPT ![e] = s]
      /\ alert' = alert \/ \E s : alert' = [alert EXCEPT ![e] = s]
      /\ breaker' = breaker \/ \E s : breaker' = [breaker EXCEPT ![e] = s]
  BY DEF CheckOne, Report, ReadState, InsertState, UpdateState, ResolveAlert, FindAlert, InsertAlert, healthVars
<1> QED
  BY <1>1, <1>2, <1>4, <1>5, <1>6 DEF SweepTypes, BInv, BreakerTypes

LEMMA SweepTypesInit == Init => SweepTypes
<1> SUFFICES ASSUME Init PROVE SweepTypes
  OBVIOUS
<1>1. status \in [Endpoints -> {"NONE", "HEALTHY", "UNHEALTHY", "MAINTENANCE"}]
  BY DEF Init
<1>2. want \in [Runs -> [Endpoints -> {"NONE", "HEALTHY", "UNHEALTHY", "MAINTENANCE"}]]
  BY DEF Init
<1>3. active \in [Endpoints -> BOOLEAN] /\ alert \in [Endpoints -> BOOLEAN]
  BY DEF Init
<1>4. /\ failed \in [Runs -> BOOLEAN] /\ disturbed \in BOOLEAN
      /\ \A r \in Runs : ~failed[r]
  BY DEF Init
<1>5. pick \in [Runs -> Endpoints \union {NoEndpoint}] /\ left \in [Runs -> SUBSET Endpoints]
  BY DEF Init
<1> QED
  BY <1>1, <1>2, <1>3, <1>4, <1>5 DEF SweepTypes

LEMMA CheckTypes ==
  ASSUME BInv, SweepTypes, NEW r \in Runs, NEW e \in Endpoints, CheckOne(r, e)
  PROVE  SweepTypes'
<1>1. phase[r] = "checking" /\ phase' = phase
  BY CheckFacts
<1>2. CASE Report(r, e)
  BY <1>1, <1>2 DEF Report, SweepTypes, healthVars, notes
<1>3. CASE ReadState(r, e)
  BY <1>1, <1>3 DEF ReadState, SweepTypes, healthVars, notes
<1>4. CASE InsertState(r, e)
  <2>1. CASE status[e] = "NONE"
    BY <1>1, <1>4, <2>1 DEF InsertState, SweepTypes, notes
  <2>2. CASE status[e] # "NONE"
    <3>1. failed' \in [Runs -> BOOLEAN]
      BY <1>4, <2>2 DEF InsertState, Throw, SweepTypes
    <3>2. \A q \in Runs : q # r => failed'[q] = failed[q]
      BY <1>4, <2>2 DEF InsertState, Throw, SweepTypes
    <3> QED
      BY <1>1, <1>4, <2>2, <3>1, <3>2 DEF InsertState, SweepTypes, healthVars, notes
  <2> QED
    BY <2>1, <2>2
<1>5. CASE UpdateState(r, e)
  <2>1. (active[e] /\ want[r][e] # "MAINTENANCE") \in BOOLEAN
    OBVIOUS
  <2>2. active' \in [Endpoints -> BOOLEAN]
    BY <1>5, <2>1 DEF UpdateState, SweepTypes
  <2>3. status' \in [Endpoints -> {"NONE", "HEALTHY", "UNHEALTHY", "MAINTENANCE"}]
    BY <1>5 DEF UpdateState, SweepTypes
  <2> QED
    BY <1>1, <1>5, <2>2, <2>3 DEF UpdateState, SweepTypes, notes
<1>6. CASE ResolveAlert(r, e) \/ FindAlert(r, e) \/ InsertAlert(r, e)
  BY <1>1, <1>6 DEF ResolveAlert, FindAlert, InsertAlert, SweepTypes, healthVars, notes
<1> QED
  BY <1>2, <1>3, <1>4, <1>5, <1>6 DEF CheckOne

\* A run that rests leaves nothing behind.
LEMMA RestTypes ==
  ASSUME BInv, SweepTypes, NEW r \in Runs, Rest(r),
         status' = status, active' \in [Endpoints -> BOOLEAN], alert' = alert, disturbed' \in BOOLEAN
  PROVE  SweepTypes'
BY DEF Rest, SweepTypes, BInv, BreakerTypes

LEMMA SweepTypesNext == BInv /\ SweepTypes /\ [Next]_vars => SweepTypes'
<1> SUFFICES ASSUME BInv, SweepTypes, [Next]_vars
             PROVE  SweepTypes'
  OBVIOUS
<1>1. CASE UNCHANGED vars
  BY <1>1 DEF vars, SweepTypes, runVars, healthVars, notes
<1>2. ASSUME NEW e \in Endpoints, Flip(e) \/ Cool(e) PROVE SweepTypes'
  <2>1. disturbed' \in BOOLEAN
    BY <1>2 DEF Flip, Cool, Spend, notes, SweepTypes
  <2> QED
    BY <1>2, <2>1 DEF Flip, Cool, SweepTypes, runVars, healthVars
<1>3. ASSUME NEW r \in Runs, NEW on, NEW force, Begin(r, on, force), disturbed' \in BOOLEAN
      PROVE  SweepTypes'
  <2>1. \A q \in Runs : phase'[q] = "idle" => phase[q] = "idle"
    BY <1>3 DEF Begin, BInv, BreakerTypes
  <2>2. want' \in [Runs -> [Endpoints -> {"NONE", "HEALTHY", "UNHEALTHY", "MAINTENANCE"}]]
    BY <1>3 DEF Begin, SweepTypes
  <2> QED
    BY <1>3, <2>1, <2>2 DEF Begin, SweepTypes, healthVars
<1>4. ASSUME NEW r \in Sweepers, StartSweep(r) PROVE SweepTypes'
  BY <1>3, <1>4 DEF StartSweep, Runs
<1>5. ASSUME NEW r \in Forcers, NEW e \in Endpoints, StartForced(r, e) PROVE SweepTypes'
  BY <1>3, <1>5 DEF StartForced, Runs
<1>6. ASSUME NEW r \in Runs, Recompute(r) PROVE SweepTypes'
  <2>1. CASE GiveUp(r)
    BY <2>1, RestTypes DEF GiveUp, healthVars, notes, SweepTypes
  <2>2. CASE SelectActive(r)
    <3>1. \A e \in IF Healthy = {} THEN {NoEndpoint} ELSE Best(Healthy) : e \in Endpoints \union {NoEndpoint}
      BY DEF Healthy, Listed, Best
    <3>2. pick' \in [Runs -> Endpoints \union {NoEndpoint}] /\ left' \in [Runs -> SUBSET Endpoints]
      BY <2>2, <3>1 DEF SelectActive, SweepTypes, Listed
    <3>3. \A q \in Runs : phase'[q] = "idle" => phase[q] = "idle"
      BY <2>2 DEF SelectActive, BInv, BreakerTypes
    <3> QED
      BY <2>2, <3>2, <3>3 DEF SelectActive, SweepTypes, healthVars, notes
  <2>3. CASE WriteActive(r)
    <3>1. PICK e \in Best(left[r]) :
            /\ active' = [active EXCEPT ![e] = status[e] # "NONE" /\ e = pick[r]]
            /\ IF left[r] = {e} THEN Rest(r)
               ELSE left' = [left EXCEPT ![r] = @ \ {e}] /\ UNCHANGED <<phase, failed, pick, want>>
            /\ UNCHANGED <<status, alert, disturbed>>
      BY <2>3 DEF WriteActive, notes
    <3>2. (status[e] # "NONE" /\ e = pick[r]) \in BOOLEAN
      OBVIOUS
    <3>3. active' \in [Endpoints -> BOOLEAN]
      BY <3>1, <3>2 DEF SweepTypes
    <3>4. CASE left[r] = {e}
      BY <3>1, <3>3, <3>4, RestTypes DEF SweepTypes
    <3>5. CASE left[r] # {e}
      BY <3>1, <3>3, <3>5 DEF SweepTypes
    <3> QED
      BY <3>4, <3>5
  <2> QED
    BY <1>6, <2>1, <2>2, <2>3 DEF Recompute
<1>7. ASSUME NEW r \in Runs, NEW e \in Endpoints, CheckOne(r, e) PROVE SweepTypes'
  BY <1>7, CheckTypes
<1>8. ASSUME NEW r \in Runs, FaultInSelection(r) PROVE SweepTypes'
  <2>1. disturbed' \in BOOLEAN
    BY <1>8 DEF FaultInSelection, Spend
  <2> QED
    BY <1>8, <2>1, RestTypes DEF FaultInSelection, healthVars, SweepTypes
<1>9. ASSUME NEW r \in Runs, NEW e \in Endpoints, Fault(r, e) PROVE SweepTypes'
  <2>1. disturbed' \in BOOLEAN
    BY <1>9 DEF Fault, Spend
  <2>2. phase[r] = "checking" /\ phase' = phase
    BY <1>9 DEF Fault, BInv, ChecksFirst
  <2> QED
    BY <1>9, <2>1, <2>2 DEF Fault, Throw, SweepTypes, healthVars
<1>10. ASSUME NEW a \in Admins, NEW e \in Endpoints, Administer(a, e) PROVE SweepTypes'
  <2>1. disturbed' \in BOOLEAN /\ UNCHANGED <<status, active, runVars>>
    BY <1>10 DEF Administer, AskToDrop, Ask, Enable, SetMaintenance, ResolveByHand, Spend, healthVars
  <2>2. alert' \in [Endpoints -> BOOLEAN]
    BY <1>10 DEF Administer, AskToDrop, Ask, Enable, SetMaintenance, ResolveByHand, SweepTypes
  <2> QED
    BY <2>1, <2>2 DEF SweepTypes, runVars
<1>11. ASSUME NEW a \in Admins, Drop(a) \/ Maintain(a) PROVE SweepTypes'
  BY <1>11 DEF Drop, Maintain, SweepTypes, runVars, healthVars, notes
<1>12. CASE Restart
  <2>1. disturbed' \in BOOLEAN
    BY <1>12 DEF Restart, Spend
  <2> QED
    BY <1>12, <2>1 DEF Restart, SweepTypes, healthVars
<1> QED
  BY <1>1, <1>2, <1>4, <1>5, <1>6, <1>7, <1>8, <1>9, <1>10, <1>11, <1>12 DEF Next, Advance

-----------------------------------------------------------------------------
\* Steps that touch no table and no run.
Aside ==
  /\ UNCHANGED <<rowVars, healthVars, alert, runVars, request, disturbed>>
  /\ \A e \in Endpoints : breaker'[e].state = breaker[e].state

\* What may have happened when nothing has disturbed the runs.
LEMMA SweepSteps ==
  ASSUME BInv, SweepTypes, Alone, [Next]_vars, ~disturbed'
  PROVE  \/ Aside
         \/ \E r \in Runs, on \in SUBSET Endpoints, force \in BOOLEAN :
              /\ Begin(r, on, force)
              /\ Quiet
              /\ IF force THEN disturbed' = disturbed ELSE on = Listed
         \/ /\ disturbed' = disturbed
            /\ \E r \in Runs : Recompute(r) \/ \E e \in Endpoints : CheckOne(r, e)
<1> DEFINE Goal == \/ Aside
                   \/ \E r \in Runs, on \in SUBSET Endpoints, force \in BOOLEAN :
                        /\ Begin(r, on, force)
                        /\ Quiet
                        /\ IF force THEN disturbed' = disturbed ELSE on = Listed
                   \/ /\ disturbed' = disturbed
                      /\ \E r \in Runs : Recompute(r) \/ \E e \in Endpoints : CheckOne(r, e)
<1>1. CASE UNCHANGED vars
  BY <1>1 DEF vars, Aside, notes
<1>2. ASSUME NEW e \in Endpoints, Flip(e) PROVE Aside
  BY <1>2 DEF Flip, Spend, Aside, SweepTypes
<1>3. ASSUME NEW e \in Endpoints, Cool(e) PROVE Aside
  <2>1. \A f \in Endpoints : breaker'[f].state = breaker[f].state
    BY <1>3, BreakerOps DEF Cool, BInv, BreakerTypes
  <2> QED
    BY <1>3, <2>1 DEF Cool, Aside, notes
<1>4. ASSUME NEW r \in Sweepers, StartSweep(r) PROVE Goal
  <2>1. Begin(r, Listed, FALSE) /\ Quiet /\ r \in Runs /\ Listed \in SUBSET Endpoints
    BY <1>4 DEF StartSweep, Runs, Listed
  <2> QED
    BY <2>1
<1>5. ASSUME NEW r \in Forcers, NEW e \in Endpoints, StartForced(r, e) PROVE Goal
  <2>1. Begin(r, {e}, TRUE) /\ r \in Runs /\ {e} \in SUBSET Endpoints
    BY <1>5 DEF StartForced, Runs
  <2>2. Quiet /\ disturbed' = disturbed
    BY <1>5 DEF StartForced, SweepTypes
  <2> QED
    BY <2>1, <2>2
<1>6. ASSUME NEW r \in Runs, Advance(r) PROVE Goal
  <2>1. ASSUME NEW e \in Endpoints, CheckOne(r, e) PROVE disturbed' = disturbed
    BY <2>1, CheckFacts
  <2>2. ASSUME Recompute(r) PROVE disturbed' = disturbed
    BY <2>2 DEF Recompute, GiveUp, SelectActive, WriteActive, notes
  <2> QED
    BY <1>6, <2>1, <2>2 DEF Advance
<1>7. ASSUME NEW r \in Runs, FaultInSelection(r) \/ \E e \in Endpoints : Fault(r, e) PROVE FALSE
  BY <1>7 DEF FaultInSelection, Fault, Spend
<1>8. ASSUME NEW a \in Admins, NEW e \in Endpoints, Administer(a, e) PROVE FALSE
  BY <1>8 DEF Administer, AskToDrop, Ask, Enable, SetMaintenance, ResolveByHand, Spend
<1>9. ASSUME NEW a \in Admins, Drop(a) \/ Maintain(a) PROVE FALSE
  <2>1. ~disturbed
    BY <1>9 DEF Drop, Maintain, notes
  <2>2. request[a].op = "none"
    BY <2>1 DEF Alone, NoRequest
  <2> QED
    BY <1>9, <2>2 DEF Drop, Maintain
<1>10. ASSUME Restart PROVE FALSE
  BY <1>10 DEF Restart, Spend
<1> QED
  BY <1>1, <1>2, <1>3, <1>4, <1>5, <1>6, <1>7, <1>8, <1>9, <1>10 DEF Next

\* A run that begins alone looks at every endpoint whose breaker is closed, or
\* leaves those it does not look at as they were.
LEMMA BeginFits ==
  ASSUME SweepInv, ~disturbed', NEW r \in Runs, NEW on \in SUBSET Endpoints, NEW force \in BOOLEAN,
         Begin(r, on, force), Quiet, IF force THEN disturbed' = disturbed ELSE on = Listed
  PROVE  Alone' /\ ChecksFit' /\ AlertsFit' /\ ChoiceFits' /\ BestIsActive'
<1> USE DEF SweepInv
<1>1. /\ phase' = [phase EXCEPT ![r] = "checking"]
      /\ chk' = [chk EXCEPT ![r] =
               [e \in Endpoints |-> IF e \in on THEN FirstCheck(e, force) ELSE "none"]]
      /\ breaker' = [e \in Endpoints |->
                   IF e \in on /\ ~maint[e] /\ ~force THEN Asked(breaker[e]) ELSE breaker[e]]
      /\ UNCHANGED <<rowVars, healthVars, alert, failed, pick, left, request>>
  BY DEF Begin
<1>2. \A q \in Runs : phase[q] = "idle" /\ phase'[q] = IF q = r THEN "checking" ELSE "idle"
  BY <1>1 DEF Quiet, BInv, BreakerTypes
<1>3. \A q \in Runs, e \in Endpoints :
        /\ chk[q][e] = "none"
        /\ chk'[q][e] = IF q = r /\ e \in on THEN FirstCheck(e, force) ELSE "none"
  BY <1>1, <1>2 DEF BInv, BreakerTypes, ChecksFirst
<1>4. \A e \in Endpoints : FirstCheck(e, force) \in {"none", "readState", "probe", "trial"}
  BY DEF FirstCheck
<1>5. Alone'
  <2>1. \A a \in Admins : request'[a] = NoRequest
    BY <1>1 DEF Quiet
  <2>2. \A q \in Runs : ~failed'[q]
    BY <1>1, <1>2 DEF SweepTypes
  <2> QED
    BY <1>2, <2>1, <2>2 DEF Alone
<1>6. ChecksFit'
  BY <1>3, <1>4 DEF ChecksFit
<1>7. AlertsFit'
  <2> SUFFICES ASSUME NEW e \in Listed, breaker'[e].state = "CLOSED", chk'[r][e] = "none"
               PROVE  AlertRight(e)'
    BY <1>1 DEF AlertsFit, Listed, rowVars
  <2>1. e \in Endpoints
    BY DEF Listed
  <2>2. CASE e \in on
    <3>1. FirstCheck(e, force) = "none"
      BY <1>3, <2>1, <2>2
    <3>2. ~maint[e] /\ ~force /\ ~CanProbe(breaker[e])
      BY <3>1 DEF FirstCheck
    <3>3. breaker'[e] = breaker[e]
      BY <1>1, <2>1, <3>2 DEF Asked
    <3> QED
      BY <3>2, <3>3 DEF CanProbe
  <2>3. CASE e \notin on
    <3>1. ~disturbed /\ breaker[e].state = "CLOSED"
      BY <1>1, <2>1, <2>3
    <3>2. AlertRight(e)
      BY <1>3, <2>1, <3>1 DEF AlertsFit
    <3> QED
      BY <1>1, <3>2 DEF AlertRight, healthVars
  <2> QED
    BY <2>2, <2>3
<1>8. ChoiceFits' /\ BestIsActive'
  BY <1>2 DEF ChoiceFits, BestIsActive, Quiet
<1> QED
  BY <1>5, <1>6, <1>7, <1>8

\* A check of a run that is alone.
LEMMA CheckFits ==
  ASSUME SweepInv, ~disturbed', NEW r \in Runs, NEW e \in Endpoints, CheckOne(r, e)
  PROVE  Alone' /\ ChecksFit' /\ AlertsFit' /\ ChoiceFits' /\ BestIsActive'
<1> USE DEF SweepInv
<1>1. /\ phase[r] = "checking" /\ chk[r][e] # "none"
      /\ UNCHANGED <<phase, request, enabled, maint, gone, may, disturbed, pick, left>>
      /\ \A q \in Runs, f \in Endpoints : q # r \/ f # e => chk'[q][f] = chk[q][f]
      /\ \A f \in Endpoints \ {e} :
           status'[f] = status[f] /\ alert'[f] = alert[f] /\ breaker'[f] = breaker[f]
  BY CheckFacts
<1>2. ~disturbed /\ \A q \in Runs \ {r} : phase[q] = "idle"
  BY <1>1 DEF Alone
<1>3. \A q \in Runs \ {r} : \A f \in Endpoints : chk[q][f] = "none"
  BY <1>2 DEF BInv, ChecksFirst
<1>4. /\ chk[r][e] = "insertState" => status[e] = "NONE"
      /\ chk[r][e] = "resolve" => status[e] = "HEALTHY"
      /\ chk[r][e] \in {"findAlert", "insertAlert"} => status[e] = "UNHEALTHY"
  BY <1>2 DEF ChecksFit
<1>5. failed' = failed
  BY <1>4 DEF CheckOne, Report, ReadState, InsertState, UpdateState, ResolveAlert, FindAlert, InsertAlert
<1>6. \A next : Check(r, e, next) => chk'[r][e] = next
  BY DEF Check, BInv, BreakerTypes
<1>7. /\ chk'[r][e] = "insertState" => status'[e] = "NONE"
      /\ chk'[r][e] = "resolve" => status'[e] = "HEALTHY"
      /\ chk'[r][e] \in {"findAlert", "insertAlert"} => status'[e] = "UNHEALTHY"
      /\ chk'[r][e] = "none" => AlertRight(e)'
  <2>1. CASE Report(r, e) \/ ReadState(r, e)
    BY <1>6, <2>1 DEF Report, ReadState, healthVars
  <2>2. CASE InsertState(r, e) \/ UpdateState(r, e)
    <3>1. status'[e] = want[r][e] /\ chk'[r][e] = AfterState(want[r][e])
      BY <1>4, <1>6, <2>2 DEF InsertState, UpdateState, SweepTypes
    <3> QED
      BY <3>1 DEF AfterState, AlertRight
  <2>3. CASE ResolveAlert(r, e)
    BY <1>4, <1>6, <2>3 DEF ResolveAlert, AlertRight, healthVars, SweepTypes
  <2>4. CASE FindAlert(r, e)
    BY <1>4, <1>6, <2>4 DEF FindAlert, AlertRight, healthVars, SweepTypes
  <2>5. CASE InsertAlert(r, e)
    BY <1>4, <1>6, <2>5 DEF InsertAlert, AlertRight, healthVars, SweepTypes
  <2> QED
    BY <2>1, <2>2, <2>3, <2>4, <2>5 DEF CheckOne
<1>8. Alone'
  BY <1>1, <1>5 DEF Alone
<1>9. ChecksFit'
  <2> SUFFICES ASSUME NEW q \in Runs, NEW f \in Endpoints
               PROVE  /\ chk'[q][f] = "insertState" => status'[f] = "NONE"
                      /\ chk'[q][f] = "resolve" => status'[f] = "HEALTHY"
                      /\ chk'[q][f] \in {"findAlert", "insertAlert"} => status'[f] = "UNHEALTHY"
    BY DEF ChecksFit
  <2>1. CASE f # e
    BY <1>1, <1>2, <2>1 DEF ChecksFit
  <2>2. CASE f = e /\ q # r
    BY <1>1, <1>3, <2>2
  <2>3. CASE f = e /\ q = r
    BY <1>7, <2>3
  <2> QED
    BY <2>1, <2>2, <2>3
<1>10. AlertsFit'
  <2> SUFFICES ASSUME NEW f \in Listed, breaker'[f].state = "CLOSED", \A q \in Runs : chk'[q][f] = "none"
               PROVE  AlertRight(f)'
    BY <1>1 DEF AlertsFit, Listed
  <2>1. f \in Endpoints
    BY DEF Listed
  <2>2. CASE f # e
    <3>1. breaker[f].state = "CLOSED" /\ \A q \in Runs : chk[q][f] = "none"
      BY <1>1, <2>1, <2>2
    <3>2. AlertRight(f)
      BY <1>2, <3>1 DEF AlertsFit
    <3> QED
      BY <1>1, <2>1, <2>2, <3>2 DEF AlertRight
  <2>3. CASE f = e
    BY <1>7, <2>3
  <2> QED
    BY <2>2, <2>3
<1>11. ChoiceFits' /\ BestIsActive'
  BY <1>1, <1>2 DEF ChoiceFits, BestIsActive, Quiet
<1> QED
  BY <1>8, <1>9, <1>10, <1>11

\* The choice of a run that is alone.
LEMMA ChoiceKept ==
  ASSUME SweepInv, ~disturbed', disturbed' = disturbed, NEW r \in Runs, Recompute(r)
  PROVE  Alone' /\ ChecksFit' /\ AlertsFit' /\ ChoiceFits' /\ BestIsActive'
<1> USE DEF SweepInv
<1>1. UNCHANGED <<enabled, maint, gone, status, alert, breaker, chk, request>>
  BY DEF Recompute, GiveUp, SelectActive, WriteActive, rowVars, healthVars
<1>2. phase[r] # "idle"
  BY DEF Recompute, GiveUp, SelectActive, WriteActive, Checked
<1>3. ~disturbed /\ \A q \in Runs \ {r} : phase[q] = "idle"
  BY <1>2 DEF Alone
<1>4. \A q \in Runs \ {r} : phase'[q] = "idle"
  BY <1>3 DEF Recompute, GiveUp, SelectActive, WriteActive, Rest, BInv, BreakerTypes
<1>5. \A q \in Runs : ~failed[q] /\ ~failed'[q]
  BY <1>3 DEF Recompute, GiveUp, SelectActive, WriteActive, Rest, Alone, SweepTypes
<1>6. Alone'
  BY <1>1, <1>3, <1>4, <1>5 DEF Alone
<1>7. ChecksFit' /\ AlertsFit'
  BY <1>1, <1>3 DEF ChecksFit, AlertsFit, AlertRight, Listed
<1>8. /\ Listed' = Listed /\ Healthy' = Healthy
      /\ {f \in Listed : status[f] = "HEALTHY"}' = Healthy
  BY <1>1 DEF Listed, Healthy
<1>9. CASE GiveUp(r)
  <2>1. Listed = {} /\ phase'[r] = "idle"
    BY <1>5, <1>9 DEF GiveUp, Rest, BInv, BreakerTypes
  <2>2. BestIsActive'
    BY <1>8, <2>1 DEF BestIsActive, Selected, Healthy
  <2>3. ChoiceFits'
    BY <1>4, <2>1 DEF ChoiceFits
  <2> QED
    BY <1>6, <1>7, <2>2, <2>3
<1>10. CASE SelectActive(r)
  <2>1. /\ phase'[r] = "writing" /\ left'[r] = Listed
        /\ pick'[r] \in IF Healthy = {} THEN {NoEndpoint} ELSE Best(Healthy)
    BY <1>10 DEF SelectActive, BInv, BreakerTypes, SweepTypes
  <2>2. BestIsActive'
    BY <2>1 DEF BestIsActive, Quiet
  <2>3. (pick'[r] = NoEndpoint /\ Healthy = {}) \/ First(pick'[r], Healthy)
    BY <2>1 DEF First, Best
  <2>4. ChoiceFits'
    <3> SUFFICES ASSUME NEW q \in Runs, phase'[q] = "writing"
                 PROVE  /\ left'[q] \subseteq Listed
                        /\ (pick'[q] = NoEndpoint /\ Healthy = {}) \/ First(pick'[q], Healthy)
                        /\ \A e \in Listed \ left'[q] : active'[e] <=> e = pick'[q]
      BY <1>8 DEF ChoiceFits, First
    <3>1. q = r
      BY <1>4
    <3> QED
      BY <2>1, <2>3, <3>1
  <2> QED
    BY <1>6, <1>7, <2>2, <2>4
<1>11. CASE WriteActive(r)
  <2>1. PICK e \in Best(left[r]) :
          /\ phase[r] = "writing"
          /\ active' = [active EXCEPT ![e] = status[e] # "NONE" /\ e = pick[r]]
          /\ IF left[r] = {e} THEN Rest(r)
             ELSE left' = [left EXCEPT ![r] = @ \ {e}] /\ UNCHANGED <<phase, failed, pick, want>>
    BY <1>11 DEF WriteActive
  <2>2. /\ left[r] \subseteq Listed
        /\ (pick[r] = NoEndpoint /\ Healthy = {}) \/ First(pick[r], Healthy)
        /\ \A f \in Listed \ left[r] : active[f] <=> f = pick[r]
    BY <1>3, <2>1 DEF ChoiceFits
  <2>3. e \in left[r] /\ e \in Endpoints
    BY <2>2 DEF Best, Listed
  <2>4. active'[e] <=> e = pick[r]
    <3>1. active'[e] = (status[e] # "NONE" /\ e = pick[r])
      BY <2>1, <2>3 DEF SweepTypes
    <3>2. e = pick[r] => status[e] = "HEALTHY"
      BY <2>2, <2>3, EndpointsOK DEF EndpointsOK, First, Healthy
    <3> QED
      BY <3>1, <3>2
  <2>5. \A f \in Listed \ (left[r] \ {e}) : active'[f] <=> f = pick[r]
    <3> TAKE f \in Listed \ (left[r] \ {e})
    <3>1. CASE f = e
      BY <2>4, <3>1
    <3>2. CASE f # e
      <4>1. f \in Endpoints /\ (active[f] <=> f = pick[r])
        BY <2>2, <3>2 DEF Listed
      <4>2. active'[f] = active[f]
        BY <2>1, <3>2, <4>1 DEF SweepTypes
      <4> QED
        BY <4>1, <4>2
    <3> QED
      BY <3>1, <3>2
  <2>6. CASE left[r] = {e}
    <3>1. phase'[r] = "idle"
      BY <2>1, <2>6 DEF Rest, BInv, BreakerTypes
    <3>2. ChoiceFits'
      BY <1>4, <3>1 DEF ChoiceFits
    <3>3. \A f \in Listed : active'[f] <=> f = pick[r]
      BY <2>5, <2>6
    <3>5. CASE Healthy = {}
      <4>1. pick[r] = NoEndpoint
        BY <2>2, <3>5 DEF First
      <4>2. Selected(NoEndpoint)'
        BY <1>8, <3>3, <4>1 DEF Selected
      <4>3. BestIsActive'
        BY <1>8, <3>5, <4>2 DEF BestIsActive
      <4> QED
        BY <1>6, <1>7, <3>2, <4>3
    <3>6. CASE Healthy # {}
      <4>1. PICK p : p = pick[r]
        OBVIOUS
      <4>2. p \in Healthy /\ First(p, Healthy)
        BY <2>2, <3>6, <4>1 DEF First
      <4>3. Selected(p)'
        BY <1>8, <3>3, <4>1 DEF Selected
      <4>4. First(p, Healthy)'
        BY <1>8, <4>2 DEF First
      <4>5. BestIsActive'
        BY <1>8, <4>2, <4>3, <4>4 DEF BestIsActive
      <4> QED
        BY <1>6, <1>7, <3>2, <4>5
    <3> QED
      BY <3>5, <3>6
  <2>7. CASE left[r] # {e}
    <3>1. /\ phase' = phase /\ pick' = pick /\ left'[r] = left[r] \ {e}
      BY <2>1, <2>7 DEF SweepTypes
    <3>2. BestIsActive'
      BY <1>2, <3>1 DEF BestIsActive, Quiet
    <3>3. ChoiceFits'
      <4> SUFFICES ASSUME NEW q \in Runs, phase'[q] = "writing"
                   PROVE  /\ left'[q] \subseteq Listed
                          /\ (pick'[q] = NoEndpoint /\ Healthy = {}) \/ First(pick'[q], Healthy)
                          /\ \A f \in Listed \ left'[q] : active'[f] <=> f = pick'[q]
        BY <1>8 DEF ChoiceFits, First
      <4>1. q = r
        BY <1>4
      <4> QED
        BY <2>2, <2>5, <3>1, <4>1
    <3> QED
      BY <1>6, <1>7, <3>2, <3>3
  <2> QED
    BY <2>6, <2>7
<1> QED
  BY <1>9, <1>10, <1>11 DEF Recompute

LEMMA AsideFits ==
  ASSUME SweepInv, Aside
  PROVE  Alone' /\ ChecksFit' /\ AlertsFit' /\ ChoiceFits' /\ BestIsActive'
<1> USE DEF SweepInv, Aside, rowVars, healthVars, runVars
<1>1. Listed' = Listed /\ Healthy' = Healthy
  BY DEF Listed, Healthy
<1>2. Alone' /\ ChecksFit'
  BY DEF Alone, ChecksFit
<1>3. AlertsFit'
  BY <1>1 DEF AlertsFit, AlertRight, Listed
<1>4. ChoiceFits'
  BY <1>1 DEF ChoiceFits, First
<1>5. BestIsActive'
  BY <1>1 DEF BestIsActive, Quiet, Selected, First
<1> QED
  BY <1>2, <1>3, <1>4, <1>5

LEMMA SweepInvInit == Init => SweepInv
<1> SUFFICES ASSUME Init PROVE SweepInv
  OBVIOUS
<1>1. BInv /\ SweepTypes
  BY BInvInit, SweepTypesInit
<1>2. Alone /\ ChecksFit
  BY DEF Init, Alone, ChecksFit, Runs
<1>3. AlertsFit
  BY DEF Init, AlertsFit, AlertRight, Listed
<1>4. ChoiceFits
  BY DEF Init, ChoiceFits
<1>5. BestIsActive
  BY EndpointsOK DEF Init, BestIsActive, Selected, Listed, EndpointsOK
<1> QED
  BY <1>1, <1>2, <1>3, <1>4, <1>5 DEF SweepInv

LEMMA SweepInvNext == SweepInv /\ [Next]_vars => SweepInv'
<1> SUFFICES ASSUME SweepInv, [Next]_vars PROVE SweepInv'
  OBVIOUS
<1>1. BInv' /\ SweepTypes'
  BY BInvNext, SweepTypesNext DEF SweepInv
<1>2. CASE disturbed'
  BY <1>1, <1>2 DEF SweepInv, Alone, ChecksFit, AlertsFit, ChoiceFits, BestIsActive
<1>3. CASE ~disturbed'
  <2>1. BInv /\ SweepTypes /\ Alone
    BY DEF SweepInv
  <2> QED
    BY <1>1, <1>3, <2>1, SweepSteps, AsideFits, BeginFits, CheckFits, ChoiceKept DEF SweepInv
<1> QED
  BY <1>2, <1>3

LEMMA SweepInvariant == Spec => []SweepInv
BY SweepInvInit, SweepInvNext, PTL DEF Spec

\* Whatever was left behind, once a sweep or a forced check has run alone the
\* alerts of the endpoints in service whose breakers are closed follow their health.
THEOREM AlertsFollowHealth == Spec => []AlertFollowsHealth
<1>1. SweepInv => AlertFollowsHealth
  <2> SUFFICES ASSUME SweepInv, Quiet, ~disturbed, NEW e \in Listed, breaker[e].state = "CLOSED"
               PROVE  AlertRight(e)
    BY DEF AlertFollowsHealth, AlertRight
  <2>1. e \in Endpoints
    BY DEF Listed
  <2>2. \A r \in Runs : chk[r][e] = "none"
    BY <2>1 DEF SweepInv, BInv, ChecksFirst, Quiet
  <2> QED
    BY <2>2 DEF SweepInv, AlertsFit
<1> QED
  BY <1>1, SweepInvariant, PTL

\* Once a run has been alone, a first healthy endpoint of those in service is
\* selected and no other; none where none is healthy.
THEOREM BestIsSelected == Spec => []BestIsActive
<1>1. SweepInv => BestIsActive
  BY DEF SweepInv
<1> QED
  BY <1>1, SweepInvariant, PTL

=============================================================================
