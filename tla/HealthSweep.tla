---------------------------- MODULE HealthSweep ----------------------------
(***************************************************************************)
(* The health sweep over the endpoints of one service: timer sweeps and    *)
(* forced checks that may overlap, the breaker of each endpoint in the     *)
(* memory of the process, and in the database the endpoint rows, their     *)
(* health rows with the is_active flag, and the open alerts; with the      *)
(* administrator who enables, disables, removes endpoints and puts them in *)
(* maintenance meanwhile.                                                  *)
(*                                                                         *)
(* Nothing is a transaction: every awaited statement is one action.        *)
(* HEALTHY stands for DEGRADED too: this code treats them alike.           *)
(***************************************************************************)
EXTENDS CircuitBreaker

CONSTANTS
  Endpoints,   \* those of one service_name
  NoEndpoint,  \* none of them
  Priority,    \* the priority of each
  Sweepers,    \* timer sweeps that may overlap
  Forcers,     \* forced checks that may overlap
  Admins,      \* requests of the administrator that may overlap
  Down,        \* those that do not answer at first
  Budgets      \* bound: what a behaviour may have of endpoints, actors, forced checks,
               \* requests of the administrator, flips and faults, a choice of several

ASSUME EndpointsOK ==
  /\ NoEndpoint \notin Endpoints
  /\ Priority \in [Endpoints -> Nat]
  /\ Sweepers \intersect Forcers = {}
  /\ Down \subseteq Endpoints
  /\ \A b \in Budgets : b \in [forced : Nat, admin : Nat, flips : Nat, faults : Nat,
                            actors : SUBSET (Sweepers \union Forcers \union Admins),
                            endpoints : SUBSET Endpoints]

Runs == Sweepers \union Forcers

VARIABLES
  up,       \* whether each endpoint answers (the outside world)
  enabled,  \* service_endpoints: enabled
  maint,    \* service_endpoints: in_maintenance
  gone,     \* service_endpoints: deleted_at is set
  status,   \* service_health_state: status, "NONE" without a row
  active,   \* service_health_state: is_active
  alert,    \* an alert of the endpoint is FIRING or ACKED
  breaker,  \* the breaker of each endpoint
  phase,    \* per run: "idle", "checking" or "writing"
  chk,      \* per run and endpoint: what checkOne awaits
  want,     \* per run and endpoint: the status it is to write
  failed,   \* per run: one of its checks has thrown
  pick,     \* per run: the endpoint recomputeActive has chosen
  left,     \* per run: rows whose is_active it has still to write
  request,  \* per request of the administrator: what it awaits, and for whom
  may,      \* what is left of the budget
  disturbed \* since a run began alone, another has begun, a statement has failed or an
            \* administrator has acted (history)

rowVars == <<enabled, maint, gone>>
healthVars == <<status, active>>
runVars == <<phase, chk, want, failed, pick, left>>
notes == <<may, disturbed>>
vars == <<up, rowVars, healthVars, alert, breaker, runVars, request, notes>>

Checks == {"none", "probe", "trial", "readState", "insertState", "updateState",
           "resolve", "findAlert", "insertAlert"}

Probing == {"probe", "trial"}

NoRequest == [op |-> "none", on |-> NoEndpoint]

Init ==
  /\ up = [e \in Endpoints |-> e \notin Down]
  /\ enabled = [e \in Endpoints |-> TRUE]
  /\ maint = [e \in Endpoints |-> FALSE]
  /\ may \in Budgets
  /\ gone = [e \in Endpoints |-> e \notin may.endpoints]
  /\ status = [e \in Endpoints |-> "NONE"]
  /\ active = [e \in Endpoints |-> FALSE]
  /\ alert = [e \in Endpoints |-> FALSE]
  /\ breaker = [e \in Endpoints |-> New]
  /\ phase = [r \in Runs |-> "idle"]
  /\ chk = [r \in Runs |-> [e \in Endpoints |-> "none"]]
  /\ want = [r \in Runs |-> [e \in Endpoints |-> "NONE"]]
  /\ failed = [r \in Runs |-> FALSE]
  /\ pick = [r \in Runs |-> NoEndpoint]
  /\ left = [r \in Runs |-> {}]
  /\ request = [a \in Admins |-> NoRequest]
  /\ disturbed = FALSE

Spend(what) ==
  /\ may[what] > 0
  /\ may' = [may EXCEPT ![what] = @ - 1]
  /\ disturbed' = (disturbed \/ what # "flips")

-----------------------------------------------------------------------------
(* The outside world.                                                      *)

\* The service of an endpoint that is still there fails, or recovers.
Flip(e) ==
  /\ ~gone[e]
  /\ Spend("flips")
  /\ up' = [up EXCEPT ![e] = ~@]
  /\ UNCHANGED <<rowVars, healthVars, alert, breaker, runVars, request>>

\* The cooldown of an open breaker has passed.
Cool(e) ==
  /\ breaker[e].state = "OPEN" /\ ~breaker[e].cooled
  /\ breaker' = [breaker EXCEPT ![e] = CoolDown(@)]
  /\ UNCHANGED <<up, rowVars, healthVars, alert, runVars, request, notes>>

-----------------------------------------------------------------------------
(* A sweep: the checks of all endpoints at once, then the choice of the    *)
(* active one.  The rows are read and the breakers asked in one step: what *)
(* comes between changes only one of them.                                 *)

Listed == {e \in Endpoints : enabled[e] /\ ~gone[e]}

\* Faulty variant: the maintenance flag is not looked at.
FirstCheckAlways(e, force) ==
  CASE force -> "probe"
    [] ~force /\ CanProbe(breaker[e]) -> IF breaker[e].state = "CLOSED" THEN "probe" ELSE "trial"
    [] OTHER -> "none"

\* How checkOne begins: with the maintenance state, with a probe, as the trial
\* probe of a half-open breaker, or not at all.
FirstCheck(e, force) ==
  CASE maint[e] -> "readState"
    [] ~maint[e] /\ force -> "probe"
    [] ~maint[e] /\ ~force /\ CanProbe(breaker[e]) ->
         IF breaker[e].state = "CLOSED" THEN "probe" ELSE "trial"
    [] OTHER -> "none"

Begin(r, on, force) ==
  /\ phase[r] = "idle"
  /\ phase' = [phase EXCEPT ![r] = "checking"]
  /\ chk' = [chk EXCEPT ![r] =
               [e \in Endpoints |-> IF e \in on THEN FirstCheck(e, force) ELSE "none"]]
  /\ want' = [want EXCEPT ![r] =
                [e \in Endpoints |-> IF e \in on /\ maint[e] THEN "MAINTENANCE" ELSE "NONE"]]
  /\ breaker' = [e \in Endpoints |->
                   IF e \in on /\ ~maint[e] /\ ~force THEN Asked(breaker[e]) ELSE breaker[e]]
  /\ UNCHANGED <<up, rowVars, healthVars, alert, failed, pick, left, request>>

Quiet == (\A r \in Runs : phase[r] = "idle") /\ (\A a \in Admins : request[a] = NoRequest)

StartSweep(r) ==
  /\ r \in may.actors
  /\ Listed # {}
  /\ Begin(r, Listed, FALSE)
  /\ disturbed' = ~Quiet
  /\ UNCHANGED may

\* POST /service-endpoints/{id}/check: it asks no breaker.
StartForced(r, e) ==
  /\ ~gone[e]
  /\ r \in may.actors /\ may.forced > 0
  /\ may' = [may EXCEPT !.forced = @ - 1]
  /\ disturbed' = (disturbed \/ ~Quiet)
  /\ Begin(r, {e}, TRUE)

-----------------------------------------------------------------------------
(* checkOne.                                                               *)

Check(r, e, next) == chk' = [chk EXCEPT ![r][e] = next]

\* The checker has answered, or timed out in every attempt.
Report(r, e) ==
  /\ chk[r][e] \in Probing
  /\ breaker' = [breaker EXCEPT ![e] = IF up[e] THEN OnSuccess(@) ELSE OnFailure(@)]
  /\ want' = [want EXCEPT ![r][e] = IF up[e] THEN "HEALTHY" ELSE "UNHEALTHY"]
  /\ Check(r, e, "readState")
  /\ UNCHANGED <<up, rowVars, healthVars, alert, phase, failed, pick, left, request, notes>>

\* upsertState looks for a row first.
ReadState(r, e) ==
  /\ chk[r][e] = "readState"
  /\ Check(r, e, IF status[e] = "NONE" THEN "insertState" ELSE "updateState")
  /\ UNCHANGED <<up, rowVars, healthVars, alert, breaker, phase, want, failed, pick, left,
                 request, notes>>

\* Faulty variant: the alert of a recovered endpoint is left to the operator.
AfterStateUnresolved(s) == IF s = "UNHEALTHY" THEN "findAlert" ELSE "none"

\* The alert that goes with the state written.
AfterState(s) ==
  CASE s = "HEALTHY" -> "resolve"
    [] s = "UNHEALTHY" -> "findAlert"
    [] OTHER -> "none"

\* A check that throws: its run ends without choosing an active endpoint, the
\* other checks of the run go on.
Throw(r, e) ==
  /\ Check(r, e, "none")
  /\ failed' = [failed EXCEPT ![r] = TRUE]

\* Two checks may both have found no row; the second INSERT throws.
InsertState(r, e) ==
  /\ chk[r][e] = "insertState"
  /\ IF status[e] = "NONE"
       THEN /\ status' = [status EXCEPT ![e] = want[r][e]]
            /\ Check(r, e, AfterState(want[r][e]))
            /\ UNCHANGED <<active, failed>>
       ELSE /\ Throw(r, e)
            /\ UNCHANGED healthVars
  /\ UNCHANGED <<up, rowVars, alert, breaker, phase, want, pick, left, request, notes>>

\* Of the states, only MAINTENANCE comes with is_active.
UpdateState(r, e) ==
  /\ chk[r][e] = "updateState"
  /\ status' = [status EXCEPT ![e] = want[r][e]]
  /\ active' = [active EXCEPT ![e] = @ /\ want[r][e] # "MAINTENANCE"]
  /\ Check(r, e, AfterState(want[r][e]))
  /\ UNCHANGED <<up, rowVars, alert, breaker, phase, want, failed, pick, left, request, notes>>

\* resolveByFingerprint.
ResolveAlert(r, e) ==
  /\ chk[r][e] = "resolve"
  /\ alert' = [alert EXCEPT ![e] = FALSE]
  /\ Check(r, e, "none")
  /\ UNCHANGED <<up, rowVars, healthVars, breaker, phase, want, failed, pick, left, request,
                 notes>>

\* fireOrUpdate: an open alert only gets new evidence.
FindAlert(r, e) ==
  /\ chk[r][e] = "findAlert"
  /\ Check(r, e, IF alert[e] THEN "none" ELSE "insertAlert")
  /\ UNCHANGED <<up, rowVars, healthVars, alert, breaker, phase, want, failed, pick, left,
                 request, notes>>

\* A second open alert is refused by the unique index, and that is ignored.
InsertAlert(r, e) ==
  /\ chk[r][e] = "insertAlert"
  /\ alert' = [alert EXCEPT ![e] = TRUE]
  /\ Check(r, e, "none")
  /\ UNCHANGED <<up, rowVars, healthVars, breaker, phase, want, failed, pick, left, request,
                 notes>>

-----------------------------------------------------------------------------
(* recomputeActive.                                                        *)

Checked(r) == phase[r] = "checking" /\ \A e \in Endpoints : chk[r][e] = "none"

\* Faulty variant: the highest number wins.
BestLast(S) == {e \in S : \A f \in S : Priority[f] <= Priority[e]}

\* The first by priority; the database orders equals as it likes.
Best(S) == {e \in S : \A f \in S : Priority[e] <= Priority[f]}

Healthy == {e \in Listed : status[e] = "HEALTHY"}

Rest(r) ==
  /\ phase' = [phase EXCEPT ![r] = "idle"]
  /\ failed' = [failed EXCEPT ![r] = FALSE]
  /\ pick' = [pick EXCEPT ![r] = NoEndpoint]
  /\ left' = [left EXCEPT ![r] = {}]
  /\ want' = [want EXCEPT ![r] = [e \in Endpoints |-> "NONE"]]

GiveUp(r) ==
  /\ Checked(r)
  /\ failed[r] \/ Listed = {}
  /\ Rest(r)
  /\ UNCHANGED <<up, rowVars, healthVars, alert, breaker, chk, request, notes>>

SelectActive(r) ==
  /\ Checked(r)
  /\ ~failed[r] /\ Listed # {}
  /\ \E e \in IF Healthy = {} THEN {NoEndpoint} ELSE Best(Healthy) :
       pick' = [pick EXCEPT ![r] = e]
  /\ left' = [left EXCEPT ![r] = Listed]
  /\ phase' = [phase EXCEPT ![r] = "writing"]
  /\ UNCHANGED <<up, rowVars, healthVars, alert, breaker, chk, want, failed, request, notes>>

\* One UPDATE per row, in the order of the rows; none without a health row.
WriteActive(r) == \E e \in Best(left[r]) :
  /\ phase[r] = "writing"
  /\ active' = [active EXCEPT ![e] = status[e] # "NONE" /\ e = pick[r]]
  /\ IF left[r] = {e}
       THEN Rest(r)
       ELSE /\ left' = [left EXCEPT ![r] = @ \ {e}]
            /\ UNCHANGED <<phase, failed, pick, want>>
  /\ UNCHANGED <<up, rowVars, status, alert, breaker, chk, request, notes>>

-----------------------------------------------------------------------------
(* The administrator.                                                      *)

Ask(a, op, e) ==
  /\ request[a] = NoRequest
  /\ ~gone[e]
  /\ Spend("admin")
  /\ request' = [request EXCEPT ![a] = [op |-> op, on |-> e]]

Answer(a) == request' = [request EXCEPT ![a] = NoRequest]

\* assertNotLastHealthy, before an endpoint is disabled or removed.
LastHealthy(e) == e \in Healthy /\ Healthy \ {e} = {}

AskToDrop(a, op, e) ==
  /\ op \in {"disable", "remove"}
  /\ ~LastHealthy(e)
  /\ Ask(a, op, e)
  /\ UNCHANGED <<up, rowVars, healthVars, alert, breaker, runVars>>

Drop(a) ==
  LET e == request[a].on
  IN /\ request[a].op \in {"disable", "remove"}
     /\ enabled' = [enabled EXCEPT ![e] = FALSE]
     /\ gone' = [gone EXCEPT ![e] = @ \/ request[a].op = "remove"]
     /\ Answer(a)
     /\ UNCHANGED <<up, maint, healthVars, alert, breaker, runVars, notes>>

Enable(a, e) ==
  /\ request[a] = NoRequest
  /\ ~gone[e]
  /\ Spend("admin")
  /\ enabled' = [enabled EXCEPT ![e] = TRUE]
  /\ UNCHANGED <<up, maint, gone, healthVars, alert, breaker, runVars, request>>

\* setMaintenance: the row first, the health row (switched on only) second.
SetMaintenance(a, e, on) ==
  /\ maint' = [maint EXCEPT ![e] = on]
  /\ IF on THEN Ask(a, "maintain", e)
           ELSE /\ request[a] = NoRequest
                /\ ~gone[e]
                /\ Spend("admin")
                /\ UNCHANGED request
  /\ UNCHANGED <<up, enabled, gone, healthVars, alert, breaker, runVars>>

Maintain(a) ==
  /\ request[a].op = "maintain"
  /\ status' = [status EXCEPT ![request[a].on] = "MAINTENANCE"]
  /\ active' = [active EXCEPT ![request[a].on] = FALSE]
  /\ Answer(a)
  /\ UNCHANGED <<up, rowVars, alert, breaker, runVars, notes>>

\* POST /alerts/{id}/resolve.
ResolveByHand(a, e) ==
  /\ request[a] = NoRequest
  /\ alert[e]
  /\ Spend("admin")
  /\ alert' = [alert EXCEPT ![e] = FALSE]
  /\ UNCHANGED <<up, rowVars, healthVars, breaker, runVars, request>>

-----------------------------------------------------------------------------
(* Failures.                                                               *)

Fault(r, e) ==
  /\ chk[r][e] \notin Probing \union {"none"}
  /\ Spend("faults")
  /\ Throw(r, e)
  /\ UNCHANGED <<up, rowVars, healthVars, alert, breaker, phase, want, pick, left, request>>

\* recomputeActive stops between two rows, or before the first.
FaultInSelection(r) ==
  /\ phase[r] = "writing" \/ Checked(r)
  /\ Spend("faults")
  /\ Rest(r)
  /\ UNCHANGED <<up, rowVars, healthVars, alert, breaker, chk, request>>

\* The process restarts.  Nothing restores a breaker from its saved state.
Restart ==
  /\ Spend("faults")
  /\ breaker' = [e \in Endpoints |-> New]
  /\ phase' = [r \in Runs |-> "idle"]
  /\ chk' = [r \in Runs |-> [e \in Endpoints |-> "none"]]
  /\ want' = [r \in Runs |-> [e \in Endpoints |-> "NONE"]]
  /\ failed' = [r \in Runs |-> FALSE]
  /\ pick' = [r \in Runs |-> NoEndpoint]
  /\ left' = [r \in Runs |-> {}]
  /\ request' = [a \in Admins |-> NoRequest]
  /\ UNCHANGED <<up, rowVars, healthVars, alert>>

-----------------------------------------------------------------------------

CheckOne(r, e) ==
  \/ Report(r, e) \/ ReadState(r, e) \/ InsertState(r, e) \/ UpdateState(r, e)
  \/ ResolveAlert(r, e) \/ FindAlert(r, e) \/ InsertAlert(r, e)

Recompute(r) == GiveUp(r) \/ SelectActive(r) \/ WriteActive(r)

Advance(r) == Recompute(r) \/ \E e \in Endpoints : CheckOne(r, e)

Administer(a, e) ==
  \/ \E op \in {"disable", "remove"} : AskToDrop(a, op, e)
  \/ Enable(a, e)
  \/ \E on \in BOOLEAN : SetMaintenance(a, e, on)
  \/ ResolveByHand(a, e)

Next ==
  \/ \E e \in Endpoints : Flip(e) \/ Cool(e)
  \/ \E r \in Sweepers : StartSweep(r)
  \/ \E r \in Forcers, e \in Endpoints : StartForced(r, e)
  \/ \E r \in Runs : Advance(r) \/ FaultInSelection(r)
  \/ \E r \in Runs, e \in Endpoints : Fault(r, e)
  \/ \E a \in Admins, e \in Endpoints : Administer(a, e)
  \/ \E a \in Admins : Drop(a) \/ Maintain(a)
  \/ Restart

Spec == Init /\ [][Next]_vars

\* The timer fires for ever, cooldowns pass, probes are timed out and awaited
\* statements settle.
Fairness ==
  /\ \A r \in Sweepers : WF_vars(StartSweep(r))
  /\ \A r \in Runs : WF_vars(Recompute(r))
  /\ \A r \in Runs, e \in Endpoints : WF_vars(CheckOne(r, e))
  /\ \A e \in Endpoints : WF_vars(Cool(e))
  /\ \A a \in Admins : WF_vars(Drop(a) \/ Maintain(a))

FairSpec == Spec /\ Fairness

-----------------------------------------------------------------------------
(* Properties.                                                             *)

\* A half-open breaker waits for a probe that is under way: whatever forced
\* checks and older probes report meanwhile, no endpoint is left in HALF_OPEN,
\* where it would never be probed again.
HalfOpenHasProbe ==
  \A e \in Endpoints :
    breaker[e].state = "HALF_OPEN" => \E r \in Runs : chk[r][e] = "trial"

\* An open breaker gets its probe: an endpoint that stays in service is probed
\* again, however often it has failed.
OpenIsProbedAgain ==
  \A e \in Endpoints :
    breaker[e].state = "OPEN" ~>
      \/ breaker[e].state # "OPEN" \/ e \notin Listed \/ maint[e]

\* Whatever overlapping sweeps, failed statements and administrators have left,
\* a sweep that runs alone puts right.  The alert of each endpoint it could look
\* at, its breaker closed, follows the health.
AlertFollowsHealth ==
  Quiet /\ ~disturbed => \A e \in Listed : breaker[e].state = "CLOSED" =>
    /\ status[e] = "UNHEALTHY" => alert[e]
    /\ status[e] = "HEALTHY" => ~alert[e]

\* Likewise a first healthy endpoint of those in service is selected, alone; of
\* two with the same priority it may be either.
First(e, S) == e \in S /\ \A f \in S : Priority[e] <= Priority[f]
Selected(e) == \A f \in Listed : active[f] <=> f = e
BestIsActive ==
  Quiet /\ ~disturbed =>
    LET healthy == {f \in Listed : status[f] = "HEALTHY"}
    IN IF healthy = {} THEN Selected(NoEndpoint)
                       ELSE \E e \in healthy : First(e, healthy) /\ Selected(e)

\* An endpoint that stays in maintenance ends up shown so, and not selected.
MaintenanceSettles ==
  \A e \in Endpoints :
    <>[](maint[e] /\ e \in Listed) => <>[](status[e] = "MAINTENANCE" /\ ~active[e])

-----------------------------------------------------------------------------
(* What makes it so.                                                       *)

\* The types the breakers depend on.
BreakerTypes ==
  /\ phase \in [Runs -> {"idle", "checking", "writing"}]
  /\ chk \in [Runs -> [Endpoints -> Checks]]
  /\ breaker \in [Endpoints -> Breakers]

\* A run checks endpoints in its first phase only.
ChecksFirst ==
  \A r \in Runs : phase[r] # "checking" => \A e \in Endpoints : chk[r][e] = "none"

BInv == BreakerTypes /\ ChecksFirst /\ HalfOpenHasProbe

\* The other types; none of the checks of an idle run has thrown.
SweepTypes ==
  /\ status \in [Endpoints -> {"NONE", "HEALTHY", "UNHEALTHY", "MAINTENANCE"}]
  /\ want \in [Runs -> [Endpoints -> {"NONE", "HEALTHY", "UNHEALTHY", "MAINTENANCE"}]]
  /\ active \in [Endpoints -> BOOLEAN]
  /\ alert \in [Endpoints -> BOOLEAN]
  /\ failed \in [Runs -> BOOLEAN]
  /\ pick \in [Runs -> Endpoints \union {NoEndpoint}]
  /\ left \in [Runs -> SUBSET Endpoints]
  /\ disturbed \in BOOLEAN
  /\ \A r \in Runs : phase[r] = "idle" => ~failed[r]

\* A run that nothing has disturbed is alone.
Alone ==
  ~disturbed =>
    /\ \A a \in Admins : request[a] = NoRequest
    /\ \A r, q \in Runs : phase[r] # "idle" /\ phase[q] # "idle" => r = q
    /\ \A r \in Runs : ~failed[r]

\* What its checks have written is still there when they act upon it.
ChecksFit ==
  ~disturbed =>
    \A r \in Runs, e \in Endpoints :
      /\ chk[r][e] = "insertState" => status[e] = "NONE"
      /\ chk[r][e] = "resolve" => status[e] = "HEALTHY"
      /\ chk[r][e] \in {"findAlert", "insertAlert"} => status[e] = "UNHEALTHY"

AlertRight(e) ==
  /\ status[e] = "UNHEALTHY" => alert[e]
  /\ status[e] = "HEALTHY" => ~alert[e]

\* An endpoint has its alert right as soon as its check is over.
AlertsFit ==
  ~disturbed =>
    \A e \in Listed :
      breaker[e].state = "CLOSED" /\ (\A r \in Runs : chk[r][e] = "none") => AlertRight(e)

\* The rows written so far agree with the choice, which is still the best.
ChoiceFits ==
  ~disturbed =>
    \A r \in Runs :
      phase[r] = "writing" =>
        /\ left[r] \subseteq Listed
        /\ \/ pick[r] = NoEndpoint /\ Healthy = {}
           \/ First(pick[r], Healthy)
        /\ \A e \in Listed \ left[r] : active[e] <=> e = pick[r]

\* What every step preserves.
SweepInv ==
  BInv /\ SweepTypes /\ Alone /\ ChecksFit /\ AlertsFit /\ ChoiceFits /\ BestIsActive

=============================================================================
