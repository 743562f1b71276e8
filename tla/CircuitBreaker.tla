--------------------------- MODULE CircuitBreaker ---------------------------
(***************************************************************************)
(* The breaker of one endpoint, as the values it takes.  `cooled` stands   *)
(* for `now - openedAt >= cooldownMs`.  Failures are counted up to the     *)
(* threshold: beyond it the code only ever compares the count with it.     *)
(***************************************************************************)
EXTENDS Naturals

CONSTANT Threshold  \* failureThreshold

ASSUME ThresholdOK == Threshold \in Nat \ {0}

Breakers == [state : {"CLOSED", "OPEN", "HALF_OPEN"}, fails : 0..Threshold,
             cooled : BOOLEAN, inFlight : BOOLEAN]

New == [state |-> "CLOSED", fails |-> 0, cooled |-> FALSE, inFlight |-> FALSE]

\* canProbe: its answer, and what asking leaves behind.
CanProbe(b) ==
  \/ b.state = "CLOSED"
  \/ b.state = "OPEN" /\ b.cooled /\ ~b.inFlight

Asked(b) ==
  IF b.state = "OPEN" /\ CanProbe(b)
    THEN [b EXCEPT !.state = "HALF_OPEN", !.inFlight = TRUE]
    ELSE b

OnSuccess(b) == New

Counted(b) == IF b.fails < Threshold THEN b.fails + 1 ELSE Threshold

\* Faulty variants: a failed trial probe leaves the breaker where it is; the
\* flag of the trial probe survives its failure.
OnFailureStays(b) ==
  IF b.state = "CLOSED" /\ Counted(b) >= Threshold
    THEN [state |-> "OPEN", fails |-> Counted(b), cooled |-> FALSE, inFlight |-> FALSE]
    ELSE [b EXCEPT !.fails = Counted(b)]
OnFailureInFlight(b) ==
  IF b.state = "HALF_OPEN" \/ Counted(b) >= Threshold
    THEN [state |-> "OPEN", fails |-> Counted(b), cooled |-> FALSE, inFlight |-> b.inFlight]
    ELSE [b EXCEPT !.fails = Counted(b)]

\* The threshold, or a failed trial probe, opens the breaker anew.
OnFailure(b) ==
  IF b.state = "HALF_OPEN" \/ Counted(b) >= Threshold
    THEN [state |-> "OPEN", fails |-> Counted(b), cooled |-> FALSE, inFlight |-> FALSE]
    ELSE [b EXCEPT !.fails = Counted(b), !.inFlight = FALSE]

CoolDown(b) == [b EXCEPT !.cooled = TRUE]

=============================================================================
