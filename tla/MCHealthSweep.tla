--------------------------- MODULE MCHealthSweep ---------------------------
(* Endpoints of a service, the first with the better priority, timer       *)
(* sweeps w1 and w2, forced checks f1 and requests a1; a behaviour follows *)
(* one of three budgets.                                                   *)
EXTENDS HealthSweep

CONSTANTS e1, e2, w1, w2, f1, a1

ByName == [e \in Endpoints |-> IF e = e1 THEN 1 ELSE 2]

\* One endpoint; a timer sweep and forced checks overlap, a statement fails or
\* the process restarts, an administrator intervenes.
Disturbed == [endpoints |-> {e1}, actors |-> {w1, f1}, forced |-> 2, admin |-> 1,
              flips |-> 1, faults |-> 1]

\* Two endpoints; a forced check overlaps a sweep while one of them recovers or
\* fails.
Selecting == [endpoints |-> {e1, e2}, actors |-> {w1, f1}, forced |-> 1, admin |-> 0,
              flips |-> 1, faults |-> 0]

\* Two endpoints, one of them down for good, and two overlapping sweeps.
Racing == [endpoints |-> {e1, e2}, actors |-> {w1, w2}, forced |-> 0, admin |-> 0,
           flips |-> 0, faults |-> 0]

OneOfThree == {Disturbed, Selecting, Racing}

=============================================================================
