--------------------------- MODULE SessionBilling ---------------------------
(***************************************************************************)
(* What RADIUS accounting promises a subscriber, whatever tables and       *)
(* handlers carry it out: every session is billed for what its NAS has     *)
(* counted, never for more, and a bill is never taken back.                *)
(***************************************************************************)
EXTENDS Naturals

CONSTANT Sessions

VARIABLES
  reported,  \* bytes the NAS has counted for each session
  billed     \* bytes the session has added to its subscriber's quota

vars == <<reported, billed>>

Init ==
  /\ reported = [s \in Sessions |-> 0]
  /\ billed = [s \in Sessions |-> 0]

\* The session has moved more bytes.
Count(s) ==
  /\ reported' = [reported EXCEPT ![s] = reported'[s]]
  /\ reported'[s] > reported[s]
  /\ UNCHANGED billed

\* A part of what is owed is billed.
Bill(s) ==
  /\ billed' = [billed EXCEPT ![s] = billed'[s]]
  /\ billed'[s] > billed[s]
  /\ billed'[s] <= reported[s]
  /\ UNCHANGED reported

Next == \E s \in Sessions : Count(s) \/ Bill(s)

Spec == Init /\ [][Next]_vars
=============================================================================
