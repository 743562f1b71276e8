------------------------- MODULE MCRadiusAccounting -------------------------
(* Values of RadiusAccounting's constants for TLC.                         *)
EXTENDS RadiusAccounting, TLC

CONSTANTS s1, s2, s3, ip1, ip2

\* Two sessions that hold the same address in turn.
SharedIp == [s \in Sessions |-> IF s \in Anonymous THEN NoIp ELSE ip1]
\* Two sessions with an address each.
OwnIp == [s \in Sessions |-> IF s = s1 THEN ip1 ELSE ip2]

Symmetry == Permutations(Workers)

=============================================================================
