------------------------ MODULE MCInterfaceCounters ------------------------
(* Values of InterfaceCounters's constants for TLC.                        *)
EXTENDS InterfaceCounters, TLC

CONSTANTS p1, p2, r1

Symmetry == Permutations(Requests)

=============================================================================
