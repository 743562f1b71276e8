------------------------ MODULE MCSubscriberAccounts ------------------------
(* Values of SubscriberAccounts's constants for TLC.                       *)
EXTENDS SubscriberAccounts, TLC

CONSTANTS s1, s2, k1, k2, p1, p2

\* Rows of two tenants that chose the same username.
SameUser == [s \in Subscribers |-> "user"]

Symmetry == Permutations(Requests)

=============================================================================
