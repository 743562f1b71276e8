-------------------------- MODULE MCFreeradiusSync --------------------------
(* A behaviour spends its budget on requests, on packets, or on both.      *)
EXTENDS FreeradiusSync

CONSTANTS h1, h2, d1, d2, i1, i2, q1, q2, c1, c2, t1, t2, r1, r2

Bound(r, f, p, t, c) ==
  [requests |-> r, faults |-> f, packets |-> p, ticks |-> t, actors |-> c]

\* Two requests at once, one of which a statement may fail, or one beside two refreshes.
OfRequests == {Bound(2, 0, 0, 0, {c1}), Bound(1, 1, 0, 0, {c1}), Bound(1, 0, 0, 0, {c1, c2})}

\* Packets, ticks and a fault; or packets while a request changes a device.
OfPackets == {Bound(0, 1, 3, 2, {t1, t2}), Bound(1, 0, 2, 0, {c1, t1})}

Small == OfRequests \union OfPackets

=============================================================================
