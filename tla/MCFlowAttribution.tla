------------------------- MODULE MCFlowAttribution -------------------------
(* Five datagrams for two slots: two tasks may settle in one turn of the   *)
(* event loop with waiters left, and a datagram come after it.             *)
EXTENDS FlowAttribution

CONSTANTS t1, t2, t3, t4, t5, c1, c2, p1

=============================================================================
