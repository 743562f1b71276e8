---------------------------- MODULE BindingTable ----------------------------
(***************************************************************************)
(* The table identity_bindings of one ship, source RADIUS: which session   *)
(* held a client address in the interval [from, to).  The column valid_to  *)
(* is NULL while the interval is open; 0 stands for NULL, and receipt      *)
(* times start at 1.  PostgreSQL refuses a row whose interval ends before  *)
(* it starts (tstzrange raises an error) and, by the EXCLUDE constraint,   *)
(* one that overlaps another interval of the same address.                 *)
(***************************************************************************)
EXTENDS Naturals

CONSTANTS
  Ips,   \* client addresses
  NoIp   \* the packet carries no Framed-IP-Address

ASSUME NoIpOK == NoIp \notin Ips

IsOpen(b) == b.to = 0

\* Rows an UPDATE of the open intervals of ip selects; sid narrows it to the
\* intervals of the sessions in that set.
OpenRows(table, ip, sids) == {b \in table : b.ip = ip /\ b.sid \in sids /\ IsOpen(b)}

\* The UPDATE sets valid_to = t; it fails as a whole when a selected interval
\* started after t.
CanClose(table, ip, sids, t) == \A b \in OpenRows(table, ip, sids) : b.from <= t

Close(table, ip, sids, t) ==
  (table \ OpenRows(table, ip, sids))
    \union {[b EXCEPT !.to = t] : b \in OpenRows(table, ip, sids)}

\* An interval is empty when it was closed at the moment it was opened.
NonEmpty(b) == IsOpen(b) \/ b.from < b.to

Overlap(b, c) ==
  /\ b.ip = c.ip
  /\ NonEmpty(b) /\ NonEmpty(c)
  /\ IsOpen(b) \/ c.from < b.to
  /\ IsOpen(c) \/ b.from < c.to

\* The EXCLUDE constraint lets b in.
CanInsert(table, b) == \A c \in table : ~Overlap(b, c)
=============================================================================
