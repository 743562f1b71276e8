\* Datagrams wait for slots while layouts change and ports are reused; the tasks settle or throw.
SPECIFICATION FlowSpec
CONSTANTS
  t1 = t1
  t2 = t2
  t3 = t3
  t4 = t4
  t5 = t5
  c1 = c1
  c2 = c2
  p1 = p1
  Nobody = Nobody
  Tasks = {t1, t2, t3, t4, t5}
  Max = 2
  Clients = {c1, c2}
  Ports = {p1}
  MaxFlows = 3
  MaxChanges = 1
INVARIANTS
  DecodedAsSent
  AttributedToOwner
  Bounded
  NoIdleSlot
PROPERTIES
  WaitersRun
\* Every datagram may have been handled.
CHECK_DEADLOCK FALSE
