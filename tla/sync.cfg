\* Sessions synchronised while packets arrive, runs fail, or devices change; requests about devices.
SPECIFICATION FairSpec
CONSTANTS
  h1 = h1 h2 = h2 d1 = d1 d2 = d2 i1 = i1 i2 = i2 q1 = q1 q2 = q2
  c1 = c1 c2 = c2 t1 = t1 t2 = t2 r1 = r1 r2 = r2
  None = None
  Ships = {h1}
  Devices = {d1, d2}
  Ips = {i1, i2}
  Requests = {q1, q2}
  Refreshers = {c1, c2}
  Budgets <- Small
  Rows = {r1, r2}
  Bare = {r2}
  Timers = {t1, t2}
  Limit = 1
  Overlap = 1
  MaxLag = 0
INVARIANTS
  TypeOK
  NothingForgotten
  OneDevicePerShip
  
PROPERTIES
  NeverBackwards
  CacheSettles
  StoppedIsClosed
