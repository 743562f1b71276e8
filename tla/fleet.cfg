\* Two ships, their interfaces and subscribers, in six small stories.
SPECIFICATION Spec
CONSTANTS
  d1 = d1 d2 = d2 d3 = d3
  a1 = a1 a2 = a2 s1 = s1 s2 = s2 t1 = t1 t2 = t2 k1 = k1 k2 = k2 u1 = u1 u2 = u2 w = w a = a b = b x = x p1 = p1 p2 = p2
  None = None
  Areas = {a1, a2}
  Ships = {s1, s2}
  Tenants = {t1, t2}
  Packages = {k1, k2}
  Subscribers = {u1, u2}
  AreaOf <- InFirst
  CodeOf <- OwnCode
  Price <- Prices
  Requests = {p1, p2}
  Interfaces = {w, a, b, x}
  HomeOf <- Home
  Uplinks = {w, x}
  Users = {u1}
  Domains = {d1, d2, d3}
  Catalogue = {d1, d2}
  ShownDomains = 1
  LastTime = 2
  Plans <- OneOfSix
INVARIANTS
  NoPacketCountedTwice
  GapIsWhatWasNotCounted
  ReportsAgree
  FleetAddsUp
  RevenueAddsUp
CHECK_DEADLOCK FALSE
SYMMETRY Symmetry
