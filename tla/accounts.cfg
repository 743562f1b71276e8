\* Two rows of one username, two requests at a time, a failed statement.
SPECIFICATION Spec
CONSTANTS
  s1 = s1
  s2 = s2
  k1 = k1
  k2 = k2
  p1 = p1
  p2 = p2
  Subscribers = {s1, s2}
  UserOf <- SameUser
  Packages = {k1}
  Blocked = {"SUSPENDED"}
  Requests = {p1, p2}
  MaxRequests = 4
  MaxFaults = 1
SYMMETRY Symmetry
INVARIANTS
  LoginFollowsRow
  PackageOutlivesSubscribers
CHECK_DEADLOCK FALSE
