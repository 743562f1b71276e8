\* Overlapping sweeps, forced checks, an administrator and failures; the choice of the active endpoint.
SPECIFICATION FairSpec
CONSTANTS
  e1 = e1 e2 = e2 w1 = w1 w2 = w2 f1 = f1 a1 = a1
  NoEndpoint = NoEndpoint
  Endpoints = {e1, e2}
  Sweepers = {w1, w2}
  Forcers = {f1}
  Admins = {a1}
  Priority <- ByName
  Down = {e1}
  Threshold = 2
  Budgets <- OneOfThree
INVARIANT HalfOpenHasProbe
INVARIANT AlertFollowsHealth
INVARIANT BestIsActive
PROPERTY OpenIsProbedAgain
PROPERTY MaintenanceSettles
\* The only endpoint may have been removed.
CHECK_DEADLOCK FALSE
