SPECIFICATION Spec
CONSTANTS
  Names = {alice}
  Roots = {r1, r2}
  Self = me
  Replicas = {x1}
  Maintainers = {me, x1}
  TTL = 1
  Interval = 1
  MaxTime = 2
  MaxPublish = 3
  MaxCrashes = 1
  None = None
INVARIANTS RegistrarSound NamesStayAlive
CHECK_DEADLOCK FALSE
