\* Two projects, of which only the cloud buckets are edited, and two calls.
CONSTANTS
  Kinds = {"buckets"}
  Projects = {p1, p2}
  Providers = {r1, r2}
  MaxWrites = 1
  OtherBindings = {}
  CallIds = {c1, c2}
  None = None
  Idle = Idle
SPECIFICATION ProjectsSpec
INVARIANT EditsSaveTheirOwn
CHECK_DEADLOCK FALSE
