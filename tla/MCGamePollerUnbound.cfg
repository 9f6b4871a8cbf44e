\* Two process ids, no failures: UnboundAfterGame is violated.
SPECIFICATION PollerSpec
CONSTANTS
  PIDs = {p1, p2}
  MaxStarts = 3
  MaxHandles = 1
  MaxFailures = 0
INVARIANT UnboundAfterGame
