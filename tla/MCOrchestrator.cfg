\* Three clicks at a time, no failing call: every interleaving of switches.
SPECIFICATION Spec
CONSTANTS
  None = None
  Clicks = {c1, c2, c3}
  Pollers = {p1, p2}
  Tickers = {t1, t2}
  Routes = {r1}
  MaxSuspend = 2
  MaxFailures = 0
SYMMETRY Symmetry
INVARIANTS
  TypeOK
  ModeHeld
  PollerFollowsMode
  NoOrphanTicker
  WaitsEnd
  NotesHonest
  CleanRollback
PROPERTIES
  SwitchesModes
