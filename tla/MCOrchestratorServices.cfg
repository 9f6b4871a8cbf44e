\* One click at a time: Extreme, Balanced, restore leaves the services frozen.
SPECIFICATION Spec
CONSTANTS
  None = None
  Clicks = {c1}
  Pollers = {p1}
  Tickers = {t1}
  Routes = {r1}
  MaxSuspend = 1
  MaxFailures = 0
INVARIANT ServicesResumed
