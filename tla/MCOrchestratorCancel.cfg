\* Two clicks: the second does not stop the first between its stages.
SPECIFICATION Spec
CONSTANTS
  None = None
  Clicks = {c1, c2}
  Pollers = {p1}
  Tickers = {t1}
  Routes = {r1}
  MaxSuspend = 1
  MaxFailures = 0
PROPERTY CancelHeeded
