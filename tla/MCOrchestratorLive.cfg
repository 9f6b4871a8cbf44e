\* Two clicks at a time under fairness.
SPECIFICATION FairSpec
CONSTANTS
  None = None
  Clicks = {c1, c2}
  Pollers = {p1}
  Tickers = {t1, t2}
  Routes = {}
  MaxSuspend = 1
  MaxFailures = 0
PROPERTIES
  ClickAnswered
  CancelledTickerStops
