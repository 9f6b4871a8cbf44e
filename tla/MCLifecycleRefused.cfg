\* A process that ends while the system is tuned: the next one refuses to restore.
SPECIFICATION LifeSpec
CONSTANTS
  None = None
  Clicks = {c1}
  Pollers = {p1}
  Tickers = {t1}
  Routes = {r1}
  MaxSuspend = 1
  MaxFailures = 0
  MaxStops = 1
PROPERTY RestoreNotRefused
