\* One click at a time, a process that ends up to twice.
SPECIFICATION LifeSpec
CONSTANTS
  None = None
  Clicks = {c1}
  Pollers = {p1}
  Tickers = {t1}
  Routes = {r1}
  MaxSuspend = 1
  MaxFailures = 1
  MaxStops = 2
INVARIANTS
  LifeTypeOK
  PristineSnapshot
  RestoreComplete
  SecondChance
PROPERTIES
  BaselineLocked
  RestartsAsModeSwitch
