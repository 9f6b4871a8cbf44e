\* The poller in detail and seven small components, one of which moves in each behaviour.  A behaviour
\* ends when its bounds are used up.
SPECIFICATION Spec
CONSTANTS
  Writers = {"worker", "loop"}
  MaxLines = 2
  BootLines = 1
  Capacity = 2
  FeedLimit = 3
  FeedCut = 2
  Languages = {"en", "xx"}
  Untranslated <- MCUntranslated
  Toggles = {"click"}
  MaxEvents = 2
  MaxUpdates = 2
  MaxRefused = 2
  HostIds = {1, 2}
  MaxHosts = 4
  MaxCount = 3
  MaxDenied = 1
  Order <- MCOrder
  Parent <- MCParent
  Outside = "outside"
  LogNamed = {"app.log", "tmp.log"}
  UserTemp = "Temp"
  SystemTemp = "Windows"
  PrefetchDir = "Prefetch"
  CrashDumps = "CrashDumps"
  LocalAppData = "AppData"
  Elsewhere = "Home"
  Trees <- MCTrees
  MaxFileEvents = 1
  Ultimate = "ultimate"
  High = "high"
  Plans = {"ultimate", "high", "saver"}
  LockTickers = {"t1", "t2"}
  MaxPlanEvents = 4
  PIDs = {p1, p2}
  MaxStarts = 3
  MaxHandles = 2
  MaxFailures = 1
INVARIANTS
  TypesOK
  FeedInOrder
  DisabledForGood
  SysMainBack
  ThawedAfterRestore
  FrozenIsRemembered
  OnlyJunk
  FilesSwept
  TargetWasActive
  BoundIsRecorded
  OwnMaskRecorded
  ThrottledIsListed
  GameReleased
  AllReleased
PROPERTIES
  EveryLineShown
  ThemeKept
  LabelsSettle
  SysMainReturns
  PlanDefended
  CancelStops
CHECK_DEADLOCK FALSE
