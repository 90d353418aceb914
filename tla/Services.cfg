SPECIFICATION MCSpec
CHECK_DEADLOCK FALSE
CONSTANTS
  Names <- DepsNames
  Services <- DepsServices
  Dependencies <- DepsDependencies
  Callers = {1, 2}
  Failing = {"b", "d"}
  MaxCalls = 3
  Users = {1, 2}
  MaxOut = 2
  MaxErr = 4
  PipeSize = 1
  stderrCaptureLimit = 1
  Runs = {1, 2}
  Hosts = {h1, h2}
  None = None
  LazyCallers = {1, 2}
  Lazies = {"a", "b", "c"}
  MaxStopped = 1
  MaxBroken = 2
  Nil = Nil
  Owners = {"o1", "o2"}
  Collectors = {"monitor", "other"}
  MaxTicks = 2
  MaxCollects = 2
  Boxes = {"c1"}
  Limit = 50
  Targets = {1, 2}
  Retries <- PolicyRetries
  Delays = {0, 3, 60}
  Factors = {0, 1, 2, 3}
  MaxDelay = 10
  Unset = Unset
  ComposeServices = {"web", "db"}
  Scopes = {{}, {"web"}}
  Unlabelled = {"db"}
  MaxMoves = 2
  NoCommand = NoCommand
INVARIANTS
     ChildrenReapedOnce
PROPERTIES
  SuccessIsReal CallsReturn
