SPECIFICATION MCSpec
CHECK_DEADLOCK FALSE
CONSTANTS
  RemoteHosts = {1, 2}
  LocalName = 0
  Total <- SchedTotal
  Used <- SchedUsed
  Network <- SchedNetwork
  HostLabels <- SchedLabels
  GPUs <- SchedGPUs
  Device <- SchedDevice
  Reqs = {"plain", "zoned", "cuda"}
  Need <- SchedNeed
  Want <- SchedWant
  PreferLocal = {}
  GPUNeed <- SchedGPUNeed
  NoGPU = NoGPU
  Batches = {1, 2}
  BatchReqs <- SchedBatches
  Reserve = 10
  Overcommit = 2
  GPUWeight = 0
  MaxReleases = 1
  NoHost = NoHost
  Containers = {"c1"}
  DistHosts = {"h1", "h2"}
  LocalHost = "local"
  Rounds = 2
  MaxFaults = 2
  Nowhere = Nowhere
  Offered <- OrchOffered
  Found <- OrchFound
  Missing = {4}
  MaxServices = 3
  Scanners = {1}
  OrchHosts = {"h1"}
  MaxStarts = 2
  MaxStops = 1
  MaxTrouble = 1
  None = None
  Endpoints = {"a", "b", "c", "d"}
  Catalogs <- BootCatalogs
  MaxBoots = 2
  Components = {1, 2, 3}
  BuildHosts = {1, 2}
INVARIANTS
  PlacementsSound   DependenciesFirst
