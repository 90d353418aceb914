SPECIFICATION MCSpec
CHECK_DEADLOCK FALSE
CONSTANTS
  Procs = {"p1", "p2"}
  Fetches = {1, 2, 3, 4}
  Proc <- FetchProc
  Image <- FetchImage
  Op <- FetchOp
  MaxCrashes = 1
  Nobody = Nobody
  Names = {"n1", "n2"}
  Requests = {1, 2, 3, 4, 5, 6}
  Method <- RequestMethod
  Target <- RequestTarget
  Port <- RequestPort
  MaxPort = 2
  Failures = 1
  Absent = Absent
  Volumes = {"v1", "v2"}
  VolumeCalls = {1, 2, 3, 4, 5, 6}
  Action <- VolumeAction
  Volume <- VolumeName
  Where <- VolumePlace
  Type <- VolumeType
  NoInfo = NoInfo
INVARIANTS
  BlobsVerified RegistryDurable VolumesTracked
PROPERTIES
  GoodBlobKept CallsReturn
