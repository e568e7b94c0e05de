SPECIFICATION Spec
CONSTANTS
  Socket = {1, 2, 3, 4, 5, 6, 7}
  Bucket = {1, 2}
  BucketOf <- MCBucketOf
  Endpoint = {"any:80", "any:81"}
  EndpointOf <- MCEndpointOf
  NoEndpoint = "nowhere"
  ShownOf <- MCShownOf
  Pid = {7, 8}
  Start = {"early", "late"}
  NoStart = "?"
  OwnersOf <- MCOwnersOf
  CompleteOf <- MCCompleteOf
  Word = {"app", "db"}
  NoWord = "-"
  ProtectedWord = {"db"}
  ByExecutable = FALSE
  MetadataOf <- MCMetadataOf
  Terms <- MCTerms
  Snapshots <- MCSnapshots
  NoSnapshot = NoSnapshot
  Choices <- MCChoices
  Interval = 2
  Duration = 4
  FailuresMax = 3
  BatchMax = 2
  SequenceMax = 6
  Faults = {"collect", "clock", "pipe", "io"}
CHECK_DEADLOCK FALSE
INVARIANTS
  LedgerAgrees
  EndsInOrder
  VisibilityIsHonest
PROPERTIES
  FullInterval
  EventuallyEnds
