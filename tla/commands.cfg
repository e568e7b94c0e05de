SPECIFICATION Spec
CONSTANTS
  Proc <- MCProc
  NoProc = "none"
  Outside <- MCOutside
  Reaper = "init"
  Pid = {11, 12, 13}
  OutsidePid <- MCOutsidePid
  PidOf <- MCPidOf
  Group = {11, 13}
  Name = {"app", "guard", "suid"}
  Unsafe = {}
  Refuses = {"suid"}
  Start <- MCStart
  Disturbances = {"spawn", "die", "exec", "regroup", "open", "close", "respawn", "expire"}
  MaxDisturbances = 1
  Socket = {"s", "t", "u"}
  Endpoint <- MCEndpoint
  EndpointOf <- MCEndpointOf
  Port = {80, 81, 90}
  PortOf <- MCPortOf
  Listening = {"s", "t", "u"}
  StartHolds <- MCStartHolds
  SettleAttemptsMax = 2
  SettleFaults = {"exit", "refresh"}
  Invocations <- MCInvocations
  Protected = {"guard"}
  SystemName = {}
  Foreign = {"suid"}
  Faults = {"collect", "interrupt", "prompt", "race", "owner", "probe", "pipe", "output", "table", "clock"}
  MemberCap = 3
  GroupYesSkipMax = 2
  BatchTargetsMax = 3
  Address <- MCAddress
  V6 <- MCV6
  Wildcard <- MCWildcard
  KernelSocket <- MCKernelSocket
  WhyEndpointsMax = 8
  WhyEvidenceMax = 3
  Loopback = {"127.0.0.1", "::1"}
  Collation <- MCCollation
  DisplayMax <- MCDisplayMax
INVARIANTS
  ReportIsCurrent
  BatchAccounts
  HandoverMatches
  ReadingsHold
PROPERTIES
  BatchSignalsWhatItListed
