SPECIFICATION Spec
CONSTANTS
  Proc <- MCProc
  NoProc = "none"
  Outside = {"init"}
  Reaper = "init"
  Pid = {11, 12}
  OutsidePid <- MCOutsidePid
  PidOf <- MCPidOf
  Group = {11}
  Name = {"app", "db", "root"}
  Unsafe = {}
  Refuses = {}
  Start <- MCStart
  Disturbances = {"exec"}
  MaxDisturbances = 1
  Socket = {"s", "t"}
  Endpoint = {"any:80", "any:81"}
  EndpointOf <- MCEndpointOf
  Port = {80, 81}
  PortOf <- MCPortOf
  Listening = {"s", "t"}
  StartHolds <- MCStartHolds
  NoName = "?"
  NoEndpoint = "nowhere"
  Hidden = {"root"}
  Blinds <- MCHidepid
  Attempts = 1
  MaxGaps = 1
  ReadFaults = {}
  RootProc = "r"
  Requests <- MCRequests
  Protected = {"db"}
  Faults = {}
INVARIANTS
  ReportedExitIsReal
