SPECIFICATION FairSpec
CONSTANTS
  Proc <- MCProc
  NoProc = "none"
  Outside = {"init"}
  Reaper = "init"
  Pid = {11, 12}
  OutsidePid <- MCOutsidePid
  PidOf <- MCPidOf
  Group = {11}
  Name = {"app", "db", "root"}
  Unsafe = {}
  Refuses = {"root"}
  Start <- MCStart
  Disturbances = {"spawn", "die", "exec", "stop", "cont", "close", "pass"}
  MaxDisturbances = 2
  Socket = {"s", "t"}
  Endpoint = {"any:80", "any:81"}
  EndpointOf <- MCEndpointOf
  Port = {80, 81}
  PortOf <- MCPortOf
  Listening = {"s", "t"}
  StartHolds <- MCStartHolds
  NoName = "?"
  NoEndpoint = "nowhere"
  Hidden = {"root"}
  Blinds <- MCVisible
  Attempts = 2
  MaxGaps = 1
  ReadFaults = {"identity", "pass"}
  RootProc = "r"
  Requests <- MCRequests
  Protected = {"db"}
  Faults = {"interrupt", "read"}
INVARIANTS
  OnlyConfirmedTouched
  SocketsAsConfirmed
  EndIsHonest
PROPERTIES
  PolicyHeldAtDelivery
  AnsweredIsDone
