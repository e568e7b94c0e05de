SPECIFICATION ObservationSpec
CONSTANTS
  Proc <- MCProc
  NoProc = "none"
  Outside = {"init"}
  Reaper = "init"
  Pid = {11, 12}
  OutsidePid <- MCOutsidePid
  PidOf <- MCPidOf
  Group = {11}
  Name = {"app", "root"}
  Unsafe = {}
  Refuses = {}
  Start <- MCStart
  Disturbances = {"fork", "spawn", "die", "exec", "open", "close", "pass"}
  MaxDisturbances = 3
  Socket = {"s1", "s2"}
  Endpoint = {"any:80", "lo:80"}
  EndpointOf <- MCEndpointOf
  Port = {80}
  PortOf <- MCPortOf
  Listening = {"s1", "s2"}
  StartHolds <- MCStartHolds
  NoName = "?"
  NoEndpoint = "nowhere"
  Hidden = {"root"}
  Blinds <- MCBlinds
  Attempts = 2
  MaxGaps = 1
  ReadFaults = {"link", "identity", "pass"}
INVARIANTS
  VerifiedOwnersHeld
  HoldersAllKnown
