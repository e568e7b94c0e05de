SPECIFICATION FairTerminalSpec
CONSTANTS
  Proc <- MCProc
  NoProc = "none"
  Outside <- MCOutside
  Reaper = "init"
  Pid = {11, 12}
  OutsidePid <- MCOutsidePid
  PidOf <- MCPidOf
  Group = {11}
  Name = {"app", "guard"}
  Unsafe = {}
  Refuses = {}
  Start <- MCStart
  Disturbances = {"respawn", "exec"}
  MaxDisturbances = 1
  Socket = {"s", "t"}
  Endpoint = {"any:80", "any:81"}
  EndpointOf <- MCEndpointOf
  Port = {80, 81}
  PortOf <- MCPortOf
  Listening = {"s", "t"}
  StartHolds <- MCStartHolds
  Protected = {"guard"}
  SystemName = {}
  Foreign = {}
  Faults = {"spawn", "lost", "pin", "collect", "panic", "tty", "sigaction"}
  Modes = {"KILL"}
  MemberCap = 3
  MaxSignals = 1
  Termination = {"TERM", "HUP"}
  Disposition = {"default", "ignored", "custom"}
INVARIANTS
  ShownIsOneProcess
  SessionIsUndone
PROPERTIES
  SignalsWhatWasConfirmed
  NoOlderSnapshotAfterKill
  ConfirmationAnswerable
