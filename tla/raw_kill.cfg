SPECIFICATION Spec
CONSTANTS
  Proc <- MCProc
  NoProc = "none"
  Outside = {"init"}
  Reaper = "init"
  Pid = {11, 12}
  OutsidePid <- MCOutsidePid
  PidOf <- MCPidOf
  Group = {"g1"}
  Name = {"app", "guard", "other"}
  Unsafe = {}
  Refuses = {"other"}
  Start <- MCStart
  Disturbances = {"spawn", "fork", "die", "exec", "stop", "cont"}
  MaxDisturbances = 4
  Target = "t"
  Known = "app"
  Protected = {"guard"}
  Mode = {"TERM", "KILL"}
  Faults = {"read", "evidence", "cancel"}
INVARIANTS
  EndIsHonest
PROPERTIES
  SignalFollowsProof
