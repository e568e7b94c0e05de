SPECIFICATION Spec
CONSTANTS
  Proc <- TreeProc
  NoProc = "none"
  Outside <- MCOutside
  Reaper = "init"
  Pid <- MCPid
  OutsidePid <- MCOutsidePid
  PidOf <- TreePidOf
  Group = {11}
  Name = {"app", "guard", "suid"}
  Unsafe = {}
  Refuses = {"suid"}
  Start <- ZombieStart
  Disturbances = {}
  MaxDisturbances = 1
  RootProc = "r"
  RootName = "app"
  TargetGroup = 11
  Requests <- TreeRequests
  Protected = {"guard"}
  SystemName = {}
  Foreign = {"suid"}
  MaxFreezePasses = 8
  MemberCap = 3
  GroupYesSkipMax = 1
  Faults = {}
INVARIANT
  StaticScopeConverges
