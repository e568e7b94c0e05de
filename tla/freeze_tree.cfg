SPECIFICATION Spec
CONSTANTS
  Proc <- TreeProc
  NoProc = "none"
  Outside <- MCOutside
  Reaper = "init"
  Pid <- MCPid
  OutsidePid <- MCOutsidePid
  PidOf <- TreePidOf
  Group = {11}
  Name = {"app", "guard", "suid"}
  Unsafe = {}
  Refuses = {"suid"}
  Start <- TreeStart
  Disturbances = {"fork", "spawn", "die", "exec", "stop", "cont"}
  MaxDisturbances = 2
  RootProc = "r"
  RootName = "app"
  TargetGroup = 11
  Requests <- TreeRequests
  Protected = {"guard"}
  SystemName = {}
  Foreign = {"suid"}
  MaxFreezePasses = 2
  MemberCap = 3
  GroupYesSkipMax = 1
  Faults = {"interrupt", "read"}
INVARIANTS
  TypeOK
  OnlyVerifiedSignalled
  StopsAreUndone
  ScopeClosedAtDelivery
PROPERTIES
  SignalStaysInScope
  PolicyHeldAtDelivery
  KeepsPromise
