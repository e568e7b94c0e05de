SPECIFICATION FairSpec
CONSTANTS
  Proc <- GroupProc
  NoProc = "none"
  Outside <- MCOutside
  Reaper = "init"
  Pid <- MCPid
  OutsidePid <- MCOutsidePid
  PidOf <- GroupPidOf
  Group = {11, 99}
  Name = {"app", "guard", "suid"}
  Unsafe = {14}
  Refuses = {"suid"}
  Start <- GroupStart
  Disturbances = {"fork", "spawn", "die", "exec", "regroup"}
  MaxDisturbances = 2
  RootProc = "r"
  RootName = "app"
  TargetGroup = 11
  Requests <- GroupRequests
  Protected = {"guard"}
  SystemName = {}
  Foreign = {"suid"}
  MaxFreezePasses = 2
  MemberCap = 3
  GroupYesSkipMax = 2
  Faults = {}
INVARIANTS
  SelfNeverStopped
PROPERTIES
  ResumeAfterSignals
  EventuallyDone
