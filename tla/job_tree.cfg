SPECIFICATION Spec
CONSTANTS
  Proc <- MCProc
  NoProc = "none"
  Outsider = "outside"
  Pid = {11, 12, 13, 14}
  PidOf <- MCPidOf
  Name = {"app", "guard", "svchost", "sealed"}
  Sealed = {"sealed"}
  Start <- MCStart
  Disturbances = {"spawn", "arrive", "exit", "open", "name", "assign", "snapshot", "probe", "helper", "slow", "freeze", "thaw", "ids", "terminate", "wait"}
  MaxDisturbances = 3
  Root = "r"
  Protected = {"guard"}
  SystemName = {"svchost"}
  Unsafe = {14}
  MemberCap = 3
  SweepPasses = 5
INVARIANTS
  NobodyLeftFrozen
  ReportIsTrue
PROPERTIES
  JobIsTheConfirmedTree
