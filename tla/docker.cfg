SPECIFICATION FairSpec
CONSTANTS
  Call <- MCCall
  RowCap = 3
  MatchCap = 2
  SegmentCap = 3
  DrainMax = 3
  CleanupMax = 1
  Entries <- MCEntries
  Listings <- MCListings
  Faults = {"thread", "spawn", "wait", "read", "reap"}
  MaxFaults = 1
INVARIANTS
  NothingLeaks
  AnswerIsWhole
PROPERTIES
  CapacityComesBack
