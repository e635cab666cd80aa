SPECIFICATION FairSpec
CONSTANTS
  a = a
  b = b
  t1 = t1
  t2 = t2
  j1 = j1
  Paths <- MCPaths
  AutoNames <- MCAutoNames
  Requests <- MCRequests
  Absent = Absent
  Other = Other
  Partial = Partial
  Dump = Dump
  Baseline = Baseline
  NoPath = NoPath
  Directory = Directory
INVARIANTS NoOrphanOutput RunSettled
PROPERTIES FilesSpec Terminates
CHECK_DEADLOCK FALSE
