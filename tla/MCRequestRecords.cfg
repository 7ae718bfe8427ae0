CONSTANTS
  Requests <- MCRequests
  Retried <- MCRetried
  Sampled <- MCSampled
  Absent = Absent
  Broken = Broken
  MaxFaults = 2
SPECIFICATION Spec
INVARIANTS
  DiskIsMemory
PROPERTY NeverForgets
