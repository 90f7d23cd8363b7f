SPECIFICATION Spec
CONSTANTS
  Workers = {w1, w2}
  Objects = {1, 2, 3}
  Heaps <- SmallHeaps
  Requests <- AllRequests
  Buckets <- SmallBuckets
  NoOne = NoOne
INVARIANT
  ReportExact
PROPERTY
  EndsWithReportOrProcess
