CONSTANT MaxRuns = 3
SPECIFICATION Spec
INVARIANTS
  MipsFollowsQuads
  ReportedMeansStale
  ReturnedMeansAnswered
CHECK_DEADLOCK FALSE
