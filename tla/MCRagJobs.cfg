SPECIFICATION RebuildSpec
CONSTANTS
  Workers = {w1, w2}
  Chunks = {c1}
  None = None
  MaxParses = 2
  MaxVersions = 2
  MaxAttempts = 2
  MaxFaults = 1
INVARIANTS TypeOK ServesCurrent PurgeIsFinal VersionFollowsJobs
PROPERTIES DeletedIsDead CutoverServes JobsSettle
\* The API stops at its bounds and the queue is then empty.
CHECK_DEADLOCK FALSE
