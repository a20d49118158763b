SPECIFICATION FairSpec
CONSTANTS
  Lanes = {l1, l2}
  Turns = {t1}
  NoLease = NoLease
  ExtractAttempts = 2
  LongAttempts = 2
  SameText = TRUE
  MaxChanges = 1
  MaxFaults = 1
INVARIANTS TypeOK QueueAgrees MemoryOfDraft
PROPERTIES DecidedIsFinal SourceExists JobsSettle
\* Everything may be settled and the bounds on changes used up.
CHECK_DEADLOCK FALSE
