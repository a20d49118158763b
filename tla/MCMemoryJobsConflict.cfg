\* Two turns state one fact in different words, each lane promotes one.
SPECIFICATION Spec
CONSTANTS
  Lanes = {l1, l2}
  Turns = {t1, t2}
  NoLease = NoLease
  ExtractAttempts = 1
  LongAttempts = 1
  SameText = FALSE
  MaxChanges = 0
  MaxFaults = 0
PROPERTIES PromotedWithoutConflict
\* Everything may be settled.
CHECK_DEADLOCK FALSE
