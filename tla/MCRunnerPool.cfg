SPECIFICATION FairSpec
CONSTANTS
  Calls = {c1, c2}
  Instances = {i1, i2}
  Secrets = {e1}
  Free = Free
  MaxProcesses = 1
  MaxStarts = 2
INVARIANTS TypeOK NoForgottenChild NotIdleInUse DirectoryHandedOver ShutdownSeals
PROPERTIES CallReturns
\* When the runner has ended everything stops.
CHECK_DEADLOCK FALSE
