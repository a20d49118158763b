SPECIFICATION Spec
CONSTANTS
  Calls = {c1}
  Instances = {i1}
  Secrets = {e1}
  Free = Free
  MaxProcesses = 1
  MaxStarts = 1
INVARIANT ShutdownTerminates
\* When the runner has ended everything stops.
CHECK_DEADLOCK FALSE
