SPECIFICATION Spec
CONSTANTS
  Runs = {r1}
  Servers = {s1}
  NoServer = NoServer
  Conversation <- OneConversation
  ImageRuns = {r1}
  TimedRuns = {}
  DevelopmentActor = FALSE
  Redis = TRUE
  LostReplies = FALSE
  MaxFaults = 0
  MaxCrashes = 0
INVARIANTS EndedRunIsDurable
CHECK_DEADLOCK FALSE
