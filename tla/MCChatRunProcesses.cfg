SPECIFICATION FairSpec
CONSTANTS
  Runs = {r1, r2}
  Servers = {s1, s2}
  NoServer = NoServer
  Conversation <- OneConversation
  ImageRuns = {r2}
  TimedRuns = {r1}
  DevelopmentActor = TRUE
  Redis = TRUE
  LostReplies = FALSE
  MaxFaults = 0
  MaxCrashes = 0
INVARIANTS OneRunPerConversation
PROPERTIES CancelledIsFinal CancelStops
CHECK_DEADLOCK FALSE
