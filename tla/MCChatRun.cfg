SPECIFICATION Spec
CONSTANTS
  Runs = {r1, r2}
  Servers = {s1}
  NoServer = NoServer
  Conversation <- OwnConversation
  ImageRuns = {}
  TimedRuns = {}
  DevelopmentActor = FALSE
  Redis = TRUE
  LostReplies = TRUE
  MaxFaults = 1
  MaxCrashes = 1
SYMMETRY RunSymmetry
INVARIANTS CancelTruth CompletedTruth TurnAgrees NoOrphanTurn
PROPERTIES TerminalIsFinal
CHECK_DEADLOCK FALSE
