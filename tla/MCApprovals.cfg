SPECIFICATION ScenarioSpec
CONSTANTS
  a = a
  b = b
  h = h
  t1 = t1
  Calls = {a, b, h}
  Conversation <- OneConversation
  Tool <- OneTool
  Grantable = {a, b}
  Handoff = {h}
  Explicit = {h}
  Tabs = {t1, t2}
  MaxFaults = 1
  MaxCrashes = 1
INVARIANTS OneAnswer AnswerDelivered ApprovedOnly
PROPERTIES FirstDecisionWins CallEnds
CHECK_DEADLOCK FALSE
