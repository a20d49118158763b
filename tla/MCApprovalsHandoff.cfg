SPECIFICATION Spec
CONSTANTS
  a = a
  b = b
  h = h
  t1 = t1
  Calls = {h}
  Conversation <- OneConversation
  Tool <- OneTool
  Grantable = {}
  Handoff = {h}
  Explicit = {}
  Tabs = {t1}
  MaxFaults = 0
  MaxCrashes = 0
INVARIANTS ConfigurationAwaited
CHECK_DEADLOCK FALSE
