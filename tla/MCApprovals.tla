---------------------------- MODULE MCApprovals ----------------------------
(* Either one install with a configuration card, two tabs, faults and crashes, *)
(* or two terminal calls of one conversation, a first, and one tab, without.   *)
EXTENDS Approvals

CONSTANTS a, b, h, t1

\* a and b are terminal calls, h an install.
OneTool == [c \in Calls |-> IF c = h THEN "install" ELSE "terminal"]
OneConversation == [c \in Calls |-> "k1"]

Scenario ==
  \/ \A c \in Calls \ {h} : pc[c] = "idle"
  \/ /\ pc[h] = "idle" /\ faults = 0 /\ crashes = 0
     /\ pc[a] = "idle" => pc[b] = "idle"
     /\ \A t \in Tabs \ {t1} : req[t] = NoRequest

ScenarioSpec == Init /\ [][Next /\ Scenario']_vars /\ Fairness
=============================================================================
