---------------------------- MODULE MCAgentGoals ----------------------------
(* Model-checking instance of AgentGoals: each turn in a process of its own. *)
EXTENDS AgentGoals, TLC

CONSTANTS t1, t2, h1, h2

TwoHosts == (t1 :> h1) @@ (t2 :> h2)

\* Goals are interchangeable, and so are the turns together with their hosts.
Swap == (t1 :> t2) @@ (t2 :> t1) @@ (h1 :> h2) @@ (h2 :> h1)
Keep12 == [x \in {t1, t2, h1, h2} |-> x]
TurnSymmetry == {p @@ q : p \in Permutations(Goals), q \in {Swap, Keep12}}
=============================================================================
