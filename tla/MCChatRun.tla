----------------------------- MODULE MCChatRun -----------------------------
(* Model-checking instances of ChatRun. *)
EXTENDS ChatRun, TLC

OneConversation == [r \in Runs |-> "k"]
OwnConversation == [r \in Runs |-> r]
RunSymmetry == Permutations(Runs)
RunServerSymmetry == Permutations(Runs) \union Permutations(Servers)
=============================================================================
