------------------------ MODULE MCTopicMembership ------------------------
(* Users but the creator, tokens and slots are interchangeable. *)
EXTENDS TopicMembership, TLC

Symmetry ==
  Permutations(User \ {Creator}) \cup Permutations(Token) \cup Permutations(Slot)
=============================================================================
