--------------------------- MODULE MCChatMedia ---------------------------
(* Attachments are interchangeable, and so are instances. *)
EXTENDS ChatMedia, TLC

Symmetry == Permutations(Key) \cup Permutations(Sweeper)
=============================================================================
