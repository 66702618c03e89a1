-------------------------- MODULE MCChatArchive --------------------------
(* Messages, devices and instances are interchangeable. *)
EXTENDS ChatArchive, TLC

Symmetry == Permutations(Msg) \cup Permutations(Device) \cup Permutations(Instance)
=============================================================================
