-------------------------- MODULE MCArchiveHolder --------------------------
(* One committer, two devices with different roots, two requests at a time. *)
EXTENDS ArchiveHolder, TLC

\* Devices, fingerprints and handlers are only ever compared for equality.
Symmetry ==
  Permutations(Device) \cup Permutations(Root) \cup Permutations(Handler)
=============================================================================
