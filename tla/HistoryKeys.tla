---------------------------- MODULE HistoryKeys ----------------------------
(***************************************************************************)
(* Both ways of sharing history keys, over one mailbox: the topic's tier   *)
(* decides which (provisionArchiveAccess and the give and take tick of     *)
(* ChatPanel.tsx and ChatRoomScreen.tsx, grantRoomKeys of the phone).  A   *)
(* DM or a public topic has one root, a private or secret one a key for    *)
(* each epoch.                                                             *)
(***************************************************************************)
EXTENDS ArchiveRoot, EpochGrants

vars == <<roomVars, faults, rootVars, keychainVars, grantVars>>

Init == RoomInit /\ RootInit /\ KeychainInit /\ GrantInit

Next ==
  \/ SingleRoot /\ ARNext /\ UNCHANGED <<keychainVars, grantVars>>
  \/ PerEpoch /\ EGNext /\ UNCHANGED rootVars

Spec == Init /\ [][Next]_vars

FairSpec == Spec /\ ARFair /\ UploadFair
TickSpec == Spec /\ TickFair

\* Type correctness.
TypeOK ==
  /\ tier \in Tier /\ leaves \subseteq Device /\ epoch \in Epochs
  /\ faults \in 0..MaxFaults[tier]
  /\ ARTypeOK
  /\ EGTypeOK
=============================================================================
