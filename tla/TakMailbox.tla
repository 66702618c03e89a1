----------------------------- MODULE TakMailbox -----------------------------
(***************************************************************************)
(* What the two ways of sharing history keys have in common: the room, its *)
(* MLS group, and the mailbox tak_bundles, in which keys travel wrapped to *)
(* one device's leaf (storeTakBundle, fetchUndeliveredBundles and          *)
(* markBundlesDelivered of src/src/lib/mls/archive.ts, the route           *)
(* tak/bundles).  The group is external: MlsSession models how leaves and  *)
(* epochs come about.  A device is a leaf: one that is removed and joins   *)
(* again has a new leaf, and is another device.                            *)
(***************************************************************************)
EXTENDS Naturals

CONSTANTS
  Device,
  Account,
  OwnerOf,     \* the account a device is signed in to
  Tier,        \* chat tiers explored: dm, public, private, secret
  Founder,     \* of a tier: the devices in the group at the start
  None,        \* nothing
  MaxEpoch,    \* bound of a tier: changes of the group
  Faulty,      \* bound of a tier: devices things go wrong on
  MaxFaults    \* bound of a tier: requests that fail, apps that stop

ASSUME OwnerOfType == OwnerOf \in [Device -> Account]
ASSUME TierType == Tier \subseteq {"dm", "public", "private", "secret"}
ASSUME FounderType == Founder \in [Tier -> SUBSET Device]
ASSUME NoneIsNoNumber == None \notin Nat
ASSUME RoomBounds ==
  /\ MaxEpoch \in [Tier -> Nat] /\ MaxFaults \in [Tier -> Nat]
  /\ Faulty \in [Tier -> SUBSET Device]

VARIABLES
  tier,        \* the topic's tier; it never changes
  leaves,      \* devices in the group's tree
  epoch,       \* the group's epoch
  mailbox,     \* the undelivered rows of tak_bundles
  faults

roomVars == <<tier, leaves, epoch, mailbox>>

Epochs == 0..MaxEpoch[tier]
AllEpochs == UNION {0..MaxEpoch[t] : t \in Tier}

\* One of the things a bound is set on: a request without an answer, an app that
\* stops.
MayFail(d) == d \in Faulty[tier] /\ faults < MaxFaults[tier]
Fault(d) == MayFail(d) /\ faults' = faults + 1

\* Does b hit an undelivered row of the same device and scope?
Duplicate(b) == \E o \in mailbox : o.to = b.to /\ o.scope = b.scope

\* storeTakBundle, once for each bundle: INSERT ... WHERE NOT EXISTS.  Two that
\* run at once can both find nothing, and then both are stored.
Deposit(bundles, racing) ==
  \/ mailbox' = mailbox \cup {b \in bundles : ~Duplicate(b)}
  \/ racing /\ mailbox' = mailbox \cup bundles

\* fetchUndeliveredBundles: a read.
Addressed(d) == {b \in mailbox : b.to = d}

\* markBundlesDelivered, after the keys are stored; the device may also stop
\* before, and then the bundle is delivered again.
Acknowledge(b, stored) ==
  \/ mailbox' = mailbox \ {b}
  \/ stored /\ UNCHANGED mailbox

RoomInit ==
  /\ tier \in Tier
  /\ leaves = Founder[tier]
  /\ epoch = 0
  /\ mailbox = {}
  /\ faults = 0

\* A device joins by an external Commit.
JoinGroup(d) ==
  /\ d \notin leaves
  /\ epoch < MaxEpoch[tier]
  /\ leaves' = leaves \cup {d}
  /\ epoch' = epoch + 1
  /\ UNCHANGED <<tier, mailbox, faults>>

\* A member removes the leaves of an account that is no member any more.
LeaveGroup(a) ==
  /\ \E d \in leaves : OwnerOf[d] = a
  /\ epoch < MaxEpoch[tier]
  /\ leaves' = {d \in leaves : OwnerOf[d] # a}
  /\ epoch' = epoch + 1
  /\ UNCHANGED <<tier, mailbox, faults>>
=============================================================================
