----------------------------- MODULE MlsSession -----------------------------
(***************************************************************************)
(* The MLS client of one topic, MlsSessionStore of                         *)
(* src/packages/mls/src/mlsSession.ts, on several devices, over the chain  *)
(* of Commits that DeliveryService is shown to implement.  Each device     *)
(* keeps a session in memory and a saved copy; every operation runs under  *)
(* the topic's promise lock, so what interleaves is the other devices, the *)
(* server's membership table, the answers to a device's own POST /commit,  *)
(* and forgetTopic, which takes no lock.                                   *)
(*                                                                         *)
(* A group state is the list of Commits it was derived from: two devices   *)
(* can read each other exactly when their lists agree.  ts-mls is external *)
(* and is modelled by RFC 9420: a state cannot process a Commit its own    *)
(* leaf made, nor the Commit that removes its leaf.                        *)
(***************************************************************************)
EXTENDS Naturals, Sequences, FiniteSets

CONSTANTS
  Device,
  Account,
  Owner,        \* the account a device is signed in to
  Sender,       \* devices that seal for the archive
  Founders,     \* the members when the first chat opens
  None,         \* no session, nothing saved
  MaxLeaves,    \* bound: leaves one device mints
  MaxLeaving,   \* bound: accounts kicked or leaving
  MaxFaults     \* bound: lost answers, failed saves and restarts

ASSUME OwnerType == Owner \in [Device -> Account]
ASSUME SenderType == Sender \subseteq Device
ASSUME FoundersType == Founders \subseteq Account
ASSUME Bounds == MaxLeaves \in Nat /\ MaxLeaving \in Nat /\ MaxFaults \in Nat

VARIABLES
  log,          \* accepted Commits, the genesis first; the epoch is Len - 1
  members,      \* topic_members
  sess,         \* device -> its session in memory, or None
  saved,        \* device -> the state in its secure store, or None
  op,           \* device -> the operation that waits for POST /mls/commit
  minted,       \* device -> leaves created so far (createDevice)
  roster,       \* device -> the member list it last fetched
  taks,         \* device -> epoch -> the TAK it stored for that epoch
  unsaved,      \* device -> epochs whose TAK the store last refused (history)
  reading,      \* device -> the epoch a key is being derived for, or None
  forgetting,   \* devices that left and are about to run forgetTopic
  leavings, faults

msVars == <<log, members, sess, saved, op, minted, roster, taks, unsaved, reading,
            forgetting, leavings, faults>>

Leaf   == Device \X (1..MaxLeaves)
Commit == [by : Leaf, tree : SUBSET Leaf]
State  == [leaf : Leaf, hist : Seq(Commit)]
ASSUME NoneIsNoState == None \notin State

NoOp   == [kind |-> "none", leaf |-> None, hist |-> <<>>, built |-> <<>>,
           answer |-> "none", dropped |-> FALSE]

EpochOf(hist) == Len(hist) - 1
Tree(hist)    == hist[Len(hist)].tree
IsPrefixOf(s, t) == Len(s) <= Len(t) /\ s = SubSeq(t, 1, Len(s))
OwnerOf(leaf) == Owner[leaf[1]]

\* processCommit: whether a state of this leaf can apply the Commit.
CanProcess(leaf, c) == c.by # leaf /\ leaf \in c.tree

\* How far catchUp gets from hist: it stops at the first Commit that throws.
CaughtUp(leaf, hist) ==
  LET Reaches(n) == \A k \in Len(hist)+1..n : CanProcess(leaf, log[k])
      n == CHOOSE n \in Len(hist)..Len(log) :
             /\ Reaches(n)
             /\ \A m \in n+1..Len(log) : ~Reaches(m)
  IN SubSeq(log, 1, n)

\* Mutant of Announced: only the epochs reached, not the one stood in.
AnnouncedAhead(from, to) ==
  IF Len(from) = Len(log) THEN {} ELSE EpochOf(from)+1..EpochOf(to)

\* Mutant of Announced: a Commit that throws is skipped and the loop goes on.
AnnouncedToHead(from, to) ==
  IF Len(from) = Len(log) THEN {} ELSE EpochOf(from)..EpochOf(log)

\* The epochs announceEpoch reports on the way: the one stood in, and each one
\* reached; none when there is nothing to pull.
Announced(from, to) ==
  IF Len(from) = Len(log) THEN {} ELSE EpochOf(from)..EpochOf(to)

\* The epoch listener of takSession: an epoch's TAK is derived from the state
\* standing in it, unless one is already stored.  taks[d][e] is the epoch whose
\* exporter secret the stored bytes came from.  For the epochs in lost the
\* store refuses: announceEpoch drops the error and the Commit is applied.
Listened(d, from, to, lost) ==
  /\ lost \subseteq Announced(from, to) \ DOMAIN taks[d]
  /\ taks' = [taks EXCEPT ![d] =
       [e \in DOMAIN taks[d] \cup (Announced(from, to) \ lost) |->
          IF e \in DOMAIN taks[d] THEN taks[d][e] ELSE e]]
  /\ unsaved' = [unsaved EXCEPT ![d] = (@ \ Announced(from, to)) \cup lost]

Connected(d) == Owner[d] \in members
Idle(d) == op[d].kind = "none"

\* An operation that has nothing to wait for yet, or a Commit still to be posted.
Begun(d, kind, leaf, hist, built) ==
  [kind |-> kind, leaf |-> leaf, hist |-> hist, built |-> built,
   answer |-> "none", dropped |-> op[d].dropped]

MSInit ==
  /\ log = <<>>
  /\ members = Founders
  /\ sess = [d \in Device |-> None]
  /\ saved = [d \in Device |-> None]
  /\ op = [d \in Device |-> NoOp]
  /\ minted = [d \in Device |-> 0]
  /\ roster = [d \in Device |-> Founders]
  /\ taks = [d \in Device |-> [e \in {} |-> e]]
  /\ unsaved = [d \in Device |-> {}]
  /\ reading = [d \in Device |-> None]
  /\ forgetting = {}
  /\ leavings = 0
  /\ faults = 0

\* A spell in which the device's secure store refuses writes is one fault.
StoreFails(fails) ==
  \/ ~fails /\ UNCHANGED faults
  \/ fails /\ faults < MaxFaults /\ faults' = faults + 1

\* persist: best effort, a failed save leaves the old copy.  The spell may have
\* begun before it (failing).
Persist(d, state, failing) ==
  \/ saved' = [saved EXCEPT ![d] = state] /\ StoreFails(failing)
  \/ UNCHANGED saved /\ StoreFails(TRUE)
-----------------------------------------------------------------------------
\* bootstrap: the saved leaf is restored when there is one.
Restore(d) ==
  /\ Idle(d) /\ sess[d] = None /\ saved[d] # None
  /\ sess' = [sess EXCEPT ![d] = saved[d]]
  /\ UNCHANGED <<log, members, saved, op, minted, roster, taks, unsaved, reading, forgetting,
                 leavings, faults>>

\* bootstrap: otherwise createDevice mints a new leaf.  (One minted by a device
\* the server refuses is thrown away at once, and is left out.)
MintLeaf(d) ==
  /\ Idle(d) /\ sess[d] = None /\ saved[d] = None /\ Connected(d)
  /\ minted[d] < MaxLeaves
  /\ minted' = [minted EXCEPT ![d] = @ + 1]
  /\ op' = [op EXCEPT ![d] = Begun(d, "boot", <<d, minted[d] + 1>>, <<>>, <<>>)]
  /\ UNCHANGED <<log, members, sess, saved, roster, taks, unsaved, reading, forgetting, leavings,
                 faults>>

\* bootstrap: GET /mls/group-info, then createTopicGroup or joinTopicGroup.
BuildJoin(d) ==
  LET leaf == op[d].leaf
      tree == IF log = <<>> THEN {leaf} ELSE Tree(log) \cup {leaf}
  IN
  /\ op[d].kind = "boot" /\ op[d].built = <<>>
  /\ Connected(d)
  /\ op' = [op EXCEPT ![d].built = Append(log, [by |-> leaf, tree |-> tree])]
  /\ UNCHANGED <<log, members, sess, saved, minted, roster, taks, unsaved, reading, forgetting,
                 leavings, faults>>

\* catchUp, as seal, open and sync run it.  When a Commit throws, what was
\* applied before it stays in memory and nothing is saved.
CatchUp(d) ==
  LET s  == sess[d]
      to == CaughtUp(s.leaf, s.hist)
  IN
  /\ Idle(d) /\ sess[d] # None /\ Connected(d)
  /\ Len(s.hist) < Len(log)
  /\ sess' = [sess EXCEPT ![d].hist = to]
  /\ \E lost \in SUBSET Announced(s.hist, to) :
       /\ Listened(d, s.hist, to, lost)
       /\ \/ to = log /\ Persist(d, [s EXCEPT !.hist = to], lost # {})
          \/ to # log /\ UNCHANGED saved /\ StoreFails(lost # {})
  /\ UNCHANGED <<log, members, op, minted, roster, reading, forgetting, leavings>>

\* currentArchiveKey, first readState: which epoch this is.  A key already
\* stored for it is used as it is.
ReadEpoch(d) ==
  LET e == EpochOf(sess[d].hist) IN
  /\ d \in Sender /\ Idle(d) /\ sess[d] # None /\ reading[d] = None
  /\ e \notin DOMAIN taks[d]
  /\ reading' = [reading EXCEPT ![d] = e]
  /\ UNCHANGED <<log, members, sess, saved, op, minted, roster, taks, unsaved, forgetting,
                 leavings, faults>>

\* currentArchiveKey, second readState: the key is derived from the state as it
\* is by now, and stored for the epoch that was read; when the store refuses,
\* the send fails.
DeriveKey(d) ==
  LET e == reading[d] IN
  /\ e # None /\ Idle(d) /\ sess[d] # None
  /\ \/ /\ taks' = [taks EXCEPT ![d] = [n \in DOMAIN @ \cup {e} |->
               IF n = e THEN EpochOf(sess[d].hist) ELSE @[n]]]
        /\ StoreFails(FALSE)
     \/ StoreFails(TRUE) /\ UNCHANGED taks
  /\ reading' = [reading EXCEPT ![d] = None]
  /\ UNCHANGED <<log, members, sess, saved, op, minted, roster, unsaved, forgetting,
                 leavings>>

\* GET /members.
FetchRoster(d) ==
  /\ Connected(d)
  /\ roster[d] # members
  /\ roster' = [roster EXCEPT ![d] = members]
  /\ UNCHANGED <<log, members, sess, saved, op, minted, taks, unsaved, reading, forgetting,
                 leavings, faults>>

\* The leaves of accounts that are not on the list; never the own identity's.
Strays(d, tree) == {l \in tree : OwnerOf(l) \notin roster[d] /\ l[1] # d}

\* reconcileMembership, first try and retry: catch up, re-read the tree, and
\* build one Remove Commit for all the strays, or stop when there are none.
Reconcile(d, leaf, hist) ==
  LET to == CaughtUp(leaf, hist)
      strays == Strays(d, Tree(to))
      remove == [by |-> leaf, tree |-> Tree(to) \ strays]
  IN
  /\ Connected(d)
  /\ to = log
  /\ sess' = [sess EXCEPT ![d] = IF @ = None THEN None
                                 ELSE [leaf |-> leaf, hist |-> to]]
  /\ \E lost \in SUBSET Announced(hist, to) :
       Listened(d, hist, to, lost) /\ StoreFails(lost # {})
  /\ op' = [op EXCEPT ![d] =
       IF strays = {} THEN NoOp ELSE Begun(d, "remove", leaf, to, Append(to, remove))]
  /\ UNCHANGED <<log, members, saved, minted, roster, reading, forgetting, leavings>>

StartReconcile(d) ==
  /\ Idle(d) /\ sess[d] # None
  /\ Strays(d, Tree(log)) # {}
  /\ Reconcile(d, sess[d].leaf, sess[d].hist)

RetryReconcile(d) ==
  /\ op[d].kind = "remove" /\ op[d].answer = "conflict"
  /\ Reconcile(d, op[d].leaf, op[d].hist)

-----------------------------------------------------------------------------
\* POST /mls/commit or /mls/group-info, as the Delivery Service answers it: it
\* compares epochs, and knows nothing of the history a Commit was built on.
Post(d) ==
  LET built == op[d].built IN
  /\ built # <<>> /\ op[d].answer = "none"
  /\ Connected(d)
  /\ IF Len(built) = Len(log) + 1
       THEN /\ log' = Append(log, built[Len(built)])
            /\ op' = [op EXCEPT ![d].answer = "ok"]
       ELSE /\ op' = [op EXCEPT ![d].answer = "conflict"]
            /\ UNCHANGED log
  /\ UNCHANGED <<members, sess, saved, minted, roster, taks, unsaved, reading, forgetting, leavings,
                 faults>>

\* Mutant of Adopt: the built state is kept whatever the server answered.
AdoptAnyway(d) ==
  LET state == [leaf |-> op[d].leaf, hist |-> op[d].built] IN
  /\ op[d].answer \in {"ok", "conflict"}
  /\ sess' = [sess EXCEPT ![d] = IF op[d].dropped THEN @ ELSE state]
  /\ Persist(d, state, FALSE)
  /\ op' = [op EXCEPT ![d] = NoOp]
  /\ UNCHANGED <<log, members, minted, roster, taks, unsaved, reading, forgetting, leavings>>

\* res.ok: the new state replaces the old one and is saved.  The listener is
\* not called.
Adopt(d) ==
  LET state == [leaf |-> op[d].leaf, hist |-> op[d].built] IN
  /\ op[d].answer = "ok"
  /\ sess' = [sess EXCEPT ![d] = IF op[d].dropped THEN @ ELSE state]
  /\ Persist(d, state, FALSE)
  /\ op' = [op EXCEPT ![d] = NoOp]
  /\ UNCHANGED <<log, members, minted, roster, taks, unsaved, reading, forgetting, leavings>>

\* bootstrap's loop: after a conflict, read the GroupInfo again.
RetryBoot(d) ==
  /\ op[d].kind = "boot" /\ op[d].answer = "conflict"
  /\ op' = [op EXCEPT ![d] = Begun(d, "boot", op[d].leaf, <<>>, <<>>)]
  /\ UNCHANGED <<log, members, sess, saved, minted, roster, taks, unsaved, reading, forgetting,
                 leavings, faults>>

\* The transport throws for a device whose account is no member any more.
Refused(d) ==
  /\ ~Idle(d) /\ op[d].answer # "ok" /\ ~Connected(d)
  /\ op' = [op EXCEPT ![d] = NoOp]
  /\ UNCHANGED <<log, members, sess, saved, minted, roster, taks, unsaved, reading, forgetting,
                 leavings, faults>>

\* The answer is lost, or is a 500: postCommit throws for a Commit that stands.
LoseAnswer(d) ==
  /\ op[d].answer = "ok"
  /\ faults < MaxFaults
  /\ faults' = faults + 1
  /\ op' = [op EXCEPT ![d] = NoOp]
  /\ UNCHANGED <<log, members, sess, saved, minted, roster, taks, unsaved, reading, forgetting,
                 leavings>>

\* The process is killed: what was only in memory is gone.
Restart(d) ==
  /\ faults < MaxFaults
  /\ sess[d] # None \/ ~Idle(d)
  /\ faults' = faults + 1
  /\ sess' = [sess EXCEPT ![d] = None]
  /\ op' = [op EXCEPT ![d] = NoOp]
  /\ forgetting' = forgetting \ {d}
  /\ reading' = [reading EXCEPT ![d] = None]
  /\ UNCHANGED <<log, members, saved, minted, roster, taks, unsaved, leavings>>

-----------------------------------------------------------------------------
\* A kick or an account deletion: a membership row goes, no device is told.
Kick(a) ==
  /\ a \in members /\ leavings < MaxLeaving
  /\ members' = members \ {a}
  /\ leavings' = leavings + 1
  /\ UNCHANGED <<log, sess, saved, op, minted, roster, taks, unsaved, reading, forgetting, faults>>

\* POST /leave from device d; forgetTopic follows on that device.
LeaveTopic(d) ==
  /\ Connected(d) /\ leavings < MaxLeaving
  /\ members' = members \ {Owner[d]}
  /\ leavings' = leavings + 1
  /\ forgetting' = forgetting \cup {d}
  /\ UNCHANGED <<log, sess, saved, op, minted, roster, taks, unsaved, reading, faults>>

\* forgetTopic: without the lock, so an operation may be in flight.
ForgetTopic(d) ==
  /\ d \in forgetting
  /\ forgetting' = forgetting \ {d}
  /\ sess' = [sess EXCEPT ![d] = None]
  /\ saved' = [saved EXCEPT ![d] = None]
  /\ op' = [op EXCEPT ![d].dropped = ~Idle(d)]
  /\ UNCHANGED <<log, members, minted, roster, taks, unsaved, reading, leavings, faults>>

\* The account joins the topic again.
JoinTopic(a) ==
  /\ a \notin members
  /\ members' = members \cup {a}
  /\ UNCHANGED <<log, sess, saved, op, minted, roster, taks, unsaved, reading, forgetting, leavings,
                 faults>>

-----------------------------------------------------------------------------
Answered(d) == Adopt(d) \/ RetryBoot(d) \/ RetryReconcile(d) \/ Refused(d)
Opens(d)    == Restore(d) \/ MintLeaf(d)

MSNext ==
  \/ \E d \in Device :
       \/ Opens(d) \/ BuildJoin(d) \/ CatchUp(d) \/ FetchRoster(d)
       \/ ReadEpoch(d) \/ DeriveKey(d)
       \/ StartReconcile(d) \/ Post(d) \/ Answered(d) \/ LoseAnswer(d)
       \/ Restart(d) \/ LeaveTopic(d) \/ ForgetTopic(d)
  \/ \E a \in Account : Kick(a) \/ JoinTopic(a)

MSSpec == MSInit /\ [][MSNext]_msVars

\* Every member keeps opening the room: it fetches the list, catches up and
\* reconciles, and an operation that has begun runs to its end.
MSFairSpec ==
  /\ MSSpec
  /\ \A d \in Device :
       /\ WF_msVars(Opens(d)) /\ WF_msVars(BuildJoin(d)) /\ SF_msVars(Post(d))
       /\ WF_msVars(Answered(d)) /\ SF_msVars(CatchUp(d))
       /\ WF_msVars(FetchRoster(d)) /\ SF_msVars(StartReconcile(d))

-----------------------------------------------------------------------------
States(d) == {s \in {sess[d], saved[d]} : s # None}

\* Type correctness of the sessions, the saved copies and the operations.
TypeOK ==
  /\ \A k \in DOMAIN log : log[k] \in Commit
  /\ members \subseteq Account
  /\ \A d \in Device :
       /\ States(d) \subseteq State
       /\ \A s \in States(d) : s.leaf \in {d} \X (1..minted[d]) /\ s.hist # <<>>
       /\ op[d].kind \in {"none", "boot", "remove"}
       /\ op[d].answer \in {"none", "ok", "conflict"}
       /\ minted[d] \in 0..MaxLeaves
       /\ roster[d] \subseteq Account

\* No device, in memory or on disk, stands on a branch the server refused: every
\* state was derived from the accepted Commits, in order.  Two members that
\* are at the same epoch can therefore read each other.
StatesOnChain ==
  \A d \in Device : \A s \in States(d) : IsPrefixOf(s.hist, log)

\* Every accepted Commit was made by a leaf of the tree it leaves behind, and
\* only a joining leaf was not in the tree before: no evicted device's Commit
\* is accepted, and no client evicts itself.
AuthorsBelong ==
  \A k \in DOMAIN log :
    /\ log[k].by \in log[k].tree
    /\ k > 1 /\ log[k].by \notin log[k-1].tree =>
         log[k].tree = log[k-1].tree \cup {log[k].by}

\* The epochs a session's leaf has lived through and left.
Left(d) == {e \in 0..EpochOf(sess[d].hist)-1 : sess[d].leaf \in log[e+1].tree}

\* A device that was away keeps the archive key of every epoch a Commit of
\* someone else took it out of, through restarts, evictions and failed saves of
\* its state.  announceEpoch never throws into chat, so the one key that can be
\* missing is a key whose own last save the store refused: a failure is not
\* spread to the other epochs of a catch-up, and a key that is announced
\* again (an epoch first reached, then left) is saved after all.
EpochsLeftAreKept ==
  \A d \in Device : sess[d] # None =>
    \A e \in Left(d) : log[e+2].by # sess[d].leaf => e \in DOMAIN taks[d] \cup unsaved[d]

\* An evicted device never gets the key of a later epoch: a stored key is for,
\* and comes from, epochs in which a leaf of that device was in the tree.
NoKeyAfterEviction ==
  \A d \in Device : \A e \in DOMAIN taks[d] :
    \A n \in {e, taks[d][e]} : \E l \in log[n+1].tree : l[1] = d

\* A device that can repair the group: it is a member's and still in the tree.
InGroup(d) == /\ Connected(d) /\ sess[d] # None
              /\ log # <<>> /\ sess[d].leaf \in Tree(log)

\* Once an account is out for good and some device stays in the group, the
\* account's leaves leave the tree, whatever Commits and conflicts come first.
KickedIsEvicted ==
  \A a \in Account :
    <>[](a \notin members /\ \E d \in Device : InGroup(d)) =>
      <>[](log = <<>> \/ \A l \in Tree(log) : OwnerOf(l) # a)

\* takSession: "TAKE THE KEY FOR EVERY EPOCH THIS DEVICE PASSES THROUGH".
EveryEpochIsKept ==
  \A d \in Device : sess[d] # None => Left(d) \subseteq DOMAIN taks[d]

\* takSession: "The key in hand was derived from the group's own secret and is
\* therefore right": what is stored for an epoch is that epoch's key.
KeysAreTheirEpochs ==
  \A d \in Device : \A e \in DOMAIN taks[d] : taks[d][e] = e

\* reconcileMembership: evicts leaves "whose account is no longer a member".
NoMemberIsEvicted ==
  [][log # <<>> /\ log' # log =>
       \A l \in Tree(log) \ Tree(log') : OwnerOf(l) \notin members]_msVars

\* forgetTopic: "stop holding the keys".  The operation that was in flight when
\* it ran does not write the room's state back while the account is out.
LeaverForgets ==
  [][\A d \in Device :
       op[d].dropped /\ ~Connected(d) => saved'[d] = saved[d]]_msVars

\* chatClient.joinTopic: sync forces a join, so an account that is a member from
\* some time on gets its device into the group.
RejoinerGetsIn ==
  \A d \in Device :
    <>[](Connected(d)) =>
      <>[](log # <<>> /\ \E l \in Tree(log) : l[1] = d)
=============================================================================
