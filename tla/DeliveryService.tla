-------------------------- MODULE DeliveryService --------------------------
(***************************************************************************)
(* The MLS Delivery Service of one topic: the row of mls_groups, the log   *)
(* mls_commits, and the transaction applyCommitCas that advances them      *)
(* (src/src/lib/mls/commits.ts), as POST /mls/commit and POST              *)
(* /mls/group-info drive it.                                               *)
(*                                                                         *)
(* A Request is one POST /mls/commit handler.  Its transaction is several  *)
(* steps long: SELECT ... FOR UPDATE either takes the row's lock or finds  *)
(* no row (and then locks nothing), and the write comes later.  Any number *)
(* of handlers run at once, a transaction may be rolled back, and the      *)
(* Redis publish that follows the transaction may fail.                    *)
(*                                                                         *)
(* The primary key (topic_id, epoch) of mls_commits is left out on         *)
(* purpose: the schema calls it a backstop, so the compare-and-set has to  *)
(* keep the log right without it.                                          *)
(***************************************************************************)
EXTENDS Naturals

CONSTANTS
  Request,      \* the concurrent POST /mls/commit handlers
  Locker,       \* every handler that may lock the mls_groups row
  GroupId,      \* MLS group ids a Commit's framing may carry
  NoGroup,      \* there is no mls_groups row
  NoInfo,       \* group_info is NULL
  Free,         \* nobody holds the row lock
  MaxEpoch      \* bound: no Commit asserts an epoch of MaxEpoch or above

ASSUME EpochBound == MaxEpoch \in Nat \ {0}
ASSUME NullsAreDistinct ==
  /\ Request \subseteq Locker
  /\ Free \notin Locker
  /\ NoInfo \notin Nat
  /\ NoGroup \notin [id : GroupId, epoch : Nat, info : Nat \cup {NoInfo}]

VARIABLES
  group,        \* the mls_groups row, or NoGroup
  commits,      \* mls_commits, by its key: epoch -> the stored Commit
  rowLock,      \* who holds FOR UPDATE on the mls_groups row
  tx,           \* each handler's transaction
  published     \* epochs fanned out on the Redis channel

dsVars == <<group, commits, rowLock, tx, published>>

Epochs == 0..MaxEpoch
Row    == [id : GroupId, epoch : Epochs, info : Epochs \cup {NoInfo}]
Commit == [by : Request, on : Epochs, info : BOOLEAN]
Phase  == {"idle", "absent", "locked", "accepted"}
Answer == {"none", "ok", "fork", "group-mismatch", "bad-genesis", "error"}
Tx     == [phase : Phase, asserted : Epochs, id : GroupId \cup {NoGroup},
           info : BOOLEAN, answer : Answer]

Epoch == IF group = NoGroup THEN 0 ELSE group.epoch

\* INSERT INTO mls_commits of request r's Commit as the one for epoch e.
Logged(r, e) ==
  [n \in DOMAIN commits \cup {e} |->
     IF n = e THEN [by |-> r, on |-> tx[r].asserted, info |-> tx[r].info]
              ELSE commits[n]]

\* Mutant of NextInfo: COALESCE with its arguments swapped.
StoredInfoWins(r, e, old) ==
  IF old # NoInfo THEN old ELSE IF tx[r].info THEN e ELSE NoInfo

\* COALESCE(new group_info, stored group_info)
NextInfo(r, e, old) == IF tx[r].info THEN e ELSE old

\* A handler with no transaction, and what it last answered.
Idle(answer) == [phase |-> "idle", asserted |-> 0, id |-> NoGroup,
                 info |-> FALSE, answer |-> answer]

Finish(r, answer) == tx' = [tx EXCEPT ![r] = Idle(answer)]

-----------------------------------------------------------------------------
DSInit ==
  /\ group = NoGroup
  /\ commits = [e \in 1..0 |-> {}]
  /\ rowLock = Free
  /\ tx = [r \in Request |-> Idle("none")]
  /\ published = {}

\* POST /mls/group-info: INSERT ... ON CONFLICT DO NOTHING, at epoch 0.
RegisterGenesis(g) ==
  /\ group = NoGroup
  /\ group' = [id |-> g, epoch |-> 0, info |-> 0]
  /\ UNCHANGED <<commits, rowLock, tx, published>>

\* SELECT ... FOR UPDATE of a Commit that asserts epoch e in group g.
Begin(r, e, g, withInfo, phase) ==
  /\ tx[r].phase = "idle"
  /\ tx' = [tx EXCEPT ![r] = [phase |-> phase, asserted |-> e, id |-> g,
                              info |-> withInfo, answer |-> "none"]]
  /\ UNCHANGED <<group, commits, published>>

SelectLocksRow(r, e, g, withInfo) ==
  /\ group # NoGroup
  /\ rowLock = Free
  /\ rowLock' = r
  /\ Begin(r, e, g, withInfo, "locked")

SelectFindsNoRow(r, e, g, withInfo) ==
  /\ group = NoGroup
  /\ Begin(r, e, g, withInfo, "absent")
  /\ UNCHANGED rowLock

\* No row was found and the Commit is not a first one.
BadGenesis(r) ==
  /\ tx[r].phase = "absent"
  /\ tx[r].asserted # 0
  /\ Finish(r, "bad-genesis")
  /\ UNCHANGED <<group, commits, rowLock, published>>

\* INSERT ... ON CONFLICT DO NOTHING creates the row and logs epoch 1.
InsertGroup(r) ==
  /\ tx[r].phase = "absent"
  /\ tx[r].asserted = 0
  /\ group = NoGroup
  /\ group' = [id |-> tx[r].id, epoch |-> 1, info |-> NextInfo(r, 1, NoInfo)]
  /\ commits' = Logged(r, 1)
  /\ tx' = [tx EXCEPT ![r].phase = "accepted"]
  /\ UNCHANGED <<rowLock, published>>

\* The same INSERT hits a row another writer created since the SELECT.
LoseGenesis(r) ==
  /\ tx[r].phase = "absent"
  /\ tx[r].asserted = 0
  /\ group # NoGroup
  /\ Finish(r, "fork")
  /\ UNCHANGED <<group, commits, rowLock, published>>

\* Under the lock: the group id differs, or another Commit won this epoch.
Reject(r) ==
  /\ tx[r].phase = "locked"
  /\ \/ group.id # tx[r].id /\ Finish(r, "group-mismatch")
     \/ /\ group.id = tx[r].id
        /\ group.epoch # tx[r].asserted
        /\ Finish(r, "fork")
  /\ rowLock' = Free
  /\ UNCHANGED <<group, commits, published>>

\* Mutants of Advance: no comparison with current_epoch, the Commit being filed
\* under the epoch it asserts or under the next free one.
AdvanceUnchecked(r) ==
  LET e == tx[r].asserted + 1 IN
  /\ tx[r].phase = "locked"
  /\ group.id = tx[r].id
  /\ group' = [group EXCEPT !.epoch = e, !.info = NextInfo(r, e, group.info)]
  /\ commits' = Logged(r, e)
  /\ tx' = [tx EXCEPT ![r].phase = "accepted"]
  /\ rowLock' = Free
  /\ UNCHANGED published

AdvanceNextFree(r) ==
  LET e == group.epoch + 1 IN
  /\ tx[r].phase = "locked"
  /\ group.epoch < MaxEpoch
  /\ group' = [group EXCEPT !.epoch = e, !.info = NextInfo(r, e, group.info)]
  /\ commits' = Logged(r, e)
  /\ tx' = [tx EXCEPT ![r].phase = "accepted"]
  /\ rowLock' = Free
  /\ UNCHANGED published

\* The compare-and-set wins: UPDATE the row and INSERT the log entry.
Advance(r) ==
  LET e == tx[r].asserted + 1 IN
  /\ tx[r].phase = "locked"
  /\ group.id = tx[r].id
  /\ group.epoch = tx[r].asserted
  /\ group' = [group EXCEPT !.epoch = e, !.info = NextInfo(r, e, group.info)]
  /\ commits' = Logged(r, e)
  /\ tx' = [tx EXCEPT ![r].phase = "accepted"]
  /\ rowLock' = Free
  /\ UNCHANGED published

\* The transaction dies before it commits (process killed, database error).
Rollback(r) ==
  /\ tx[r].phase \in {"absent", "locked"}
  /\ Finish(r, "error")
  /\ rowLock' = IF rowLock = r THEN Free ELSE rowLock
  /\ UNCHANGED <<group, commits, published>>

\* redis.publish, after the transaction; when it throws the handler answers
\* 500 for a Commit that stands.
Publish(r) ==
  /\ tx[r].phase = "accepted"
  /\ \/ Finish(r, "ok") /\ published' = published \cup {tx[r].asserted + 1}
     \/ Finish(r, "error") /\ UNCHANGED published
  /\ UNCHANGED <<group, commits, rowLock>>

-----------------------------------------------------------------------------
HandlerStep(r) ==
  \/ BadGenesis(r) \/ InsertGroup(r) \/ LoseGenesis(r)
  \/ Reject(r) \/ Advance(r) \/ Rollback(r) \/ Publish(r)

DSNext ==
  \/ \E g \in GroupId : RegisterGenesis(g)
  \/ \E r \in Request, e \in 0..(MaxEpoch-1), g \in GroupId, i \in BOOLEAN :
        SelectLocksRow(r, e, g, i) \/ SelectFindsNoRow(r, e, g, i)
  \/ \E r \in Request : HandlerStep(r)

DSSpec == DSInit /\ [][DSNext]_dsVars

-----------------------------------------------------------------------------
\* Mutant of CommitsSince: "epoch >= since".
CommitsFrom(since) == {e \in DOMAIN commits : e >= since}

\* getCommitsSince: the rows a catch-up from epoch `since` returns.
CommitsSince(since) == {e \in DOMAIN commits : e > since}

\* Type correctness of the row, the log and the transactions.
TypeOK ==
  /\ group \in Row \cup {NoGroup}
  /\ DOMAIN commits \subseteq 1..MaxEpoch
  /\ \A e \in DOMAIN commits : commits[e] \in Commit
  /\ rowLock \in Locker \cup {Free}
  /\ tx \in [Request -> Tx]
  /\ published \subseteq 1..MaxEpoch

\* A device that was away at any epoch catches up without a gap: the log holds
\* every epoch after the one it stands in, up to the current one, and no other
\* (getCommitsSince; the row and the log advance in one transaction).
CatchUpHasNoGap == \A since \in 0..Epoch : CommitsSince(since) = since+1..Epoch

\* SI-2: the logged Commits form a chain.  The Commit that produced epoch e was
\* built on epoch e-1, so replaying the log never meets a Commit made for
\* another branch (applyCommitCas, the comparison with current_epoch).
LogIsAChain == \A e \in DOMAIN commits : commits[e].on = e - 1

\* A handler about to answer "accepted" still finds its own Commit in the log:
\* no concurrent handler has taken or overwritten its epoch since.
AcceptedStaysLogged ==
  \A r \in Request :
    tx[r].phase = "accepted" =>
      /\ tx[r].asserted + 1 \in DOMAIN commits
      /\ commits[tx[r].asserted + 1].by = r
      /\ commits[tx[r].asserted + 1].on = tx[r].asserted

\* The GroupInfo a joiner is served is the newest one published: no Commit
\* after it carried one (COALESCE in the UPDATE).
InfoIsNewest ==
  group # NoGroup =>
    \A e \in DOMAIN commits :
       commits[e].info => /\ group.info # NoInfo
                          /\ group.info >= e

\* G7: the fan-out only ever announces epochs that are committed.
PublishedIsCommitted == published \subseteq DOMAIN commits

\* A logged Commit is never rewritten, and the epoch never goes back: what one
\* device replayed yesterday is what another replays today.
HistoryIsFrozen ==
  [][/\ Epoch' >= Epoch
     /\ \A e \in DOMAIN commits : e \in DOMAIN commits' /\ commits'[e] = commits[e]
    ]_dsVars

\* The service implements the single chain of CommitChain.
Chain == INSTANCE CommitChain
           WITH Author <- Request, height <- Epoch,
                chain <- [e \in DOMAIN commits |->
                            [by |-> commits[e].by, on |-> commits[e].on]]
ImplementsCommitChain == Chain!Spec
=============================================================================
