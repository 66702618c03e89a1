--------------------------- MODULE ArchiveHolder ---------------------------
(***************************************************************************)
(* The archive-holder lease of a public topic: claimOrRenewHolder,         *)
(* releaseHolder and updateHolderCoverage of src/src/lib/mls/archive.ts,   *)
(* and the root fingerprint a claimer must name first                      *)
(* (src/src/app/api/topics/[topicId]/tak/holder/route.ts).                 *)
(*                                                                         *)
(* A claim is a transaction of several statements, and PostgreSQL's now()  *)
(* is the time its transaction began, so the lease a claimer compares and  *)
(* writes may be computed from a clock that is already old.  A coverage    *)
(* update locks the mls_groups row that applyCommitCas locks: this module  *)
(* runs over DeliveryService and its Commits.                              *)
(***************************************************************************)
EXTENDS DeliveryService

CONSTANTS
  Device,       \* <<user, device>> pairs, the identity a lease is held under
  Root,         \* fingerprints of archive roots
  Handler,      \* concurrent requests to /tak/holder
  None,         \* a NULL fingerprint, and no archive_holders row
  Nobody,       \* no device
  MaxLease,     \* LEASE_MAX_SECONDS
  MaxTime       \* bound: the clock stops here

ASSUME LeaseBounds == MaxLease \in Nat \ {0} /\ MaxTime \in Nat
ASSUME HandlersLock == Handler \subseteq Locker /\ Handler \cap Request = {}
ASSUME HolderNulls ==
  /\ Nobody \notin Device
  /\ None \notin Root \cup [dev : Device, covered : Nat, lease : Nat, root : Root]

VARIABLES
  fingerprint,  \* topics.archive_root_fingerprint
  holder,       \* the archive_holders row, or None
  holderLock,   \* who holds FOR UPDATE on that row
  req,          \* each handler's request
  clock

ahOnly == <<fingerprint, holder, holderLock, req, clock>>
ahVars == <<dsVars, ahOnly>>

Time   == 0..MaxTime
\* The row; "root" is a history field, the fingerprint its claimer named.
HolderRow == [dev : Device, covered : Epochs, lease : 0..MaxTime+MaxLease,
              root : Root]
HPhase == {"idle", "proved", "begun", "absent", "locked", "fenced"}
Req    == [phase : HPhase, dev : Device \cup {Nobody}, root : Root \cup {None},
           start : Time, epoch : Epochs, current : Epochs]

NoReq == [phase |-> "idle", dev |-> Nobody, root |-> None, start |-> 0,
          epoch |-> 0, current |-> 0]

\* The request ends; its transaction commits or rolls back, its locks go.
End(h) == req' = [req EXCEPT ![h] = NoReq]
Unlock(h) == holderLock' = IF holderLock = h THEN Free ELSE holderLock

\* The lease as request h computes it: now() is its transaction's start.
LeaseValid(h) == holder.lease > req[h].start

\* WHERE holder_user_id = ... AND holder_device_id = ...
Holds(d) == IF holder = None THEN FALSE ELSE holder.dev = d

AHInit ==
  /\ DSInit
  /\ fingerprint = None
  /\ holder = None
  /\ holderLock = Free
  /\ req = [h \in Handler |-> NoReq]
  /\ clock = 0

-----------------------------------------------------------------------------
\* Mutant of ClaimRoot: the fingerprint is written over any value.
ClaimRootBlindly(h, d, f) ==
  /\ req[h].phase = "idle"
  /\ fingerprint' = f
  /\ req' = [req EXCEPT ![h] = [NoReq EXCEPT !.phase = "proved", !.dev = d,
                                             !.root = f]]
  /\ UNCHANGED <<dsVars, holder, holderLock, clock>>

\* POST, first statement: compare-and-set of the fingerprint over NULL.  A
\* caller that names another root is answered 403.
ClaimRoot(h, d, f) ==
  /\ req[h].phase = "idle"
  /\ fingerprint \in {None, f}
  /\ fingerprint' = f
  /\ req' = [req EXCEPT ![h] = [NoReq EXCEPT !.phase = "proved", !.dev = d,
                                             !.root = f]]
  /\ UNCHANGED <<dsVars, holder, holderLock, clock>>

\* BEGIN: fixes now() for the whole transaction.
BeginClaim(h) ==
  /\ req[h].phase = "proved"
  /\ req' = [req EXCEPT ![h].phase = "begun", ![h].start = clock]
  /\ UNCHANGED <<dsVars, fingerprint, holder, holderLock, clock>>

\* SELECT ... FOR UPDATE: locks the row, or finds none and locks nothing.
ReadHolder(h) ==
  /\ req[h].phase = "begun"
  /\ \/ /\ holder = None
        /\ req' = [req EXCEPT ![h].phase = "absent"]
        /\ UNCHANGED holderLock
     \/ /\ holder # None /\ holderLock = Free
        /\ req' = [req EXCEPT ![h].phase = "locked"]
        /\ holderLock' = h
  /\ UNCHANGED <<dsVars, fingerprint, holder, clock>>

\* INSERT ... ON CONFLICT DO NOTHING of the genesis claim, and its conflict:
\* the loser falls through to read the winner's row.
InsertHolder(h, lease) ==
  /\ req[h].phase = "absent"
  /\ holder = None
  /\ holder' = [dev |-> req[h].dev, covered |-> 0,
                lease |-> req[h].start + lease, root |-> req[h].root]
  /\ End(h)
  /\ UNCHANGED <<dsVars, fingerprint, holderLock, clock>>

LoseHolderGenesis(h) ==
  /\ req[h].phase = "absent"
  /\ holder # None
  /\ holderLock = Free
  /\ holderLock' = h
  /\ req' = [req EXCEPT ![h].phase = "locked"]
  /\ UNCHANGED <<dsVars, fingerprint, holder, clock>>

\* Under the lock: someone else's lease is still valid.
HeldByOther(h) ==
  /\ req[h].phase = "locked"
  /\ LeaseValid(h)
  /\ holder.dev # req[h].dev
  /\ End(h) /\ Unlock(h)
  /\ UNCHANGED <<dsVars, fingerprint, holder, clock>>

\* Mutant of GrantLease: the loser of the genesis race takes the row.
GrantAnyway(h, lease) ==
  /\ req[h].phase = "locked"
  /\ holder' = [holder EXCEPT !.dev = req[h].dev, !.lease = req[h].start + lease,
                              !.root = req[h].root]
  /\ End(h) /\ Unlock(h)
  /\ UNCHANGED <<dsVars, fingerprint, clock>>

\* Mutant of GrantLease: the coverage follows the group, whose row is locked for it.
GrantAndCover(h, lease) ==
  /\ req[h].phase = "locked"
  /\ ~LeaseValid(h) \/ holder.dev = req[h].dev
  /\ rowLock = Free
  /\ holder' = [holder EXCEPT !.dev = req[h].dev, !.lease = req[h].start + lease,
                              !.root = req[h].root, !.covered = Epoch]
  /\ End(h) /\ Unlock(h)
  /\ UNCHANGED <<dsVars, fingerprint, clock>>

\* Under the lock: renew the own lease or take over an expired one.  The
\* coverage stays.
GrantLease(h, lease) ==
  /\ req[h].phase = "locked"
  /\ ~LeaseValid(h) \/ holder.dev = req[h].dev
  /\ holder' = [holder EXCEPT !.dev = req[h].dev, !.lease = req[h].start + lease,
                              !.root = req[h].root]
  /\ End(h) /\ Unlock(h)
  /\ UNCHANGED <<dsVars, fingerprint, clock>>

\* DELETE: one UPDATE that expires the caller's own lease.
Release(d) ==
  /\ Holds(d)
  /\ holderLock = Free
  /\ holder' = [holder EXCEPT !.lease = clock]
  /\ UNCHANGED <<dsVars, fingerprint, holderLock, req, clock>>

-----------------------------------------------------------------------------
\* Mutant of Fence: the SELECT without FOR UPDATE.
FenceUnlocked(h, d, e) ==
  /\ req[h].phase = "idle"
  /\ group # NoGroup
  /\ req' = [req EXCEPT ![h] = [NoReq EXCEPT !.phase = "fenced", !.dev = d,
                                             !.epoch = e, !.current = group.epoch]]
  /\ UNCHANGED <<dsVars, fingerprint, holder, holderLock, clock>>

\* PATCH: SELECT current_epoch ... FOR UPDATE on the mls_groups row.
Fence(h, d, e) ==
  /\ req[h].phase = "idle"
  /\ group # NoGroup
  /\ rowLock = Free
  /\ rowLock' = h
  /\ req' = [req EXCEPT ![h] = [NoReq EXCEPT !.phase = "fenced", !.dev = d,
                                             !.epoch = e, !.current = group.epoch]]
  /\ UNCHANGED <<group, commits, tx, published, fingerprint, holder,
                 holderLock, clock>>

\* Coverage is written: by the device the row names, up to the epoch read.
RecordCoverage(h) ==
  /\ req[h].phase = "fenced"
  /\ req[h].epoch <= req[h].current
  /\ Holds(req[h].dev)
  /\ holderLock = Free
  /\ holder' = [holder EXCEPT !.covered = req[h].epoch]
  /\ End(h)
  /\ rowLock' = Free
  /\ UNCHANGED <<group, commits, tx, published, fingerprint, holderLock, clock>>

\* future-epoch, or the UPDATE matches no row of this device (not-holder).
RefuseCoverage(h) ==
  /\ req[h].phase = "fenced"
  /\ \/ req[h].epoch > req[h].current
     \/ holderLock = Free /\ ~Holds(req[h].dev)
  /\ End(h)
  /\ rowLock' = Free
  /\ UNCHANGED <<group, commits, tx, published, fingerprint, holder,
                 holderLock, clock>>

\* A handler's transaction dies before it commits.
Abort(h) ==
  /\ req[h].phase # "idle"
  /\ End(h) /\ Unlock(h)
  /\ rowLock' = IF rowLock = h THEN Free ELSE rowLock
  /\ UNCHANGED <<group, commits, tx, published, fingerprint, holder, clock>>

\* Time passes.
Tick ==
  /\ clock < MaxTime
  /\ clock' = clock + 1
  /\ UNCHANGED <<dsVars, fingerprint, holder, holderLock, req>>

-----------------------------------------------------------------------------
RequestStep(h) ==
  \/ BeginClaim(h) \/ ReadHolder(h) \/ LoseHolderGenesis(h) \/ HeldByOther(h)
  \/ \E lease \in 1..MaxLease : InsertHolder(h, lease) \/ GrantLease(h, lease)
  \/ RecordCoverage(h) \/ RefuseCoverage(h) \/ Abort(h)

AHNext ==
  \/ DSNext /\ UNCHANGED ahOnly
  \/ \E h \in Handler, d \in Device :
        \/ \E f \in Root : ClaimRoot(h, d, f)
        \/ \E e \in Epochs : Fence(h, d, e)
  \/ \E d \in Device : Release(d)
  \/ \E h \in Handler : RequestStep(h)
  \/ Tick

AHSpec == AHInit /\ [][AHNext]_ahVars

-----------------------------------------------------------------------------
\* Type correctness of the lease row and of the requests.
AHTypeOK ==
  /\ TypeOK
  /\ fingerprint \in Root \cup {None}
  /\ holder \in HolderRow \cup {None}
  /\ holderLock \in Handler \cup {Free}
  /\ req \in [Handler -> Req]
  /\ clock \in Time

\* SI-6: the role changes hands only when the lease has run out, although each
\* claimer judges the lease by the moment its own transaction began.
RoleChangesAfterExpiry ==
  [][holder # None /\ holder'.dev # holder.dev => holder.lease <= clock]_ahVars

\* SI-7: the recorded coverage is an epoch the group really reached.
CoverageIsCommitted == holder # None => holder.covered <= Epoch

\* SI-7: whenever the coverage changes, it is the doing of the device that has the
\* role at that moment, whoever took it since the update began, and what the update
\* compared with is the epoch the group has at that moment: no Commit slips between.
CoverageIsFenced ==
  [][holder # None /\ holder'.covered # holder.covered =>
       /\ holder'.covered <= Epoch
       /\ \E h \in Handler : /\ req[h].phase = "fenced" /\ req'[h] = NoReq
                             /\ req[h].dev = holder.dev
                             /\ req[h].current = Epoch]_ahVars

\* Whoever holds the role named the topic's one root when it claimed it, even
\* when two devices with different roots race for the first claim.
HolderNamesTheRoot == holder # None => holder.root = fingerprint

\* Can a transaction that holds a row lock end, without failing?
CanEnd(p) ==
  IF p \in Request THEN ENABLED (Reject(p) \/ Advance(p))
  ELSE ENABLED (\/ HeldByOther(p) \/ RecordCoverage(p) \/ RefuseCoverage(p)
                \/ \E lease \in 1..MaxLease : GrantLease(p, lease))

\* Commits, claims and coverage updates never wait on each other in a circle:
\* while a row of mls_groups or archive_holders is locked, one of those who hold
\* the locks can end without a lock of the other.
NoCircularWait ==
  LET lockers == {rowLock, holderLock} \ {Free} IN
  lockers # {} => \E p \in lockers : CanEnd(p)
=============================================================================
