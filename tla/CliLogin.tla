------------------------------ MODULE CliLogin ------------------------------
(***************************************************************************)
(* One CLI login: its record in Redis, the cancelled flag, the lock that   *)
(* serialises polls, and the sessions it issues to the terminal and to the *)
(* browser.  From src/lib/cliLogin.ts.  Every call to Redis is a step, so  *)
(* that polls of both sides, retries and cancellations interleave between  *)
(* them; the lock may lapse under a slow poll and a save may fail.         *)
(***************************************************************************)
EXTENDS Integers, FiniteSets

CONSTANTS
  Poll,      \* calls of readCliLogin; a session is named by the poll that issued it
  Canceller, \* calls of readCliLogin with cancel
  NoPoll,
  MaxLockLapses, \* bound: locks that lapse (LOCK TTL 60 s) under their holder
  MaxFaults  \* bound: saves whose answer is an error

ASSUME NoPollIsNone == NoPoll \notin Poll

VARIABLES
  stored,   \* the stored RecordData
  gone,     \* the record has reached expiresAt
  flag,     \* the :cancelled key
  lock,     \* the :lock key, or None
  live,     \* sessions that are live
  call,     \* poll -> where it is, for whom, its copy of the record
  given,    \* poll -> the session it returned, or None
  cancel,   \* canceller -> where it is, its copy of the record
  lockLapses, faults

loginVars == <<stored, gone, flag, lock, live, call, given, cancel, lockLapses, faults>>

Role == {"cli", "browser"}
RecordData == [approved : BOOLEAN, identity : BOOLEAN, token : [Role -> Poll \cup {NoPoll}]]
Started == [approved |-> FALSE, identity |-> FALSE, token |-> [r \in Role |-> NoPoll]]

\* Where a poll is: the call it makes next.
Step == {"idle", "lock", "reload", "approve", "approving", "verify", "identify",
         "identifying", "ready", "create", "created", "save", "saving", "final",
         "release", "ended"}

LoginInit ==
  \* A terminal whose user has agreed to the proof starts the login approved.
  /\ stored \in {[Started EXCEPT !.approved = approved] : approved \in BOOLEAN}
  /\ gone = FALSE /\ flag = FALSE
  /\ lock = NoPoll
  /\ live = {}
  /\ call \in [Poll -> {[at |-> "idle", role |-> r, rec |-> Started] : r \in Role}]
  /\ given = [p \in Poll |-> NoPoll]
  /\ cancel = [c \in Canceller |-> [at |-> "idle", rec |-> Started]]
  /\ lockLapses = 0 /\ faults = 0

Go(p, step) == call' = [call EXCEPT ![p].at = step]
Load(p, step, rec) ==
  call' = [call EXCEPT ![p] = [at |-> step, role |-> call[p].role, rec |-> rec]]
Mine(p)   == call[p].rec.token[call[p].role]
Issued(p) == Mine(p) = p

\* assertCurrent.
Current(p) == ~flag /\ ~gone /\ lock = p

-----------------------------------------------------------------------------
\* The record is read, the flag looked at, the lock taken.
Begin(p) ==
  /\ call[p].at = "idle"
  /\ Load(p, IF gone \/ flag THEN "ended" ELSE "lock", stored)
  /\ UNCHANGED <<stored, gone, flag, lock, live, given, cancel, lockLapses, faults>>

\* SET NX; a poll that loses answers "pending".
TakeLock(p) ==
  /\ call[p].at = "lock"
  /\ \/ lock = NoPoll /\ lock' = p /\ Go(p, "reload")
     \/ lock # NoPoll /\ Go(p, "ended") /\ UNCHANGED lock
  /\ UNCHANGED <<stored, gone, flag, live, given, cancel, lockLapses, faults>>

\* Where a copy of the record takes a poll of role r.
NextStep(r, rec) ==
  CASE r = "browser" /\ ~rec.approved -> "approve"
    [] r = "cli" /\ ~rec.approved -> "release"
    [] rec.approved /\ ~rec.identity -> "verify"
    [] OTHER -> "ready"

\* Object.assign: what the record read again has replaces the fields of the copy.
Merged(copy, fresh) ==
  [approved |-> fresh.approved,
   identity |-> copy.identity \/ fresh.identity,
   token    |-> [r \in Role |-> IF fresh.token[r] = NoPoll THEN copy.token[r] ELSE fresh.token[r]]]

\* The record is read again under the lock.
Reload(p) ==
  LET rec == Merged(call[p].rec, stored) IN
  /\ call[p].at = "reload"
  /\ Load(p, IF gone THEN "release" ELSE NextStep(call[p].role, rec), rec)
  /\ UNCHANGED <<stored, gone, flag, lock, live, given, cancel, lockLapses, faults>>

\* The relay's answer to the proof request: there, or not yet, or refused.
Verify(p) ==
  /\ call[p].at = "verify"
  /\ Go(p, "identify") \/ Go(p, "release")
  /\ UNCHANGED <<stored, gone, flag, lock, live, given, cancel, lockLapses, faults>>

\* assertCurrent holds, and the call goes on.
Pass(p, step, next) ==
  /\ call[p].at = step /\ Current(p)
  /\ Go(p, next)
  /\ UNCHANGED <<stored, gone, flag, lock, live, given, cancel, lockLapses, faults>>

\* Mutant of Throw: a session issued by another call is revoked as well.
ThrowRevokes(p, step) ==
  /\ call[p].at = step /\ ~Current(p)
  /\ Go(p, "release")
  /\ live' = live \ {Mine(p)}
  /\ UNCHANGED <<stored, gone, flag, lock, given, cancel, lockLapses, faults>>

\* It does not hold: the call throws, and revokes a session it has issued.
Throw(p, step) ==
  /\ call[p].at = step /\ ~Current(p)
  /\ Go(p, "release")
  /\ live' = IF Issued(p) THEN live \ {p} ELSE live
  /\ UNCHANGED <<stored, gone, flag, lock, given, cancel, lockLapses, faults>>

Check(p, step, next) == Pass(p, step, next) \/ Throw(p, step)

\* Consent, then identity, are saved.
Write(p, step, rec) ==
  /\ call[p].at = step
  /\ stored' = rec
  /\ Load(p, NextStep(call[p].role, rec), rec)
  /\ UNCHANGED <<gone, flag, lock, live, given, cancel, lockLapses, faults>>

Approve(p)  == Write(p, "approving", [call[p].rec EXCEPT !.approved = TRUE])
Identify(p) == Write(p, "identifying", [call[p].rec EXCEPT !.identity = TRUE])

\* A session is issued if the record has none for this role.
Ready(p) == Check(p, "ready", IF Mine(p) = NoPoll THEN "create" ELSE "final")

Create(p) ==
  /\ call[p].at = "create"
  /\ live' = live \cup {p}
  /\ Load(p, "created", [call[p].rec EXCEPT !.token[call[p].role] = p])
  /\ UNCHANGED <<stored, gone, flag, lock, given, cancel, lockLapses, faults>>

\* Mutant of Created: the session just issued is not revoked.
CreatedKeeps(p) ==
  /\ call[p].at = "created"
  /\ IF Current(p) THEN Go(p, "save") ELSE Go(p, "release")
  /\ UNCHANGED <<stored, gone, flag, lock, live, given, cancel, lockLapses, faults>>

Created(p) == Check(p, "created", "save")

Save(p) == Check(p, "save", "saving")

\* The record with the token is written, whole; an error may hide a write.
Saving(p) ==
  /\ call[p].at = "saving"
  /\ \/ stored' = call[p].rec /\ Go(p, "final") /\ UNCHANGED <<live, faults>>
     \/ /\ faults < MaxFaults /\ faults' = faults + 1
        /\ stored' \in {stored, call[p].rec}
        /\ live' = live \ {p}
        /\ Go(p, "release")
  /\ UNCHANGED <<gone, flag, lock, given, cancel, lockLapses>>

\* The last assertCurrent holds, and the session is returned.
Answer(p) ==
  /\ call[p].at = "final" /\ Current(p)
  /\ Go(p, "release")
  /\ given' = [given EXCEPT ![p] = Mine(p)]
  /\ UNCHANGED <<stored, gone, flag, lock, live, cancel, lockLapses, faults>>

\* Only a lock that is still the poll's own is deleted.
Release(p) ==
  /\ call[p].at = "release"
  /\ Go(p, "ended")
  /\ lock' = IF lock = p THEN NoPoll ELSE lock
  /\ UNCHANGED <<stored, gone, flag, live, given, cancel, lockLapses, faults>>

-----------------------------------------------------------------------------
\* Cancel: the record is read, the flag set, the sessions of the copy revoked.
CancelReads(c) ==
  /\ cancel[c].at = "idle" /\ ~gone
  /\ cancel' = [cancel EXCEPT ![c] = [at |-> "flag", rec |-> stored]]
  /\ UNCHANGED <<stored, gone, flag, lock, live, call, given, lockLapses, faults>>

CancelFlags(c) ==
  /\ cancel[c].at = "flag"
  /\ flag' = TRUE
  /\ cancel' = [cancel EXCEPT ![c].at = "revoke"]
  /\ UNCHANGED <<stored, gone, lock, live, call, given, lockLapses, faults>>

CancelRevokes(c) ==
  /\ cancel[c].at = "revoke"
  /\ live' = live \ {cancel[c].rec.token[r] : r \in Role}
  /\ cancel' = [cancel EXCEPT ![c].at = "done"]
  /\ UNCHANGED <<stored, gone, flag, lock, call, given, lockLapses, faults>>

\* The sixty seconds of the lock pass.
LockLapses ==
  /\ lock # NoPoll /\ lockLapses < MaxLockLapses
  /\ lockLapses' = lockLapses + 1
  /\ lock' = NoPoll
  /\ UNCHANGED <<stored, gone, flag, live, call, given, cancel, faults>>

\* The ten minutes of the login pass.
Expire ==
  /\ ~gone
  /\ gone' = TRUE
  /\ UNCHANGED <<stored, flag, lock, live, call, given, cancel, lockLapses, faults>>

LoginNext ==
  \/ \E p \in Poll :
       \/ Begin(p) \/ TakeLock(p) \/ Reload(p) \/ Verify(p) \/ Ready(p)
       \/ Check(p, "approve", "approving") \/ Approve(p)
       \/ Check(p, "identify", "identifying") \/ Identify(p)
       \/ Create(p) \/ Created(p) \/ Save(p) \/ Saving(p) \/ Answer(p) \/ Throw(p, "final")
       \/ Release(p)
  \/ \E c \in Canceller : CancelReads(c) \/ CancelFlags(c) \/ CancelRevokes(c)
  \/ LockLapses \/ Expire

LoginSpec == LoginInit /\ [][LoginNext]_loginVars

-----------------------------------------------------------------------------
\* Type correctness.
LoginTypeOK ==
  /\ stored \in RecordData
  /\ gone \in BOOLEAN /\ flag \in BOOLEAN
  /\ lock \in Poll \cup {NoPoll}
  /\ live \subseteq Poll
  /\ call \in [Poll -> [at : Step, role : Role, rec : RecordData]]
  /\ given \in [Poll -> Poll \cup {NoPoll}]
  /\ cancel \in [Canceller -> [at : {"idle", "flag", "revoke", "done"}, rec : RecordData]]

PollsEnded == \A p \in Poll : call[p].at \in {"idle", "ended"}
Cancelled == \E c \in Canceller : cancel[c].at = "done"

\* A session nobody was given does not stay live: whatever cancellation, expiry,
\* lapse of the lock or failing save cut a poll short, it takes its session back.
NoOrphanSession == PollsEnded => \A s \in live : \E p \in Poll : given[p] = s

\* At most one session of each role is left when the polls are done.
OnePerRole == PollsEnded => \A s, t \in live : call[s].role = call[t].role => s = t

\* What a poll was given works, and goes on working, until the login is cancelled.
GivenIsLive == \A p \in Poll : given[p] # NoPoll /\ ~flag => given[p] \in live

\* As long as no save fails and the lock holds, a role has one session, and every
\* poll of it, however late it looked at the record, is given that one and can use it.
AnswerIsLive == lockLapses = 0 /\ faults = 0 => GivenIsLive /\ OnePerRole

\* cliLogin.test: "authenticated cancellation prevents either role from completing
\* later": a login that was cancelled leaves no session behind.
CancelledLeavesNothing == Cancelled /\ PollsEnded => live = {}

\* cliLogin.test: "an expired Redis lock cannot let the old verifier mint a
\* duplicate session".
NoDuplicateSession == OnePerRole

\* cliLogin.test: it "completes separate role sessions once and retries return only
\* their own session", also after the lock of a slow poll has lapsed.
RetryIsLive == GivenIsLive
=============================================================================
