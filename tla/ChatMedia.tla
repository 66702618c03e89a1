----------------------------- MODULE ChatMedia -----------------------------
(***************************************************************************)
(* Encrypted chat attachments of one topic: the object in storage, its     *)
(* index row in chat_media, and the sweep that collects them.  From the    *)
(* route chat/media (upload, claim, read, delete) and src/lib/chatMedia-   *)
(* Sweep.ts.  Requests and sweeps are several calls each, to the database  *)
(* and to the object store, and interleave call by call; any call to the   *)
(* store may fail, and a process may stop between two calls.               *)
(***************************************************************************)
EXTENDS Integers, FiniteSets

CONSTANTS
  Key,        \* object keys, one per upload attempt
  Sweeper,    \* server instances, each with its own sweep
  None,       \* no row
  Retention,  \* chat_archive_retention_days, 0 for unlimited
  Grace,      \* CHAT_MEDIA_CLAIM_GRACE_MS
  MaxTime,    \* bound: clock
  MaxFaults   \* bound: failing calls and processes that stop

\* A window is a number of days, and the grace window is an hour.
ASSUME MediaWindows ==
  /\ Retention \in Nat /\ Grace \in Nat
  /\ Retention > 0 => Grace <= Retention

VARIABLES
  now,
  row,        \* key -> its chat_media row, or None
  object,     \* keys the store holds
  upload,     \* key -> where its upload is
  posted,     \* keys named by a message
  claiming,   \* keys with a claim on its way
  dropping,   \* keys a DELETE is removing, by what it has done
  sweep,      \* instance -> its sweep
  misjudged,  \* keys whose PUT failed for the server and stands in the store
  picked,     \* key -> when an unclaimed pass first selected it, or None
  faults

vars == <<now, row, object, upload, posted, claiming, dropping, sweep, misjudged,
          picked, faults>>

\* created_at and claimed_at.
Row   == [at : 0..MaxTime, claimed : 0..MaxTime \cup {None}]
ASSUME NoneIsNoRow == MaxTime \in Nat /\ None \notin Row /\ None \notin Nat
Phase == {"none", "storing", "stored", "failed", "ended"}
Idle  == [pass |-> "idle", keys |-> {}, gone |-> {}]

MediaInit ==
  /\ now = 0
  /\ row = [k \in Key |-> None]
  /\ object = {}
  /\ upload = [k \in Key |-> "none"]
  /\ posted = {} /\ claiming = {}
  /\ dropping = [k \in Key |-> "no"]
  /\ sweep = [s \in Sweeper |-> Idle]
  /\ misjudged = {}
  /\ picked = [k \in Key |-> None]
  /\ faults = 0

Fault == faults < MaxFaults /\ faults' = faults + 1

-----------------------------------------------------------------------------
\* POST: the index row first, then the object.
BeginUpload(k) ==
  /\ upload[k] = "none"
  /\ upload' = [upload EXCEPT ![k] = "storing"]
  /\ row' = [row EXCEPT ![k] = [at |-> now, claimed |-> None]]
  /\ UNCHANGED <<now, object, posted, claiming, dropping, sweep, misjudged, picked,
                 faults>>

Store(k) ==
  /\ upload[k] = "storing"
  /\ upload' = [upload EXCEPT ![k] = "stored"]
  /\ object' = object \cup {k}
  /\ UNCHANGED <<now, row, posted, claiming, dropping, sweep, misjudged, picked,
                 faults>>

\* putR2Object throws: the object may be there all the same.
StoreFails(k) ==
  /\ upload[k] = "storing" /\ Fault
  /\ upload' = [upload EXCEPT ![k] = "failed"]
  /\ \/ UNCHANGED <<object, misjudged>>
     \/ object' = object \cup {k} /\ misjudged' = misjudged \cup {k}
  /\ UNCHANGED <<now, row, posted, claiming, dropping, sweep, picked>>

\* The row of a failed upload is taken back, or that fails too.
RollBack(k) ==
  /\ upload[k] = "failed"
  /\ upload' = [upload EXCEPT ![k] = "ended"]
  /\ \/ row' = [row EXCEPT ![k] = None] /\ UNCHANGED faults
     \/ Fault /\ UNCHANGED row
  /\ UNCHANGED <<now, object, posted, claiming, dropping, sweep, misjudged, picked>>

\* The client sends the message that names the object, then claims it; or it
\* never does.  A send that failed keeps its upload for a retry, so this may
\* come long after the upload.
PostMessage(k) ==
  /\ upload[k] = "stored"
  /\ upload' = [upload EXCEPT ![k] = "ended"]
  /\ posted' = posted \cup {k}
  /\ claiming' = claiming \cup {k}
  /\ UNCHANGED <<now, row, object, dropping, sweep, misjudged, picked, faults>>

Abandon(k) ==
  /\ upload[k] = "stored"
  /\ upload' = [upload EXCEPT ![k] = "ended"]
  /\ UNCHANGED <<now, row, object, posted, claiming, dropping, sweep, misjudged,
                 picked, faults>>

\* claimed_at IS NOT NULL.
Claimed(k) == row[k] # None /\ row[k].claimed # None

\* GET: a reader of the message gets the bytes, and claims quietly.
Read(k) ==
  /\ k \in posted /\ k \in object
  /\ k \notin claiming /\ row[k] # None /\ ~Claimed(k)
  /\ claiming' = claiming \cup {k}
  /\ UNCHANGED <<now, row, object, upload, posted, dropping, sweep, misjudged,
                 picked, faults>>

\* PATCH, or claimQuietly: only an unclaimed row is stamped.
Claim(k) ==
  /\ k \in claiming
  /\ claiming' = claiming \ {k}
  /\ row' = [row EXCEPT ![k] = IF @ = None \/ Claimed(k) THEN @
                               ELSE [at |-> @.at, claimed |-> now]]
  /\ UNCHANGED <<now, object, upload, posted, dropping, sweep, misjudged, picked, faults>>

LoseClaim(k) ==
  /\ k \in claiming /\ Fault
  /\ claiming' = claiming \ {k}
  /\ UNCHANGED <<now, row, object, upload, posted, dropping, sweep, misjudged, picked>>

\* DELETE: the object first, its row only if that worked.  A client discards a stored
\* upload whose message was never sent, and forgets it; or an owner, an admin or the
\* uploader removes the attachment of a message.
DeleteObject(k) ==
  /\ upload[k] = "stored" \/ k \in posted
  /\ dropping[k] = "no"
  /\ upload' = [upload EXCEPT ![k] = "ended"]
  /\ \/ /\ object' = object \ {k}
        /\ dropping' = [dropping EXCEPT ![k] = "object"]
        /\ UNCHANGED faults
     \/ Fault /\ UNCHANGED <<object, dropping>>
  /\ UNCHANGED <<now, row, posted, claiming, sweep, misjudged, picked>>

DeleteRow(k) ==
  /\ dropping[k] = "object"
  /\ dropping' = [dropping EXCEPT ![k] = "row"]
  /\ row' = [row EXCEPT ![k] = None]
  /\ UNCHANGED <<now, object, upload, posted, claiming, sweep, misjudged, picked,
                 faults>>

-----------------------------------------------------------------------------
\* selectExpiredChatMedia.
Expired(k) ==
  /\ Retention > 0
  /\ row[k] # None /\ row[k].at < now - Retention

\* Mutants of Unclaimed: claimed_at is not looked at; the topic's window for the grace
\* one.
UnclaimedOrNot(k) == row[k] # None /\ row[k].at < now - Grace
UnclaimedByWindow(k) == row[k] # None /\ ~Claimed(k) /\ row[k].at < now - Retention

\* selectUnclaimedChatMedia.
Unclaimed(k) == row[k] # None /\ ~Claimed(k) /\ row[k].at < now - Grace

\* sweepTopicChatMedia: one pass over the expired rows, one over the unclaimed.
SelectExpired(s) ==
  LET keys == {k \in Key : Expired(k)} IN
  /\ sweep[s].pass = "idle" /\ keys # {}
  /\ sweep' = [sweep EXCEPT ![s] = [pass |-> "expired", keys |-> keys, gone |-> {}]]
  /\ UNCHANGED <<now, row, object, upload, posted, claiming, dropping, misjudged,
                 picked, faults>>

SelectUnclaimed(s) ==
  LET keys == {k \in Key : Unclaimed(k)} IN
  /\ sweep[s].pass = "idle" /\ keys # {}
  /\ sweep' = [sweep EXCEPT ![s] = [pass |-> "unclaimed", keys |-> keys, gone |-> {}]]
  /\ picked' = [k \in Key |-> IF k \in keys /\ picked[k] = None THEN now ELSE picked[k]]
  /\ UNCHANGED <<now, row, object, upload, posted, claiming, dropping, misjudged,
                 faults>>

\* Mutant of Collect: a failed delete counts as done.
CollectAnyway(s, k) ==
  /\ k \in sweep[s].keys
  /\ sweep' = [sweep EXCEPT ![s].keys = @ \ {k}, ![s].gone = @ \cup {k}]
  /\ \/ object' = object \ {k} /\ UNCHANGED faults
     \/ Fault /\ UNCHANGED object
  /\ UNCHANGED <<now, row, upload, posted, claiming, dropping, misjudged, picked>>

\* deleteBatch, key by key: a key whose object could not be deleted is kept.
Collect(s, k) ==
  /\ k \in sweep[s].keys
  /\ \/ /\ object' = object \ {k}
        /\ sweep' = [sweep EXCEPT ![s].keys = @ \ {k}, ![s].gone = @ \cup {k}]
        /\ UNCHANGED faults
     \/ /\ Fault
        /\ sweep' = [sweep EXCEPT ![s].keys = @ \ {k}]
        /\ UNCHANGED object
  /\ UNCHANGED <<now, row, upload, posted, claiming, dropping, misjudged, picked>>

\* deleteChatMediaRows, for the keys whose object is gone.
DropRows(s) ==
  /\ sweep[s].pass # "idle" /\ sweep[s].keys = {}
  /\ row' = [k \in Key |-> IF k \in sweep[s].gone THEN None ELSE row[k]]
  /\ sweep' = [sweep EXCEPT ![s] = Idle]
  /\ UNCHANGED <<now, object, upload, posted, claiming, dropping, misjudged, picked,
                 faults>>

\* The instance goes away in the middle of a sweep.
Stop(s) ==
  /\ sweep[s].pass # "idle" /\ Fault
  /\ sweep' = [sweep EXCEPT ![s] = Idle]
  /\ UNCHANGED <<now, row, object, upload, posted, claiming, dropping, misjudged,
                 picked>>

\* No upload request is open for longer than the grace window (an hour).
Tick ==
  /\ now < MaxTime
  /\ \A k \in Key : upload[k] \in {"storing", "failed"} => row[k].at + Grace > now
  /\ now' = now + 1
  /\ UNCHANGED <<row, object, upload, posted, claiming, dropping, sweep, misjudged,
                 picked, faults>>

SweepStep(s) ==
  \/ SelectExpired(s) \/ SelectUnclaimed(s) \/ DropRows(s)
  \/ \E k \in Key : Collect(s, k)

MediaNext ==
  \/ \E k \in Key :
       \/ BeginUpload(k) \/ Store(k) \/ StoreFails(k) \/ RollBack(k)
       \/ PostMessage(k) \/ Abandon(k) \/ Read(k) \/ Claim(k) \/ LoseClaim(k)
       \/ DeleteObject(k) \/ DeleteRow(k)
  \/ \E s \in Sweeper : SweepStep(s) \/ Stop(s)
  \/ Tick

MediaSpec == MediaInit /\ [][MediaNext]_vars

\* The room goes on being visited, so sweeps go on; requests end; time passes.
MediaFairSpec ==
  /\ MediaSpec
  /\ WF_vars(Tick)
  /\ \A s \in Sweeper : WF_vars(SweepStep(s))
  /\ \A k \in Key :
       /\ WF_vars(Store(k)) /\ WF_vars(RollBack(k)) /\ WF_vars(DeleteRow(k))
       /\ WF_vars(PostMessage(k) \/ Abandon(k))

-----------------------------------------------------------------------------
\* Type correctness.
TypeOK ==
  /\ now \in 0..MaxTime
  /\ row \in [Key -> Row \cup {None}]
  /\ object \subseteq Key /\ posted \subseteq Key /\ claiming \subseteq Key
  /\ upload \in [Key -> Phase]
  /\ dropping \in [Key -> {"no", "object", "row"}]
  /\ sweep \in [Sweeper -> [pass : {"idle", "expired", "unclaimed"},
                            keys : SUBSET Key, gone : SUBSET Key]]
  /\ misjudged \subseteq Key
  /\ picked \in [Key -> 0..MaxTime \cup {None}]

\* No object is left that nothing can find: whatever fails or stops, and however
\* a sweep, a DELETE and an upload interleave, an object in the store has its
\* row, unless the store kept what it reported as failed.
StoredIsIndexed == \A k \in object \ misjudged : row[k] # None

\* A message's attachment goes only by a DELETE, or when its topic's window has passed
\* (never, when there is none), or because an unclaimed pass had picked it, after the
\* grace window, before its claim arrived.  So a claimed one that no sweep saw unclaimed
\* is kept for its whole retention, whatever sweeps and other requests do.
Overtaken(k) ==
  /\ picked[k] # None /\ picked[k] > row[k].at + Grace
  /\ Claimed(k) => row[k].claimed >= picked[k]
SentIsReadable ==
  \A k \in posted : row[k] # None /\ dropping[k] = "no" =>
    \/ k \in object
    \/ Retention > 0 /\ now > row[k].at + Retention
    \/ Overtaken(k)

\* An upload that no message names is collected after the grace window, long before
\* its topic's, through failing deletes and sweeps that stop half way.
StrandedIsCollected ==
  \A k \in Key :
    /\ upload[k] = "ended" /\ k \notin posted
    /\ row[k] # None /\ row[k].at + Grace < now
    ~> k \notin object

\* An attachment older than its topic's window goes, claimed or not.
ExpiredIsCollected ==
  \A k \in Key :
    Retention > 0 /\ row[k] # None /\ row[k].at + Retention < now ~> k \notin object

\* The route: after a failed PUT "the object provably does not exist", so no
\* object is ever left without a row.
EveryObjectIndexed == \A k \in object : row[k] # None

\* chatMediaSweep: the unclaimed pass "never touches a claimed row".
ClaimedIsKept ==
  [][\A k \in object \ object' :
       Claimed(k) =>
         Expired(k) \/ dropping'[k] # "no"]_vars

\* chatMediaSweep: the grace window is the margin for a client that is offline
\* or retrying, so a message is never posted over a collected object.
RetryFindsItsUpload == [][\A k \in posted' \ posted : k \in object]_vars
=============================================================================
