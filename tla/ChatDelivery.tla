---------------------------- MODULE ChatDelivery ----------------------------
(***************************************************************************)
(* The live queue of one topic's chat: who still needs a message's         *)
(* ciphertext, and when the server drops it.  From src/lib/chatDelivery-   *)
(* Ack.ts (what a device claims), the route chat/delivered (the cursor),   *)
(* src/lib/chatDeliveryPurge.ts (the purge), src/lib/archiveRetention-     *)
(* Sweep.ts (the archive's window) and the routes that send a message,     *)
(* upload its archive row, list messages, and let members in and out.      *)
(*                                                                         *)
(* Time is counted in half milliseconds: PostgreSQL's now() has such       *)
(* residues, a JavaScript Date has not.                                    *)
(***************************************************************************)
EXTENDS Integers, FiniteSets, FiniteSetsExt

CONSTANTS
  Device,
  Account,
  Owner,     \* the account of a device
  None,      \* no cursor
  MaxMsg,    \* bound: rows of chat_messages
  MaxTime,   \* bound: half milliseconds that pass
  MaxLeave,  \* bound: members that leave
  Grace,     \* DELIVERY_GRACE_DAYS
  Stale,     \* DEVICE_STALE_DAYS
  Window     \* chat_archive_retention_days of the topic; 0 keeps the archive for ever

ASSUME DeliveryOwner == Owner \in [Device -> Account]
ASSUME DeliveryWindows == Grace \in Nat /\ Stale \in Nat /\ Stale <= Grace /\ Window \in Nat
ASSUME DeliveryBounds == MaxMsg \in Nat /\ MaxTime \in Nat
ASSUME NoCursorIsNoRow == None \notin [first : Nat, last : Nat, through : Nat]

VARIABLES
  now,        \* the clock
  at,         \* rows of chat_messages so far -> created_at
  systemRows, \* those that are system rows: someone joined or left
  unsaid,     \* joins and leaves whose system row is not written (yet)
  visible,    \* chat_messages rows whose INSERT has committed
  cipher,     \* the rows whose ciphertext is not NULL
  archived,   \* messages with a chat_archive row
  filed,      \* messages that had one -> created_at of the last
  members,    \* topic_members
  cursor,     \* device -> its chat_delivery_cursors row, or None
  got,        \* device -> rows it read: messages it decrypted, and system rows
  acks,       \* device -> marks it posted that have not arrived
  leaves      \* members that left

rowVars    == <<at, systemRows, visible>>
copyVars   == <<cipher, archived, filed>>
memberVars == <<members, unsaid, leaves>>
deviceVars == <<cursor, got, acks>>
vars == <<now, rowVars, copyVars, memberVars, deviceVars>>

\* A time as a Date has it.
Ms(t) == 2 * (t \div 2)
Sent  == DOMAIN at
Stamp == 0..MaxTime
Row   == [first : Stamp, last : Stamp, through : Stamp]

DeliveryInit ==
  /\ now = 0
  /\ at = [m \in {} |-> 0] /\ filed = [m \in {} |-> 0]
  /\ systemRows = {} /\ visible = {} /\ cipher = {} /\ archived = {}
  /\ members = Account /\ unsaid = 0
  /\ cursor = [d \in Device |-> None]
  /\ got = [d \in Device |-> {}]
  /\ acks = [d \in Device |-> {}]
  /\ leaves = 0

-----------------------------------------------------------------------------
\* created_at is the time the INSERT starts; the row is seen later, or never.
NewRow == Cardinality(Sent) + 1
Insert ==
  /\ NewRow <= MaxMsg
  /\ at' = [k \in Sent \cup {NewRow} |-> IF k = NewRow THEN now ELSE at[k]]

\* POST /chat.
Send ==
  /\ Insert
  /\ UNCHANGED <<now, systemRows, visible, copyVars, memberVars, deviceVars>>

\* broadcastMembershipSystemEvent: a statement of its own after the membership's, and
\* one whose failure is swallowed.
Announce ==
  /\ unsaid > 0 /\ unsaid' = unsaid - 1
  /\ Insert
  /\ systemRows' = systemRows \cup {NewRow}
  /\ UNCHANGED <<now, visible, copyVars, members, leaves, deviceVars>>

\* Only a message has ciphertext.
Commit(m) ==
  /\ m \in Sent \ visible
  /\ visible' = visible \cup {m}
  /\ cipher' = cipher \cup ({m} \ systemRows)
  /\ UNCHANGED <<now, at, systemRows, archived, filed, memberVars, deviceVars>>

\* POST /archive by a device that can read the message (or sent it); a second row for
\* the same message is a no-op.
Archive(m) ==
  /\ m \in visible \ systemRows
  /\ archived' = archived \cup {m}
  /\ filed' = IF m \in archived THEN filed
              ELSE [k \in DOMAIN filed \cup {m} |-> IF k = m THEN now ELSE filed[k]]
  /\ UNCHANGED <<now, rowVars, cipher, memberVars, deviceVars>>

\* purgeExpiredArchiveRows, with the time its request captured: any member's
\* GET /archive asks for it, so that may be any time that has been.
Expire(t) ==
  /\ Window > 0
  /\ archived' = {m \in archived : filed[m] >= Ms(t) - Window}
  /\ UNCHANGED <<now, rowVars, cipher, filed, memberVars, deviceVars>>

\* deliveryMarkOf: the newest row of the batch that was read.
Claim(batch, read) == Max({Ms(at[m]) : m \in read})

\* A batch of rows arrives: one by the stream, or a page of what is there.
Streamed == {{m} : m \in visible}
Batches  == Streamed \cup {visible}

\* A system row is plain text.  A streamed message carries its body, a page only what
\* the queue still has and what the device's own message cache remembers.
Readable(d, batch) ==
  IF batch \in Streamed THEN batch ELSE batch \cap (cipher \cup systemRows \cup got[d])

\* Some messages decrypt and the others stay locked.  What was read is acknowledged.
Receive(d, batch, read) ==
  /\ Owner[d] \in members
  /\ batch \cap systemRows \subseteq read /\ read \subseteq Readable(d, batch)
  /\ got' = [got EXCEPT ![d] = @ \cup read]
  /\ acks' = [acks EXCEPT ![d] =
       @ \cup (IF read = {} THEN {} ELSE {Claim(batch, read)})]
  /\ UNCHANGED <<now, rowVars, copyVars, memberVars, cursor>>

\* Mutant of Acked: the statement that commits last decides.
AckedLast(row, mark) ==
  IF row = None THEN [first |-> Ms(now), last |-> Ms(now), through |-> mark]
  ELSE [row EXCEPT !.through = mark, !.last = Ms(now)]

\* The upsert of chat/delivered: a first row, or GREATEST.
Acked(row, mark) ==
  IF row = None THEN [first |-> Ms(now), last |-> Ms(now), through |-> mark]
  ELSE [first |-> row.first, last |-> Ms(now), through |-> Max({row.through, mark})]

\* POST /chat/delivered; a future mark is clamped to now.
Ack(d, mark) ==
  /\ Owner[d] \in members
  /\ mark \in acks[d]
  /\ acks' = [acks EXCEPT ![d] = @ \ {mark}]
  /\ cursor' = [cursor EXCEPT ![d] = Acked(@, Min({mark, Ms(now)}))]
  /\ UNCHANGED <<now, rowVars, copyVars, memberVars, got>>

\* ackDelivery never rejects: a request that fails is forgotten.
LoseAck(d, mark) ==
  /\ mark \in acks[d]
  /\ acks' = [acks EXCEPT ![d] = @ \ {mark}]
  /\ UNCHANGED <<now, rowVars, copyVars, memberVars, cursor, got>>

-----------------------------------------------------------------------------
\* Mutants of Owed: created_at compared at its own resolution; a device not
\* waited for when it came at the instant of the message.
OwedRaw(d, m, n) ==
  /\ cursor[d] # None /\ Owner[d] \in members
  /\ cursor[d].first <= at[m] /\ cursor[d].last >= n - Stale
  /\ cursor[d].through < at[m]

OwedFromNext(d, m, n) ==
  /\ cursor[d] # None /\ Owner[d] \in members
  /\ cursor[d].first < at[m] /\ cursor[d].last >= n - Stale
  /\ Ms(cursor[d].through) < Ms(at[m])

\* A device that a message still waits for: its account is a member, it was there
\* when the message was sent, it is not silent, and its mark is older.
Owed(d, m, n) ==
  /\ cursor[d] # None /\ Owner[d] \in members
  /\ cursor[d].first <= at[m] /\ cursor[d].last >= n - Stale
  /\ Ms(cursor[d].through) < Ms(at[m])

\* Mutant of Purgeable: the grace cap relaxes the archive half too.
PurgeableLate(m, n) ==
  \/ at[m] < n - Grace
  \/ m \in archived /\ \A d \in Device : ~Owed(d, m, n)

\* isPurgeable, and the WHERE of purgeDeliveredCiphertext.
Purgeable(m, n) ==
  /\ m \in archived
  /\ at[m] < n - Grace \/ \A d \in Device : ~Owed(d, m, n)

\* sweepTopicDelivery, with the time its request captured: POST /archive and POST
\* /chat/delivered ask for it, the same one again too, so that may be any time that has
\* been.  One that the throttle or a failure drops changes nothing.
Sweep(t) ==
  /\ cipher' = {m \in cipher : ~Purgeable(m, Ms(t))}
  /\ UNCHANGED <<now, rowVars, archived, filed, memberVars, deviceVars>>

\* The membership row goes or comes; its system row is written next.
Leave(a) ==
  /\ a \in members /\ leaves < MaxLeave
  /\ members' = members \ {a}
  /\ leaves' = leaves + 1 /\ unsaid' = unsaid + 1
  /\ UNCHANGED <<now, rowVars, copyVars, deviceVars>>

Join(a) ==
  /\ a \notin members
  /\ members' = members \cup {a}
  /\ unsaid' = unsaid + 1
  /\ UNCHANGED <<now, rowVars, copyVars, leaves, deviceVars>>

Tick ==
  /\ now < MaxTime
  /\ now' = now + 1
  /\ UNCHANGED <<rowVars, copyVars, memberVars, deviceVars>>

DeliveryNext ==
  \/ Send \/ Announce \/ Tick
  \/ \E m \in Sent : Commit(m) \/ Archive(m)
  \/ \E t \in 0..now : Expire(t) \/ Sweep(t)
  \/ \E d \in Device :
       \/ \E batch \in Batches : \E read \in SUBSET batch : Receive(d, batch, read)
       \/ \E mark \in acks[d] : Ack(d, mark) \/ LoseAck(d, mark)
  \/ \E a \in Account : Leave(a) \/ Join(a)

DeliverySpec == DeliveryInit /\ [][DeliveryNext]_vars

-----------------------------------------------------------------------------
\* Type correctness of rows, cursors and marks.
TypeOK ==
  /\ now \in Stamp
  /\ at \in [1..Cardinality(Sent) -> Stamp] /\ Cardinality(Sent) <= MaxMsg
  /\ visible \cup systemRows \subseteq Sent /\ cipher \cup archived \subseteq visible \ systemRows
  /\ filed \in [DOMAIN filed -> Stamp] /\ archived \subseteq DOMAIN filed
  /\ members \subseteq Account /\ unsaid \in Nat
  /\ cursor \in [Device -> Row \cup {None}]
  /\ got \in [Device -> SUBSET visible]
  /\ acks \in [Device -> SUBSET Stamp]

\* A message is in neither place only when the topic has a window and the archive row
\* it had has outlived it: the live copy goes only when an archive row exists, however
\* old the message is and whoever is gone, and however late a sweep runs.
Outlived(m) == Window > 0 /\ m \in DOMAIN filed /\ filed[m] < now - Window
KeptSomewhere ==
  \A m \in visible \ systemRows : m \in cipher \/ m \in archived \/ Outlived(m)

\* A cursor names a row its device read, a message it decrypted or a system row: it
\* never runs ahead of that, whatever order the acknowledgements arrive in.
MarksAreRead ==
  \A d \in Device : cursor[d] # None =>
    \E m \in got[d] : cursor[d].through = Ms(at[m])

\* Racing acknowledgements converge on the newest: a cursor never goes back,
\* and a device's first contact is never moved.
CursorsAdvance ==
  [][\A d \in Device : cursor[d] # None =>
       /\ cursor'[d] # None
       /\ cursor'[d].through >= cursor[d].through
       /\ cursor'[d].first = cursor[d].first]_vars

\* A device that acknowledged something before m was sent, still acknowledges, and has
\* read no row as new as m - no message, and no system row either, which takes a mark
\* past the messages a device could not decrypt - is waited for until the grace cap.
WaitsFor(d, m) ==
  /\ cursor[d] # None /\ Owner[d] \in members
  /\ cursor[d].first <= at[m] /\ cursor[d].last >= now - Stale
  /\ \A k \in got[d] : Ms(at[k]) < Ms(at[m])
UnreadIsKept ==
  [][\A m \in cipher \ cipher' :
       at[m] >= now - Grace => \A d \in Device : ~WaitsFor(d, m)]_vars

\* Once every member's device has read up to m and its cursor says so, whichever sweep
\* comes next drops m: no residue of a clock keeps it.
ReadByAll(m) ==
  \A d \in Device : cursor[d] # None /\ Owner[d] \in members =>
    \E k \in got[d] : at[k] >= at[m] /\ cursor[d].through >= Ms(at[k])
ReadIsCleared ==
  \A m \in cipher \cap archived, t \in 0..now : ReadByAll(m) => Purgeable(m, Ms(t))

\* chatDeliveryAck: a row a device could not read "must never be" claimed, because
\* "a device waiting for its key is precisely the device that needs that copy".
LockedIsKept ==
  [][\A m \in cipher \ cipher', d \in Device :
       /\ at[m] >= now - Grace
       /\ cursor[d] # None /\ Owner[d] \in members
       /\ cursor[d].first < at[m] /\ cursor[d].last >= now - Stale
       => m \in got[d]]_vars
=============================================================================
