---------------------------- MODULE ChatArchive ----------------------------
(***************************************************************************)
(* The chat archive of one topic: its rows, the request-triggered sweep    *)
(* that enforces the topic's window on every server instance, and the      *)
(* devices that add rows, put back the ones they miss and read the rest.   *)
(* From src/lib/mls/archive.ts, src/lib/archiveRetentionSweep.ts, the      *)
(* route archive and backfill / backfillMissingArchive of                  *)
(* packages/mls/src/takSession.ts.  A row gets its timestamp when its      *)
(* insert starts and is visible when it commits; timestamps are positions, *)
(* all different, beside the coarse clock that windows are measured on.    *)
(***************************************************************************)
EXTENDS Integers, Sequences, FiniteSets

CONSTANTS
  Msg,         \* messages
  Device,      \* devices of members
  Instance,    \* server instances, each with its own throttle
  Absent,      \* no row, no sweep
  Window,      \* chat_archive_retention_days, 0 for unlimited
  Interval,    \* ARCHIVE_SWEEP_INTERVAL_MS
  MaxClock,    \* bound: clock
  MaxInserts,  \* bound: inserts that start
  MaxOpen,     \* bound: inserts in flight together
  MaxFailures  \* bound: failing sweeps

ASSUME ArchiveWindow == Window \in Nat /\ Interval \in Nat
ASSUME ArchiveBounds == MaxClock \in Nat /\ MaxInserts \in Nat

VARIABLES
  clock,
  archive,   \* message -> its row, or Absent
  stamps,    \* inserts that started
  pending,   \* inserts that have their timestamp and have not committed
  local,     \* device -> messages it can show
  keys,      \* device -> messages whose archive row it could open
  gaps,      \* device -> messages its last look missed in the archive
  cursor,    \* device -> position its stored history reaches
  page,      \* device -> rows fetched by the backfill on its way
  late,      \* device -> messages whose row showed behind what it had fetched
  swept,     \* instance -> when it last swept, or Absent
  purge,     \* instance -> the clock of a purge on its way, or Absent
  visited,   \* a request has come in since the clock moved
  attended,  \* one came in every tick, and what it started was done by then
  purged,    \* messages a sweep has deleted
  failures

archiveVars == <<clock, archive, stamps, pending, late, local, keys, gaps, cursor, page,
                 swept, purge, visited, attended, purged, failures>>
deviceVars == <<local, keys, gaps, cursor, page>>
sweepVars == <<swept, purge, visited, attended, purged, failures>>

ArchiveRow == [at : 0..MaxClock, pos : 1..MaxInserts]
PageRow == [msg : Msg, pos : 1..MaxInserts]
ASSUME AbsentIsNoRow == Absent \notin ArchiveRow /\ Absent \notin 0..MaxClock

ArchiveInit ==
  /\ clock = 0
  /\ archive = [m \in Msg |-> Absent]
  /\ stamps = 0
  /\ pending = {}
  /\ local = [d \in Device |-> {}] /\ keys = [d \in Device |-> {}]
  /\ gaps = [d \in Device |-> {}]
  /\ cursor = [d \in Device |-> 0]
  /\ page = [d \in Device |-> <<>>] /\ late = [d \in Device |-> {}]
  /\ swept = [i \in Instance |-> Absent] /\ purge = [i \in Instance |-> Absent]
  /\ visited = FALSE /\ attended = TRUE
  /\ purged = {}
  /\ failures = 0

-----------------------------------------------------------------------------
\* A message is sent by d: its body stays in d's history, and archiveOnSend
\* will post it if d holds a key it may seal under.
Send(d, m) ==
  /\ \A e \in Device : m \notin local[e]
  /\ archive[m] = Absent /\ m \notin purged /\ \A i \in pending : i.msg # m
  /\ local' = [local EXCEPT ![d] = @ \cup {m}]
  /\ \/ gaps' = [gaps EXCEPT ![d] = @ \cup {m}] /\ keys' = [keys EXCEPT ![d] = @ \cup {m}]
     \/ UNCHANGED <<gaps, keys>>
  /\ UNCHANGED <<clock, archive, stamps, pending, late, cursor, page, sweepVars>>

\* Another device decrypts it live.
Receive(d, m) ==
  /\ m \notin local[d] /\ \E e \in Device : m \in local[e]
  /\ local' = [local EXCEPT ![d] = @ \cup {m}]
  /\ UNCHANGED <<clock, archive, stamps, pending, late, keys, gaps, cursor, page, sweepVars>>

\* The key of a row arrives: a TAK bundle, or the topic's root.
GetKey(d, m) ==
  /\ m \notin keys[d]
  /\ keys' = [keys EXCEPT ![d] = @ \cup {m}]
  /\ UNCHANGED <<clock, archive, stamps, pending, late, local, gaps, cursor, page, sweepVars>>

-----------------------------------------------------------------------------
Here(m) == archive[m] # Absent

\* d posts m and has no answer yet.
Posting(d, m) == \E i \in pending : i.by = d /\ i.msg = m

\* backfillMissingArchive: which readable messages have no row.
Look(d) ==
  LET missing == {m \in local[d] \cap keys[d] : ~Here(m) /\ ~Posting(d, m)} IN
  /\ gaps[d] # missing
  /\ gaps' = [gaps EXCEPT ![d] = missing]
  /\ UNCHANGED <<clock, archive, stamps, pending, late, local, keys, cursor, page, sweepVars>>

\* POST of one of them, now or later: the insert takes its timestamp.
Insert(d, m) ==
  /\ m \in gaps[d]
  /\ stamps < MaxInserts /\ Cardinality(pending) < MaxOpen
  /\ stamps' = stamps + 1
  /\ pending' = pending \cup {[by |-> d, msg |-> m, row |-> [at |-> clock, pos |-> stamps + 1]]}
  /\ gaps' = [gaps EXCEPT ![d] = @ \ {m}]
  /\ UNCHANGED <<clock, archive, late, local, keys, cursor, page, sweepVars>>

\* The position a device's rows reach, the fetched ones included.
Reached(d) == IF page[d] = <<>> THEN cursor[d] ELSE page[d][Len(page[d])].pos

\* storeArchiveRow: ON CONFLICT DO NOTHING.  Inserts commit in any order, so the
\* row may show behind what a device has fetched.
Commit(i) ==
  /\ i \in pending
  /\ pending' = pending \ {i}
  /\ \/ Here(i.msg) /\ UNCHANGED <<archive, late>>
     \/ /\ ~Here(i.msg)
        /\ archive' = [archive EXCEPT ![i.msg] = i.row]
        /\ late' = [d \in Device |->
             IF i.row.pos <= Reached(d) THEN late[d] \cup {i.msg} ELSE late[d] \ {i.msg}]
  /\ UNCHANGED <<clock, stamps, deviceVars, sweepVars>>

-----------------------------------------------------------------------------
\* Mutant of Throttled: the requests of every tick renew the stamp.
ThrottledAlways(i) == swept[i] # Absent

Throttled(i) == swept[i] # Absent /\ clock - swept[i] < Interval

\* A call of an archive route schedules the sweep; the stamp comes first.
Visit(i) ==
  /\ purge[i] = Absent
  /\ \/ /\ Throttled(i) /\ ~visited
        /\ UNCHANGED <<swept, purge>>
     \/ /\ ~Throttled(i)
        /\ swept' = [swept EXCEPT ![i] = clock]
        /\ purge' = [purge EXCEPT ![i] = clock]
  /\ visited' = TRUE
  /\ UNCHANGED <<clock, archive, stamps, pending, late, deviceVars, attended, purged, failures>>

\* created_at < now - window, and no window when it is 0.
OutOfWindow(m, t) == Window > 0 /\ Here(m) /\ archive[m].at < t - Window

\* purgeExpiredArchiveRows, at the clock of the request that scheduled it.
Purge(i) ==
  LET old == {m \in Msg : OutOfWindow(m, purge[i])} IN
  /\ purge[i] # Absent
  /\ archive' = [m \in Msg |-> IF m \in old THEN Absent ELSE archive[m]]
  /\ purged' = purged \cup old
  /\ purge' = [purge EXCEPT ![i] = Absent]
  /\ UNCHANGED <<clock, stamps, pending, late, deviceVars, swept, visited, attended, failures>>

\* The DELETE fails; the stamp stays.
PurgeFails(i) ==
  /\ purge[i] # Absent /\ failures < MaxFailures
  /\ failures' = failures + 1
  /\ purge' = [purge EXCEPT ![i] = Absent]
  /\ UNCHANGED <<clock, archive, stamps, pending, late, deviceVars>>
  /\ UNCHANGED <<swept, visited, attended, purged>>

ClockTicks ==
  /\ clock < MaxClock
  /\ clock' = clock + 1
  /\ visited' = FALSE
  /\ attended' = (attended /\ visited /\ pending = {} /\ \A i \in Instance : purge[i] = Absent)
  /\ UNCHANGED <<archive, stamps, pending, late, deviceVars, swept, purge, purged, failures>>

-----------------------------------------------------------------------------
After(d) == {m \in Msg : Here(m) /\ archive[m].pos > Reached(d)}

\* backfill reads the archive from the stored cursor, page by page; a page is
\* getArchiveSince after the last row of the page before.
ReadPage(d) ==
  /\ \E m \in After(d) :
       /\ \A n \in After(d) : archive[m].pos <= archive[n].pos
       /\ page' = [page EXCEPT ![d] = Append(@, [msg |-> m, pos |-> archive[m].pos])]
       /\ late' = [late EXCEPT ![d] = @ \ {m}]
  /\ UNCHANGED <<clock, archive, stamps, pending, local, keys, gaps, cursor, sweepVars>>

Opened(d, k) == page[d][k].msg \in keys[d]

\* Mutant of Prefix: the cursor passes every row that was fetched.
PrefixAll(d) == DOMAIN page[d]

\* The unbroken run of opened rows from the front.
Prefix(d) == {k \in DOMAIN page[d] : \A j \in 1..k : Opened(d, j)}

\* The rows that open join the history; the cursor crosses the run before the
\* first that does not.
FinishRead(d) ==
  /\ page[d] # <<>> /\ After(d) = {}
  /\ local' = [local EXCEPT ![d] =
       @ \cup {page[d][k].msg : k \in {j \in DOMAIN page[d] : Opened(d, j)}}]
  /\ cursor' = [cursor EXCEPT ![d] =
       IF Prefix(d) = {} THEN @ ELSE page[d][Cardinality(Prefix(d))].pos]
  /\ page' = [page EXCEPT ![d] = <<>>]
  /\ UNCHANGED <<clock, archive, stamps, pending, late, keys, gaps, sweepVars>>

ArchiveNext ==
  \/ \E d \in Device :
       \/ \E m \in Msg : Send(d, m) \/ Receive(d, m) \/ GetKey(d, m) \/ Insert(d, m)
       \/ Look(d) \/ ReadPage(d) \/ FinishRead(d)
  \/ \E i \in pending : Commit(i)
  \/ \E i \in Instance : Visit(i) \/ Purge(i) \/ PurgeFails(i)
  \/ ClockTicks

ArchiveSpec == ArchiveInit /\ [][ArchiveNext]_archiveVars

\* Rooms are opened again and again, and requests that were sent arrive.
ArchiveFairSpec ==
  /\ ArchiveSpec
  /\ \A d \in Device :
       /\ WF_archiveVars(Look(d)) /\ WF_archiveVars(ReadPage(d))
       /\ WF_archiveVars(FinishRead(d))
       /\ \A m \in Msg : WF_archiveVars(Insert(d, m))
  /\ WF_archiveVars(\E i \in pending : Commit(i))

-----------------------------------------------------------------------------
\* Type correctness.
ArchiveTypeOK ==
  /\ clock \in 0..MaxClock
  /\ archive \in [Msg -> ArchiveRow \cup {Absent}]
  /\ stamps \in 0..MaxInserts
  /\ pending \subseteq [by : Device, msg : Msg, row : ArchiveRow]
  /\ local \in [Device -> SUBSET Msg] /\ keys \in [Device -> SUBSET Msg]
  /\ gaps \in [Device -> SUBSET Msg]
  /\ cursor \in [Device -> 0..MaxInserts]
  /\ page \in [Device -> Seq(PageRow)] /\ late \in [Device -> SUBSET Msg]
  /\ swept \in [Instance -> 0..MaxClock \cup {Absent}]
  /\ purge \in [Instance -> 0..MaxClock \cup {Absent}]
  /\ visited \in BOOLEAN /\ attended \in BOOLEAN /\ purged \subseteq Msg

\* No message is left behind: every row a device's stored cursor has passed is
\* in that device's history, whatever keys it lacked when it fetched the row and
\* whatever was purged or put back between two pages.  The one row it may lack is
\* a late one: its insert committed after the device had fetched a later row, and
\* the device has not fetched it since.
NothingSkipped ==
  \A d \in Device, m \in Msg :
    Here(m) /\ archive[m].pos <= cursor[d] => m \in local[d] \cup late[d]

\* In a room that is visited all the time and whose sweeps succeed, over any number
\* of instances, a row outlives its window by at most the sweep interval.
OutlivedByInterval ==
  attended /\ failures = 0 /\ visited /\ (\A i \in Instance : purge[i] = Absent) => \A m \in Msg :
    Here(m) /\ Window > 0 => clock <= archive[m].at + Window + Interval

\* Every message some device can show and seal reaches an unlimited archive,
\* although its sender could not post it.
GapsAreFilled ==
  \A m \in Msg : (\E d \in Device : m \in local[d] \cap keys[d]) ~> Here(m)

\* What the archive has, a device that comes back and has the key can read.
ArchiveIsRead ==
  \A d \in Device, m \in Msg : Here(m) /\ m \in keys[d] ~> m \in local[d]

\* getArchiveSince: "no row is skipped or returned twice across pages"; route
\* archive: "no skips, no duplicates".  Late rows are no exception there.
NoRowIsSkipped ==
  \A d \in Device, m \in Msg :
    Here(m) /\ archive[m].pos <= cursor[d] => m \in local[d]

\* archiveRetentionSweep "makes the server keep the promise" of the window: what
\* the sweep has removed does not come back.
ExpiredStaysGone == \A m \in purged : ~Here(m)
=============================================================================
