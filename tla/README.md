# openstoa in TLA+

openstoa is a community server (Next.js over PostgreSQL, Redis and an S3-like
object store) with end-to-end encrypted topic chat. The server orders MLS
Commits, stores ciphertext and never holds a key; clients (web, mobile, CLI,
agents) share `packages/mls`. This directory models the parts of it whose
correctness depends on the order of events, model-checks them with TLC and
proves the core of it with TLAPS.

Paths below are relative to the repository; `lib/` and `api/` stand for
`src/lib/` and `src/app/api/`.

## 1. The system and its parts

| part | state | operations | hard because |
|---|---|---|---|
| MLS delivery service (`lib/mls/commits.ts`, `api/.../mls/commit`, `.../mls/group-info`) | `mls_groups` row, `mls_commits` log | genesis, compare-and-swap of a Commit, catch-up, fan-out | two writers of one epoch fork a group for good; the process may stop between commit and fan-out |
| MLS client session (`packages/mls/src/mlsSession.ts`) | state in memory, state on disk, one promise lock per topic | bootstrap, catchUp, reconcileMembership, removeUser, forgetTopic | a lost answer, a failed save, a restart, a conflicting Commit between any two awaits |
| TAK client session (`packages/mls/src/takSession.ts`) | archive keys per epoch, manifest, root | derive, store, share, ingest, backfill | a key is derived from one state and labelled with the epoch of another; a grant is put together before the tree it is sent to is read |
| archive root and holder lease (`lib/mls/archive.ts`, `api/.../tak/holder`) | `archive_holders`, root fingerprint | claim, renew, take over, release, coverage | lease clocks, two row locks, first-claim race |
| chat archive and retention (`lib/mls/archive.ts`, `lib/archiveRetentionSweep.ts`) | `chat_archive` rows, each client's cursor | post, page, backfill, sweep | every member puts back what a sweep removes; timestamps are not commit order |
| live chat and delivery purge (`lib/chatDeliveryPurge.ts`, `lib/chatDeliveryAck.ts`, `lib/chat.ts`) | ciphertext, system rows, delivery cursors | send, announce a join or leave, acknowledge, purge | acknowledgements reorder, clocks have different resolutions, the archive row that lets a copy go may go itself |
| chat media (`lib/chatMedia.ts`, `lib/chatMediaSweep.ts`, `api/.../chat/media`) | object store, `chat_media` index | upload, claim, delete, sweep | two stores and no transaction over both |
| topic membership (`api/topics/...`, `api/account`) | members, roles, invite tokens, join requests | invite, join, leave, promote, transfer, kick, review, withdraw an account | check, then write, without transactions; a withdrawal renames the id others have read |
| auth sessions and takeover (`lib/sessionStore.ts`, `lib/deviceTakeoverGate.ts`, `lib/session.ts`) | session records and an index in Redis | sign-in, takeover, refresh, sign-out | records and index have different TTLs; the gate decides before the session exists |
| CLI login (`lib/cliLogin.ts`) | one record, a flag and a lock in Redis | poll, cancel, expire | the lock lapses; cancellation takes no lock |
| TAK bundle mailbox and the archive root (`lib/mls/archive.ts`, `takSession.ts`, `api/.../tak`, `api/.../archive/root`) | mailbox rows, one fingerprint or one root per topic, a root on each device | mint, claim, deposit, hand out, take in | two devices mint at once; an accepted claim whose answer is lost names a root nobody stored |
| history keys: requests and grants (`lib/keyRequestStore.ts`, `api/.../keys`, `takSession.ts`) | request rows, keys on each device | derive, grant, ask, answer, mark | epochs are passed in one go, removals fall into grants, a grant may answer an older ask |
| keychain backups (`api/keys/tak-backup`, `webTransport.ts`, `mobileTransport.ts`) | one encrypted row per account | read, merge, replace, recover | two devices replace the row from what each read |
| posts, votes, comments, polls, records (`api/posts`, `api/comments`, `lib/postScore.ts`, `lib/record.ts`) | rows, counters beside them, entries on chain | vote, comment, choose, edit, delete, record | one request is several statements, and a transaction's receipt may never come |
| record board contract | append-only entries on chain | record | a mined call whose caller saw an error |
| key packages and device joins | key package rows | publish, consume once, announce | single use under `SKIP LOCKED` |
| read cursors, presence, user events, push, rate limits, bookmarks, reactions, pins | one row or one Redis key each | upsert, publish, count | little order to get wrong |
| topic deletion, API keys, sign-in proofs, relay, uploads | rows | one transaction or one external call | out of the models' interest |
| SDK, CLI, MCP server, channels, web and mobile UI | view state | calls of the above | thin |

Components talk through the REST API; inside the server they share PostgreSQL and
Redis. The interactions modelled are: the holder lease locks the row that Commits
lock (ArchiveHolder runs on DeliveryService); client sessions stand on the chain
of Commits the delivery service guarantees (MlsSession, over what DeliveryService
is shown to implement); archive keys are derived from the MLS state (in
MlsSession); archive uploads release the live queue's ciphertext, and the topic's
window takes archive rows away again (ChatDelivery); retention and backfill act on
one table (ChatArchive); the database index and the object store (ChatMedia); the
gate, minting and refresh (Sessions); the room's group, the mailbox, the devices
that mint and hand out keys, and the backup of the account (HistoryKeys, which
composes ArchiveRoot and EpochGrants over TakMailbox and KeychainBackup); votes,
comments and records beside the edits and the deletion of their post, and the row
of a record beside the contract (PostFeedback); a withdrawal beside every request
that has read the id it renames (TopicMembership).

## 2. Modules

| module | models | state and actions |
|---|---|---|
| `CommitChain` | what the delivery service promises: one chain of Commits, each built on the one before | `height`, `chain`; `Extend` |
| `DeliveryService` | `applyCommitCas`, the routes commit and group-info | `group` is the `mls_groups` row, `commits` the log, `rowLock` the `FOR UPDATE` lock, `tx` each handler's transaction; one action per statement that others can see |
| `ArchiveHolder` (extends it) | `claimOrRenewHolder`, `releaseHolder`, `updateHolderCoverage`, the fingerprint claim | `holder` row, `holderLock`, `req` per handler, `clock`; `now()` is fixed at `BeginClaim` |
| `MlsSession` | `MlsSessionStore` on several devices, and the epoch keys `takSession` derives from it | `log` (accepted Commits), `sess`/`saved`, `op` (the operation awaiting its POST), `roster` (a cached member list), `taks`; `BuildJoin`, `Post`, `Adopt`, `RetryBoot`, `CatchUp`, `StartReconcile`, `ReadEpoch`/`DeriveKey`, `ForgetTopic`, `Restart` and the faults |
| `ChatDelivery` | sending, system rows, delivery marks, cursors, purge, archive window | half-millisecond clock; `Receive`, `Ack`, `Sweep`, `Archive`, `Expire`, `Leave`/`Join` and `Announce`, the row they write |
| `ChatArchive` | archive rows, the client's paged read and cursor, backfill, throttled sweep | `Look`/`Insert`/`Commit`, `ReadPage`/`FinishRead`, `Visit`/`Purge`/`PurgeFails` |
| `ChatMedia` | upload, claim, claim on read, delete, discard, sweep, against the store | one action per call to the database or the store; `Stop` ends a sweep half way |
| `CliLogin` | polls of both roles, the lock, cancellation, expiry | `call` holds each poll's copy of the record and its next step |
| `Sessions` | the gate, minting, index, refresh, sign-out, TTLs | `login`, `kill`, `refresh` are the requests under way; a listing reads the index and then one record after the other (`Listing`, `Look`); a takeover lists again (`TakeOver`), prunes the dead (`Retire`) and ends the live ones, record first (`Revoke`, `Unindex`) |
| `TopicMembership` | invite, join by token, join of a public topic, leave, role change, transfer, kick, review, withdrawal of an account | `slot` holds the requests under way, each with what it read (`gone`: whether the id it read was retired by then); `Withdraw`/`Retire` are the ends of the account's transaction, and a statement on a row it has deleted waits (`Leaving`) |
| `TakMailbox` | the room, its group and `tak_bundles` | `leaves`, `epoch` (external, see MlsSession), `mailbox`: one row per leaf and scope; `Deposit`, `Acknowledge` |
| `ArchiveRoot` (extends it) | the root of a DM or a public topic: `resolveRoot`, `claimRoot`, `distributeRoot`, `ingestBundles` | `flight` is a resolution on its way, one action per await: `Resolve`, `Compare`, `Mint`, `Claim`, `Persist`, `Yield`; `sealed` the keys archive rows are sealed under |
| `KeychainBackup` (extends it) | a device's keychain and the account's one backup row | `held`, `listed` (the manifest), `seal`/`backup` (the row), `upload` (what a running upload merges into) |
| `EpochGrants` (extends that) | a private or secret topic: the keys a device passes, automatic grants, requests and answers | `view` is the epoch a device stands in, `job` the grant it is working on, `request` its row of `key_requests`; `Build` before the sync, `Post` after it, `Mark` at the end |
| `HistoryKeys` | both over one mailbox: the tier decides | |
| `PostFeedback` | votes and score, comments, a single-choice poll, edits, deletion, records on chain | `request` is a chain of statements: kind, what it has seen, next step; `chain` is the contract, `mempool` the transactions whose receipt did not come, which `Mine` may still put there |
| `DeliveryServiceProofs` (also of `ArchiveHolder`), `MlsSessionProofs`, `HistoryKeysProofs`, `ChatDeliveryProofs`, `ChatMediaProofs` (also of `ChatArchive`), `SessionsProofs` (also of `CliLogin`), `TopicMembershipProofs`, `PostFeedbackProofs` | theorems about the modules they are named for | |

An `MC...` module extends a component, gives the sets TLC enumerates and, where
no liveness is checked, a symmetry. A definition that begins with "Mutant of"
is a deliberately broken variant of the definition below it, used to see that
each property can fail; no specification uses one. `PROJECT.json` maps each
definition to the lines it stands for.

Conventions. A request that awaits is a record with what it has read so far;
each statement that another request can observe is an action; a transaction
under a row lock keeps its reads, and its writes become visible when it commits.
History variables (`overlapped`, `crossed`, `attended`, `misjudged`, `admitted`,
`ended`, `alarmed`, `was`, `missed`, `unsaved`, `refused`, `picked`, `late`,
`tangled`, the root in a holder row) are read by properties and never by guards.

## 3. Runs

Twelve configurations, all but `topic_ownerless` expected to pass.

| run | question and answer | bounds, and why they are enough |
|---|---|---|
| `delivery_service` | Do racing genesis registrations and Commits, with rollbacks and failed fan-outs, ever fork the group, leave a gap in the log or roll back the GroupInfo joiners use? No; and the service implements `CommitChain` | 2 handlers, 2 group ids, 3 epochs: a conflict needs two writers, a gap needs three epochs; proved for all values |
| `archive_holder` | Does the lease change hands only after it expired, is coverage recorded for the group's epoch of that moment and by who holds the role, does the holder name the claimed root, can the two row locks deadlock? | 2 devices, 2 roots, 2 handlers and a Commit, leases of 1 or 2 over 2 ticks: a claimer with an old clock, and the cycle of two locks |
| `mls_session` | Does a client ever stand on a refused branch, does an evicted device author a Commit or keep a later key, does a device lose the key of an epoch it was moved out of? | 2 devices of 2 accounts, 2 leaves each, one account leaving, 2 faults: a device that is evicted comes back as a new leaf, and a key is refused beside a lost answer or a failed save. The theorems have any number of devices |
| `chat_delivery` | Does the purge drop a copy somebody still waits for, do cursors run back or ahead, is a message everybody read dropped? | 2 devices of 2 accounts, 2 rows (messages and system rows), one departure, 3 half milliseconds: one residue below a millisecond; every window is one half millisecond, so that grace, silence and the archive's window end within the run |
| `chat_media` | Is an object ever left without a row, is an attachment collected too early, before or after it was claimed, is garbage collected in the end? | 2 keys, 2 sweeping instances, one fault, 3 ticks with a grace of 1 and a window of 2, so that a claimed attachment is past the one and within the other for a tick; under fairness |
| `chat_archive` | Does a reader's cursor pass a row it has not read, other than one that committed late? Does a row outlive its window? | 2 messages, 2 devices, 2 inserts, both open together or one the other's return after a purge, a window of 1 and an interval of 1 over 4 clock values, one failing sweep; the theorems have any number of inserts and instances |
| `cli_login` | Is a session left live that nobody was given, do polls issue two, does a retry get a dead one? | 3 polls over 2 roles, one cancellation, one lapsing lock, one save that fails or fails only in its answer |
| `sessions` | Do two phones end up signed in, is a live session missing from the index, does an ended one come back? | 2 phones, 3 sessions, 2 sign-ins together, one refresh that names the phone or does not, one lapse of the index |
| `topic` | Two owners? A token used twice? A member who comes back through a write that was on its way? An admin who kicks an admin? | 3 users, one token, one pending request, 2 requests at a time, and one mishap: a stop half way or a withdrawn account. A race needs two requests, a third user is the one a token must not admit |
| `history_keys` | Do devices settle on one root, and does it reach everybody? Does a device keep the keys it passes, does a removed account get a later one, does a grant bring what was asked, does the backup end up complete? | 3 devices of 2 accounts, each tier; one join or removal and one fault, in a private topic two and none; 2 mints; under fairness. A claim race needs two mints, a device that is away passes two epochs |
| `post_feedback` | Do the counters add up, is the score current, does the chain say what the post shows, does every entry on chain have its row? | an author and 2 readers, 3 requests, one stop half way: two requests that race and one that reads the outcome |
| `topic_ownerless` (violated) | Does a topic always have an owner? No, see below | one request at a time |

Properties whose code gives a guarantee only under a proviso say so in their
hypothesis and not in the bounds: `OnePhone` holds while sign-ins do not
overlap, nothing is ended under a refresh and the index stands; `TokenAdmitsOne`,
`KicksDown` while requests run one at a time (`OnlyDoorsAdmit` needs no such
proviso); `AnswerIsLive` while the lock holds and no save fails;
`OutlivedByInterval` while the room is visited and sweeps succeed; `CountsAddUp`
while no two requests work on one thing (a user's vote, a comment, the content)
and none stops on it; `RootArrives` while no request is lost. Others name the
exception itself: `EpochsLeftAreKept` and `PassedEpochsAreHeld` the keys the device's
own store refused when the epoch was announced (`announceEpoch` drops that error and
the Commit is applied), `KeptSomewhere` the archive row that outlived the topic's
window, `SentIsReadable` the attachment an unclaimed pass had picked before its claim
arrived, `NothingSkipped` the row whose insert committed late. `RecordsAgree`,
`OneRoot` and `NoLaterKey` have none. The runs contain the overlaps, lapses and
faults, so the provisos are met in some behaviours and not in others.

Kept beside the runs, and holding: `MlsSessionEvicts.cfg` (an account that is out
for good leaves the tree, under fairness: 2 devices, 2 leaves each, 2
departures), `ChatArchiveGaps.cfg` (a message whose sender could not post it is
archived by others, and read), `OldestKeyArrives` of `EpochGrants` under
`TickSpec` (put it in the place of `HeldKeysArrive` in `HistoryKeysByHand.cfg`),
and the properties no run lists: `AtMostOneOwner`, `RootIsHeld`,
`ExpiredIsCollected` of `ChatMedia`, and, proved as well, `CoverageIsCommitted`,
`AuthorsBelong` and `MarksAreRead`.

Every module states its type invariant (`TypeOK`, in `ArchiveHolder` `AHTypeOK`, in
`CliLogin` `LoginTypeOK`, in `ChatArchive` `ArchiveTypeOK`).
It documents the state, and no run lists it: the listed invariants are the ones that
say something of the code. It holds in all of them: to see it, add it to the
`INVARIANTS` of the module's configuration; where section 4 says so, it is proved.

Deadlock is checked in `delivery_service` and `archive_holder`, where somebody
can always go on; the others stop when their bounds are used up.

Where a run is at the limit of its time, a second instance of the same module passes
too and is not listed: `MlsSession.cfg` with three devices, two of one account
(`Device = {d1, d2, d3}`, `Owner <- MCOwner`, `MaxLeaves = 1`, `MaxFaults = 1`: 3.2
million states), `ChatArchive.cfg` with two instances (`MaxFailures = 0`: 4.5 million)
or with three inserts (`MaxInserts = 3`: 7.1 million).

### Fairness

`MSFairSpec`: members go on
opening the room (the effect in `ChatPanel.tsx` and the SDK's `sync` run on every
visit), and an operation that began is answered; strong fairness for posting,
catching up and starting a reconcile, because another member's Commit makes them
wait again and again. `MediaFairSpec`: the routes go on being called, each call
schedules a sweep, so a sweep that stopped is followed by another; requests end.
`ArchiveFairSpec`: a member that opens the room looks for gaps, posts and reads.
`ARFair`: the room's tick resolves the root, hands it out and picks it up, and
requests are answered; strong fairness for handing out, which another device's
round can disable. `UploadFair`: an upload runs after every key written and at
the start of every session, and the phone retries until it has landed
(`backupRetry.ts`). `TickFair` (by hand): the same tick gives and takes epoch keys.
No fairness is given to people: joins, kicks, sends, faults, cancellations and
the arrival of keys.

## 4. Proofs

All theorems hold for every value of the constants, from the named assumptions of
the modules: nulls are no values (`NoneIsNoRow`, `AbsentIsNoRow`, `NoCursorIsNoRow`,
`NoPollIsNone`), bounds and windows are natural numbers (`DeliveryBounds`,
`SessionConstants`, `ArchiveBounds`), an attachment may be claimed for no longer than
it is retained (`MediaWindows`: an hour, and days), the users of a post are finitely
many (`PostConstants`), handlers may lock, the creator is a user. Eight modules hold
the theorems; where one holds those of two components, the two share no state
(`ArchiveHolder`, which extends `DeliveryService`, apart).

`DeliveryServiceProofs`:

- `TypeCorrect`: `DSSpec => []TypeOK`.
- `SI2`: the log is a chain, and an accepted Commit is in it when its handler
  answers (`AcceptedStaysLogged`, which only the proof checks).
- `CatchUp`: a catch-up from any epoch returns exactly the epochs missed.
- `FanOut`: the stored GroupInfo is the newest published one, and only committed
  epochs are published (`PublishedIsCommitted`, likewise).
- `Frozen`: no step rewrites a logged Commit or takes the epoch back.
- `Refinement`: `DSSpec => ImplementsCommitChain`.

The argument. `LogIsAChain` and its fellows are not inductive: that `Advance`
appends at a free place needs the log to be full up to the current epoch
(`LogIsFull`), and that the row it updates exists needs "a handler in phase
locked holds the lock of an existing row" (`TxDiscipline`). `IInv` adds the two.
`InitIInv` and `NextIInv` show it inductive; `NextIInv` goes through `StepKinds`,
which sorts the actions into those that append to the log (`Appends`), the
genesis insert, and those that leave row and log alone. The refinement needs one
more fact, that an append is fresh (`AppendIsFresh`): then each step extends the
chain by one link or stutters.

On top of them, of `ArchiveHolder`: `CoverageIsFencedHolds`, `CoverageIsCommittedHolds`,
`HolderNamesTheRootHolds`, `RoleChangesAfterExpiryHolds`. `HolderInv` stands on `IInv`,
since a holder request runs beside Commits on the same row lock. It adds what a
request relies on between two statements: each lock is of a transaction that is open
(`LocksHaveOwners`); a claimer that found the lease row keeps it locked (`Locked`); a
coverage update that has read the epoch holds the group's row, so that the epoch is
still the one it read when it writes (`Fenced`); a claimer past its first statement
named the stored fingerprint, which is written once, and has no later clock than now
(`Named`). That the lease changes hands only after it ran out follows from that clock:
a claimer judges by a time in the past. `NoCircularWait` speaks of what is enabled, and
is left to TLC.

`HistoryKeysProofs`: `OneRootHolds`, `PassedKeysAreKept`, `NoKeyAfterRemoval`,
`GrantCoversAskHolds`, over the whole of `HistoryKeys`.

- `OneRoot` speaks of roots at rest. `Agreed` adds the ones in flight: a device
  whose claim was accepted has the published root in its hand, and no bundle,
  backup or row holds another. It rests on the claim being a compare-and-set
  over NULL, so that the published root never changes (`OfficialStep`).
- `PassedEpochsAreHeld` needs where a device stands: a member of the tree stands no
  further than the group does, and was a member in no epoch beyond it (`Stands`);
  keys only grow (`Grows`). A key its store refused is the listener's dropped error, and
  the property names it (`refused`).
- `NoLaterKey` needs every copy to be one the account may have (`CopiesEntitled`:
  stores, manifests, backups, uploads under way), every bundle likewise
  (`MailEntitled`), and no key of an epoch nobody has reached (`NothingAhead`). A
  grant put together before a removal is sent to the tree after it: its recipients
  are members of the current epoch, and no key in it is of a later one.
- `GrantCoversAsk` is about the three steps of an answer. `AnswerInv` says what each
  has established: what was built holds only keys below what the request has; what
  was posted is in the asker's reach (`Covered`) when it is marked. A bundle that
  `Deposit` drops leaves the one that keeps its place, of the same scope; the scope
  is the oldest key in it (`ScopesStand`), which is below what was asked too. Keys
  in reach are not lost, and a request only ever asks for less.

`TopicMembershipProofs`: `OnlyDoorsAdmitHolds` follows from types alone, for every
interleaving and any number of stops. `TokenAdmitsOneHolds` and `KicksDownHolds`
rest on `Alone`: while no two requests have been under way together, one slot is
taken, so that what its request has read still holds when it writes (`CalmInv`: a
token somebody came in by is used or about to be, `Spent`; an admin's kick still
faces a member, `RankStands`).

`PostFeedbackProofs`: `RecordsAgreeHolds` rests on `Filed` (a record past its insert
carries the content its row has; a row is inserted once, a chain entry is written
once) and holds for every interleaving and every fault. `RecordedIsShownHolds` adds
`ShownInv`: while the content is not contended no edit and record are under way
together (`NoMeeting`), whatever is on the chain is counted or about to be
(`Sealed`), so that an edit, which is refused once the count is above 0, finds
nothing on the chain. Its steps are sorted by `Turns` (a request under way moves) and
`Arrives` (one comes in).

`ScoreIsCurrentHolds` rests on what the update under way has read: it is the count, or
a later update is noted (`ScoreInv`). `CountsAddUpHolds` has one account per table
(`VoteInv`, `CommentInv`, `TallyInv`): what the rows add up to is the counter and what
requests between their two writes have still to bring it. A step moves one row and
one request, so the lemmas about it (`VoteSumMoves`, `OnItsWayMoves`, `CommentSizes`,
`TallyMoves`) count sets that differ in one element.

`MlsSessionProofs`: `StatesOnChainHolds`, `NoKeyAfterEvictionHolds`,
`EpochsLeftAreKeptHolds`, `AuthorsBelongHolds`. A device may stand in three places, its
session, its saved copy and a reconcile under way; each is a piece of the accepted
chain with the device's leaf in its last tree (`StateOK`). POST commit compares nothing
but epochs. That an accepted Commit extends the chain it was built on needs all but
its last entry to be on the chain (`OpOK`); and a leaf of a join is in no tree before
it is accepted, so a joining state has left no epoch whose key it could lack. An epoch
that was announced has its key stored, or is one the store refused (`unsaved`), and
what is stored is never replaced.

`ChatDeliveryProofs`: `KeptSomewhereHolds`, `CursorsAdvanceHolds`, `UnreadIsKeptHolds`,
`ReadIsClearedHolds`, `MarksAreReadHolds`. Every mark on its way and every cursor is the
millisecond of a row its device has read, a message it decrypted or a system row
(`Marked`), and a sweep's time is one that has been: so a sweep that finds a message
covered by a cursor finds a row as new among those the device has read. The purge drops
a live copy only beside an archive row, and an archive row goes only when its window
has passed (`Outlived`), which it then has for good.

`ChatMediaProofs`:

- of `ChatMedia`, `StoredIsIndexedHolds` and `SentIsReadableHolds`. A row goes in three
  ways, and `MediaInv` holds for each the reason why no object is behind it; an upload
  under way is too young for any sweep (`SweptIsOver`); what an unclaimed pass works on
  it has picked, and nobody had claimed it then.
- of `ChatArchive`, `OutlivedByIntervalHolds`: what a finished sweep leaves was in the
  window when it was scheduled, inserts on their way are of the current tick, and some
  instance has swept within the interval (`SweepInv`).
- of `ChatArchive`, `NothingSkippedHolds`: `ArchiveSpec => []NothingSkipped`, for any
  number of inserts open together. What a device will pass is decided while it fetches:
  the rows it has fetched are in order and lack none but late ones (`PagesInv`), and
  what commits behind them is late from then on. The length of the opened run
  (`PrefixLength`) counts a set closed downwards.

`SessionsProofs`:

- of `Sessions`, `OnePhoneHolds`, `EndedStaysEndedHolds`, `SeenByGateHolds`,
  `NoSilentTakeoverHolds`. All turn on one step property: while nothing is ended under
  a refresh, a record that is gone stays gone (`GoneStaysGone`), so what a request has
  found dead is dead when it acts on it. A live session is in the index or about to
  be put there (`Reachable`); a sign-in that is alone has listed all that lives
  (`AloneInv`).
- of `CliLogin`, `NoOrphanSessionHolds`, for every interleaving and every fault: a live
  session is in the hands of the poll that issued it, or that poll was given it
  (`HandsInv`). `AnswerIsLiveHolds`, while the lock holds and no save fails: one poll
  is inside (`OneInside`), its copy is what is stored, and a session it has in flight is
  not in the record yet (`CopyInv`), so no other poll has been given it.

With these, every safety invariant and every action property of the runs that pass
is a theorem, but for `NoCircularWait`, which asks what is enabled. Only
model-checked: that one, liveness everywhere (TLAPS proves no liveness under
fairness and knows no ENABLED), the invariants that no run lists and no theorem
names, and the type invariants of `HistoryKeys` (proved as far as its theorems
need it), `PostFeedback` and `TopicMembership` (likewise).

## 5. Where the code disagrees with what it says

Each entry has a property in its module with the sentence it comes from, and a
configuration that makes TLC show it. `topic_ownerless` is one of the runs; the
others are kept beside them (`tlc -config <cfg> <MC module>`): a `...ByHand.cfg`
shows the first of its properties and names, in its comments, what to exchange for
the others.

| configuration | property | what happens |
|---|---|---|
| `TopicOwnerless.cfg` | `AlwaysAnOwner` | leave refuses the creator, a transfer moves the role: the new owner can leave, and nobody owns the topic |
| `TopicByHand.cfg` | `TokenIsSingleUse` | two users read an unused token, both join |
| | `AdminKicksMembers` | a member promoted between the check and the delete is kicked by an admin |
| | `WithdrawnHaveLeft` | a row inserted between the withdrawal's delete and its rename of the id stays: a member nobody can sign in as |
| | `OwnersStay` | withdrawal looks at `topics.creator_id`, a transfer moves the role: the owner can withdraw |
| `MlsSessionByHand.cfg` | `EveryEpochIsKept` | after its own Remove Commit a device never announces the epoch it left, so that epoch's archive key is not derived (`mlsSession.ts:709`) |
| | `KeysAreTheirEpochs` | the epoch is read under one hold of the lock and the key derived under another (`takSession.ts:940`): a catch-up in between stores a key under the wrong epoch |
| | `NoMemberIsEvicted` | a reconcile with a cached member list evicts an account that joined since |
| | `LeaverForgets` | an operation in flight when `forgetTopic` runs writes the state back |
| | `RejoinerGetsIn` | a device whose leaf was evicted restores its old state for ever and never joins again |
| `ChatDeliveryLocked.cfg` | `LockedIsKept` | reading a newer message acknowledges an older one the device could not decrypt |
| `ChatMediaByHand.cfg` | `EveryObjectIndexed` | a PUT that fails only in its answer leaves an object without a row |
| | `ClaimedIsKept` | a claim between a sweep's select and its delete does not save the object |
| | `RetryFindsItsUpload` | a retry after the grace window names a collected object |
| `ChatArchiveByHand.cfg` | `NoRowIsSkipped` | two inserts commit in the other order of their timestamps; a reader passes one of them |
| | `ExpiredStaysGone` | members put back a row the retention sweep removed |
| `CliLoginByHand.cfg` | `RetryIsLive` | a poll revokes the session it has already saved, and a retry is given it |
| | `NoDuplicateSession` | a save that was checked before the lock lapsed overwrites the record |
| | `CancelledLeavesNothing` | a cancellation reads the record before the session is in it |
| `SessionsByHand.cfg` | `NewPhoneEndsOld` | two phones pass the gate before either session exists |
| | `SignOutEnds` | a refresh verified before a sign-out writes the record again |
| | `NoFalseAlarm` | a refresh replaces the device id, and the phone is told of itself |
| | `IndexNamesLive` | the index lapses while its sessions are kept alive |
| `HistoryKeysByHand.cfg` | `EveryEpochIsHeld` | a member that ends an epoch with its own Remove Commit takes no key of it |
| | `HeldIsListed` | a recovery replaces the manifest by the backup's list: keys the device held drop out of the next upload |
| | `RecoveryOpens` | a device that has not recovered yet uploads first, sealed under its own master key; the recovery code opens nothing |
| | `WaitingHasAHolder` | the app stops between an accepted claim and storing the root: everybody waits for a root nobody has |
| | `HeldKeysArrive` | a grant is one bundle, filed under its oldest epoch; while another member's with the same oldest epoch waits it is dropped, however many keys more it holds, and its sender has ticked the leaf off |
| `PostFeedbackByHand.cfg` | `OneRowPerUser` | two choices of one user each delete the other rows, then insert |
| | `RecordLocks` | an edit that saw no record is written after the content went on chain |

## 6. What is not modelled

- Cryptography: ts-mls, sealing, fingerprints and signatures are external. A group
  state is the list of Commits it came from, a key is the epoch it came from.
- Redis that fails in `Sessions`: the code degrades to no takeover rule then.
- In `TopicMembership`: the proof of a gated topic (checked before the writes, it
  only refuses), direct messages and the personal space, a change of the topic's
  visibility, and what a withdrawal does to bookmarks, to the personal space and to
  stored objects. No route files a join request at this commit; `Init` takes rows
  that are there.
- In `MlsSession`: the limit of eight conflicts in a row (it ends an operation that
  the next visit starts again), key packages (devices join by external Commit),
  `applyCommit` (no caller outside tests).
- In `ChatDelivery`: `notice` rows, which only a person's own space has: sealed like a
  message, of one account, and not decrypted by the web client.
- In `ChatArchive`: the size of a page (rows are read one by one, which allows
  every page boundary).
- In `HistoryKeys`: the history file that goes with an invite link (exported and
  imported by hand), the probe of the oldest row that decides whether a root may
  be minted (the model starts from topics without one), the stash of bundles for
  topics a device is not in yet, the passphrase and the master-key row
  (`keys/backup` is only its outcome: the device that minted it), the 30 days of an
  automatic grant (`Window` is the set of epochs they cover).
- In `PostFeedback`: multiple-choice polls, reactions, bookmarks and pins (one row
  each, no counter beside it), a PATCH that adds or removes the poll (no property
  speaks of a poll that is not there), the right to act on a post, the age of a post
  and the daily limit of a recorder.
- Left whole: key packages (devices join by external Commit), read cursors, the
  live stream and presence, topics, direct messages and blinding, sign-in proofs
  and the relay, API keys, push, rate limits, uploads, and the SDK, CLI and MCP
  clients.
- Most of the repository's lines, then: the models stand for about five percent of
  them. The largest files are screens (`ChatRoomScreen.tsx`, `ChatPanel.tsx`,
  `PostDetailScreen.tsx`), whose control is the loops modelled above and whose rest is
  rendering; then come clients, validation, documentation pages and prompts. What
  is ordered, shared or persisted is what the modules above model.
- Parts that are one statement, one transaction or pure input and output; each
  is listed in `PROJECT.json` with its reason.

## 7. Plan

1. (done) `DeliveryService` and `CommitChain` with their proofs; `ArchiveHolder`;
   `MlsSession`; the chat stores; membership; the two login protocols.
2. (done) The bundle mailbox, the archive root, key requests and grants and the
   backups, composed in `HistoryKeys`; `PostFeedback`; public topics and account
   withdrawal in `TopicMembership`; the proofs of all of them.
3. Compose: an abstract archive (what a member can eventually read) that
   `ChatArchive` implements (`ChatDelivery` has the part of it that a message's two
   copies turn on: the archive row and its window); `MlsSession` under `EpochGrants`
   in the place of its external group.
4. Prove: `AtMostOneOwner`, which no run lists; the step
   simulation of the archive of item 3, once it is stated.
5. `KeyPackages`: single use and device joins; read cursors against deletion.
