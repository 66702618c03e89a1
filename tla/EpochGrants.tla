---------------------------- MODULE EpochGrants ----------------------------
(***************************************************************************)
(* How a private or secret topic shares its past: every epoch's archive    *)
(* rows are sealed under that epoch's key, a device derives the key while  *)
(* it stands in the epoch, and members wrap the keys they hold to the      *)
(* leaves that lack them.  The listener of the constructor,                *)
(* grantPrivateHistory, grantMissingTo, grantScoped and ingestBundles of   *)
(* packages/mls/src/takSession.ts; the screens' tick and their asks        *)
(* (ChatRoomScreen.tsx, ChatPanel.tsx); the requests of keyRequestStore.ts *)
(* and the routes keys/request and keys/grant.                             *)
(*                                                                         *)
(* Time is not modelled: Window is the set of epochs whose rows are less   *)
(* than the 30 days old an automatic grant covers.                         *)
(***************************************************************************)
EXTENDS KeychainBackup, FiniteSetsExt

CONSTANTS
  TopicOwner,  \* the account that owns the topic
  Asker,       \* bound of a tier: devices whose people ask for keys
  Window

ASSUME GrantConstants == TopicOwner \in Account /\ Window \subseteq Nat

VARIABLES
  view,        \* device -> the epoch its group state stands in
  was,         \* device -> the epochs it has been a member in
  missed,      \* device -> epochs it ended itself with no key taken
  rows,        \* epochs that have archive rows
  granted,     \* device -> grantedLeaves, the leaves it has sent to
  job,         \* device -> the grant it is working on
  request      \* device -> its row of key_requests

grantVars == <<view, was, missed, rows, granted, job, request>>
egVars == <<roomVars, faults, keychainVars, grantVars>>

Everybody == "everybody"
Idle   == [at |-> "idle", keys |-> {}, for |-> Everybody]
Silent == [state |-> "none", have |-> None]

PerEpoch == tier \in {"private", "secret"}

GrantInit ==
  /\ view = [d \in Device |-> IF d \in leaves THEN 0 ELSE None]
  /\ was = [d \in Device |-> IF d \in leaves THEN {0} ELSE {}]
  /\ missed = [d \in Device |-> {}]
  /\ rows = {}
  /\ granted = [d \in Device |-> {}]
  /\ job = [d \in Device |-> Idle]
  /\ request = [d \in Device |-> Silent]

EGInit == RoomInit /\ KeychainInit /\ GrantInit

\* The epochs d's group state goes through on its way to the newest, the one it
\* stands in first.
Ahead(d) == IF view[d] = epoch THEN {} ELSE view[d]..epoch

\* Every leaf of the new epoch has been a member in it.
Enrol(members) ==
  was' = [d \in Device |-> was[d] \cup (IF d \in members THEN {epoch + 1} ELSE {})]

-----------------------------------------------------------------------------
\* A device joins; it stands in the epoch its Commit made.
Join(d) ==
  /\ PerEpoch
  /\ was[d] = {}
  /\ JoinGroup(d)
  /\ view' = [view EXCEPT ![d] = epoch + 1]
  /\ Enrol(leaves \cup {d})
  /\ UNCHANGED <<keychainVars, missed, rows, granted, job, request>>

\* Mutant of Passed: only the key of the epoch it arrives in.
PassedNewest(d) == {epoch}

\* The keys a catch-up is to take (announceEpoch): of the epoch it leaves and of
\* each one it comes through.
Passed(d) == Ahead(d)

\* reconcileMembership by d: it catches up, which takes the keys it passes, and
\* then moves with its own Commit, which takes none.  (A catch-up whose keys are
\* refused is a Sync before it.)
Evict(d, a) ==
  /\ PerEpoch
  /\ d \in leaves /\ OwnerOf[d] # a
  /\ LeaveGroup(a)
  /\ Hold(d, Passed(d))
  /\ missed' = [missed EXCEPT ![d] = @ \cup ({epoch} \ held'[d])]
  /\ view' = [view EXCEPT ![d] = epoch + 1]
  /\ Enrol({e \in leaves : OwnerOf[e] # a})
  /\ UNCHANGED <<refused, master, seal, backup, upload, rows, granted, job, request>>

\* A device applies the Commits it missed, or one that is streamed to it, whether
\* or not the keys on the way could be stored.
Sync(d) ==
  /\ PerEpoch /\ d \in leaves /\ view[d] < epoch
  /\ Listen(d, Passed(d))
  /\ view' = [view EXCEPT ![d] = epoch]
  /\ UNCHANGED <<roomVars, was, missed, rows, granted, job, request>>

\* archiveOnSend: the current epoch's key is cached, and the row sealed under it.
Seal(d) ==
  /\ PerEpoch
  /\ d \in leaves
  /\ rows' = rows \cup {view[d]}
  /\ Learn(d, {view[d]})
  /\ UNCHANGED <<roomVars, view, was, missed, granted, job, request>>

-----------------------------------------------------------------------------
\* Private: every member hands out what it holds; secret: the owner's devices.
AutoGrants(d) == tier = "private" \/ (tier = "secret" /\ OwnerOf[d] = TopicOwner)

\* What a grant of d holds, when it wants those of the rows' epochs.
Grantable(d, wanted) == rows \cap wanted \cap (held[d] \cup {view[d]})

Start(d, keys, for) ==
  /\ keys # {}
  /\ job' = [job EXCEPT ![d] = [at |-> "built", keys |-> keys, for |-> for]]
  /\ Learn(d, {view[d]})
  /\ UNCHANGED <<roomVars, view, was, missed, rows, granted, request>>

\* grantPrivateHistory until its sync: the payload is put together from the keys
\* held before.
Build(d) ==
  /\ d \in leaves /\ AutoGrants(d)
  /\ job[d] = Idle
  /\ leaves \ (granted[d] \cup {d}) # {}
  /\ Start(d, Grantable(d, Window), Everybody)

\* Mutant of AskedFor: the comparison the other way.
AskedAbove(e) == {k \in Epochs : request[e].have = None \/ k >= request[e].have}

\* What lies below the oldest epoch the asker can read.
AskedFor(e) == {k \in Epochs : request[e].have = None \/ k < request[e].have}

\* A member answers a request it is shown (grantMissingTo).
Answer(d, e) ==
  /\ d \in leaves /\ d # e
  /\ job[d] = Idle
  /\ request[e].state = "open"
  /\ Start(d, Grantable(d, AskedFor(e)), e)

\* Mutant of Leaves: the tree as the device knew it.
LeavesKnown(d) == {e \in Device : view[d] \in was[e]}

\* The tree the leaves to wrap to are read from, after a sync.
Leaves(d) == leaves

Recipients(d) ==
  IF job[d].for = Everybody THEN Leaves(d) \ (granted[d] \cup {d})
  ELSE {e \in Leaves(d) : OwnerOf[e] = OwnerOf[job[d].for]}

\* What is left to do after the bundles: mark the request they answer.
Finish(d, done) ==
  IF job[d].for # Everybody /\ done = Recipients(d) /\ done # {}
  THEN [at |-> "mark", keys |-> {}, for |-> job[d].for]
  ELSE Idle

GrantBundles(d, done) ==
  {[to |-> e, scope |-> Min(job[d].keys), body |-> job[d].keys] : e \in done}

\* The rest of a grant: the device syncs, reads the newest tree and posts one
\* bundle after the other; one that is refused ends it.
Post(d) ==
  /\ job[d].at = "built" /\ d \in leaves
  /\ \E done \in SUBSET Recipients(d) :
       /\ done = Recipients(d) \/ MayFail(d)
       /\ faults' = faults + (IF done = Recipients(d) THEN 0 ELSE 1)
       /\ Deposit(GrantBundles(d, done), \E o \in Device \ {d} : job[o].at = "built")
       /\ granted' = [granted EXCEPT ![d] =
            IF job[d].for = Everybody THEN @ \cup done ELSE @]
       /\ job' = [job EXCEPT ![d] = Finish(d, done)]
  /\ Hold(d, Passed(d))
  /\ view' = [view EXCEPT ![d] = epoch]
  /\ UNCHANGED <<tier, leaves, epoch, refused, master, seal, backup, upload, was, missed, rows,
                 request>>

\* POST keys/grant (markGranted).
Mark(d) ==
  /\ job[d].at = "mark"
  /\ request' = [request EXCEPT ![job[d].for].state = IF @ = "open" THEN "granted" ELSE @]
  /\ job' = [job EXCEPT ![d] = Idle]
  /\ UNCHANGED <<roomVars, faults, keychainVars, view, was, missed, rows, granted>>

\* A member that was removed gets no answer any more.
Abandon(d) ==
  /\ d \notin leaves /\ job[d] # Idle
  /\ job' = [job EXCEPT ![d] = Idle]
  /\ UNCHANGED <<roomVars, faults, keychainVars, view, was, missed, rows, granted, request>>

\* askForKeys: offered while rows are locked and no request is known.  An answer
\* that was lost leaves the button; asking again replaces the row.
Ask(d) ==
  /\ d \in leaves \cap Asker[tier]
  /\ rows \ held[d] # {}
  /\ \/ request[d].state = "none" /\ UNCHANGED faults
     \/ request[d].state # "none" /\ Fault(d)
  /\ request' = [request EXCEPT ![d] =
       [state |-> "open", have |-> IF listed[d] = {} THEN None ELSE Min(listed[d])]]
  /\ UNCHANGED <<roomVars, keychainVars, view, was, missed, rows, granted, job>>

\* ingestBundles, one row.
Ingest(d, b) ==
  /\ PerEpoch /\ d \in leaves /\ b \in Addressed(d)
  /\ Learn(d, b.body)
  /\ Acknowledge(b, FALSE)
  /\ UNCHANGED <<tier, leaves, epoch, grantVars>>

\* The app restarts.
RestartApp(d) ==
  /\ granted[d] # {} \/ job[d] # Idle
  /\ Fault(d)
  /\ granted' = [granted EXCEPT ![d] = {}]
  /\ job' = [job EXCEPT ![d] = Idle]
  /\ UNCHANGED <<roomVars, keychainVars, view, was, missed, rows, request>>

\* The keychain's own steps.
Uploads(d) ==
  PerEpoch /\ (ReadBackup(d) \/ WriteBackup(d)) /\ UNCHANGED <<roomVars, faults, grantVars>>

RecoverKeys(d) ==
  PerEpoch /\ Recover(d) /\ UNCHANGED <<roomVars, faults, grantVars>>
-----------------------------------------------------------------------------
GrantStep(d) ==
  \/ Join(d) \/ Sync(d) \/ Seal(d) \/ Build(d) \/ Post(d) \/ Mark(d)
  \/ Abandon(d) \/ Ask(d) \/ RestartApp(d) \/ Uploads(d) \/ RecoverKeys(d)
  \/ \E a \in Account : Evict(d, a)
  \/ \E e \in Device : Answer(d, e)
  \/ \E b \in mailbox : Ingest(d, b)

EGNext == \E d \in Device : GrantStep(d)

EGSpec == EGInit /\ [][EGNext]_egVars

\* What devices do on their own: the uploader runs when a key is written and at
\* the start of every session, and the phone's retries until it has landed.
UploadFair == \A d \in Device : WF_egVars(Uploads(d))

\* The room's tick gives and takes, and a grant that was begun goes on.  People
\* may ask, and may answer.
TickFair ==
  \A d \in Device :
    /\ WF_egVars(Sync(d)) /\ SF_egVars(Build(d))
    /\ WF_egVars(Post(d) \/ Mark(d) \/ Abandon(d))
    /\ WF_egVars(\E b \in mailbox : Ingest(d, b))

-----------------------------------------------------------------------------
\* Type correctness.
EGTypeOK ==
  /\ KeychainTypeOK
  /\ view \in [Device -> Epochs \cup {None}]
  /\ was \in [Device -> SUBSET Epochs]
  /\ missed \in [Device -> SUBSET Epochs]
  /\ rows \subseteq Epochs
  /\ granted \in [Device -> SUBSET Device]
  /\ \A d \in Device :
       /\ job[d].at \in {"idle", "built", "mark"}
       /\ job[d].keys \subseteq Epochs
       /\ job[d].for \in Device \cup {Everybody}
       /\ request[d].state \in {"none", "open", "granted"}
       /\ request[d].have \in Epochs \cup {None}

\* The keys a device has, or will have once it takes in its mail.
InReach(d) == held[d] \cup UNION {b.body : b \in Addressed(d)}

\* May a device of account a have the key of epoch k: was one of them a member then
\* or later?
Entitled(a, k) == \E e \in Device : OwnerOf[e] = a /\ \E m \in was[e] : k <= m

\* An account that was removed gets no key of an epoch after its removal: from no
\* member, whatever was on its way when it was removed, and from no backup.
NoLaterKey ==
  PerEpoch => \A d \in Device : \A k \in InReach(d) : Entitled(OwnerOf[d], k)

\* A device keeps the key of every epoch it goes through, however many Commits
\* it missed, unless it ended the epoch with a Commit of its own, or its own
\* store refused that very key when it was last announced.
PassedEpochsAreHeld ==
  \A d \in Device :
    {e \in was[d] : e < view[d]} \subseteq held[d] \cup missed[d] \cup refused[d]

\* The constructor's listener, takSession.ts: "TAKE THE KEY FOR EVERY EPOCH THIS
\* DEVICE PASSES THROUGH."
EveryEpochIsHeld ==
  \A d \in Device : {e \in was[d] : e < view[d]} \subseteq held[d]

\* A request marked granted has brought the asker, or is bringing it, a key it
\* asked for, as long as nobody had to ask twice.
GrantCoversAsk ==
  \A d \in leaves :
    request[d].state = "granted" /\ faults = 0 =>
      \E k \in InReach(d) : request[d].have = None \/ k < request[d].have

Oldest(k) == k \in rows \cap Window /\ \A r \in rows \cap Window : k <= r

\* The oldest key a member can hand out reaches every device it has not sent to:
\* the mailbox keeps one bundle of a scope, and the scope is the oldest epoch.
OldestKeyArrives ==
  \A d, g \in Device, k \in AllEpochs :
    (/\ d # g /\ {d, g} \subseteq leaves /\ AutoGrants(g)
     /\ d \notin granted[g] /\ job[g] = Idle
     /\ Oldest(k) /\ k \in Grantable(g, Window))
      ~> (k \in held[d] \/ ~Oldest(k) \/ ~({d, g} \subseteq leaves) \/ faults > 0)

\* takSession.ts, grantPrivateHistory: "hand the epoch TAKs this member holds to
\* every current member leaf it hasn't granted yet".
HeldKeysArrive ==
  \A d, g \in Device, k \in AllEpochs :
    (/\ d # g /\ {d, g} \subseteq leaves /\ AutoGrants(g)
     /\ d \notin granted[g] /\ job[g] = Idle /\ k \in Grantable(g, Window))
      ~> (k \in held[d] \/ ~({d, g} \subseteq leaves) \/ faults > 0)
=============================================================================
