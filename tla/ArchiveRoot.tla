---------------------------- MODULE ArchiveRoot ----------------------------
(***************************************************************************)
(* How the devices of a topic agree on the one archive root of a DM or a   *)
(* public topic and hand it to each other: resolveRoot, claimRoot,         *)
(* distributeRoot and ingestBundles of src/packages/mls/src/takSession.ts, *)
(* with the routes tak/root-fingerprint and archive/root.  In a DM the     *)
(* server keeps a fingerprint and the root only travels in bundles; in a   *)
(* public topic it keeps the root itself.                                  *)
(*                                                                         *)
(* A root is the number of the mint it came from.  Init is a topic no      *)
(* device has a root for; it may have rows from before topics had roots,   *)
(* sealed under a key of that time (Legacy).  That the stored roots are    *)
(* then all the published one (OneRoot) is why the probe of the oldest row *)
(* is left out: its two callers ask it only about a root of which nothing  *)
(* was published.                                                          *)
(***************************************************************************)
EXTENDS TakMailbox

CONSTANTS
  Legacy,      \* a key of the per-epoch era
  MaxMints     \* bound: roots that are minted

ASSUME LegacyIsNoRoot == Legacy \notin Nat /\ Legacy # None
ASSUME MintBound == MaxMints \in Nat

VARIABLES
  fingerprint, \* topics.archive_root_fingerprint
  deposited,   \* topic_archive_roots.root_key
  sealed,      \* the keys the topic's archive rows are sealed under
  stored,      \* device -> the root in its secure store
  cached,      \* device -> its settled resolution
  flight,      \* device -> the resolution on its way (rootPromises)
  sent,        \* device -> lastDistributedEpoch
  kept,        \* account -> the root in its keychain backup
  mints

rootVars == <<fingerprint, deposited, sealed, stored, cached, flight, sent, kept, mints>>
memory == <<cached, flight, sent>>
arVars == <<roomVars, faults, rootVars>>

Root    == 1..MaxMints
MaybeRoot == Root \cup {None}
Settled == [state : {"verified", "waiting", "orphan"}, key : MaybeRoot]
Unasked == [state |-> "none", key |-> None]
Landed  == [at |-> "none", local |-> None, root |-> None]
Flight  == [at : {"none", "asking", "claiming", "won", "lost"},
            local : MaybeRoot, root : MaybeRoot]

\* usesSingleRoot, serverMayHoldKey
SingleRoot  == tier \in {"dm", "public"}
ServerHolds == tier = "public"

\* What the devices agree against: the server's root, or its fingerprint.
Official == IF ServerHolds THEN deposited ELSE fingerprint

Verified(d) == cached[d].state = "verified"

Settle(d, state, key) ==
  /\ cached' = [cached EXCEPT ![d] = [state |-> state, key |-> key]]
  /\ flight' = [flight EXCEPT ![d] = Landed]

\* The check failed: nothing is cached.  When it was made to distribute, the
\* epoch is noted although nothing was sent.
Unverified(d) ==
  /\ flight' = [flight EXCEPT ![d] = Landed]
  /\ \/ UNCHANGED sent
     \/ d \in leaves /\ sent' = [sent EXCEPT ![d] = epoch]

RootInit ==
  /\ fingerprint = None /\ deposited = None
  /\ sealed \in IF SingleRoot THEN {{}, {Legacy}} ELSE {{}}
  /\ stored = [d \in Device |-> None]
  /\ cached = [d \in Device |-> Unasked]
  /\ flight = [d \in Device |-> Landed]
  /\ sent = [d \in Device |-> None]
  /\ kept = [a \in Account |-> None]
  /\ mints = 0

ARInit == RoomInit /\ RootInit

-----------------------------------------------------------------------------
\* resolveRoot with nothing cached.  A stored root of a public topic is taken
\* without asking.
Resolve(d) ==
  /\ SingleRoot /\ d \in leaves
  /\ cached[d] = Unasked /\ flight[d] = Landed
  /\ IF ServerHolds /\ stored[d] # None
     THEN Settle(d, "verified", stored[d])
     ELSE /\ flight' = [flight EXCEPT ![d] = [Landed EXCEPT !.at = "asking",
                                                            !.local = stored[d]]]
          /\ UNCHANGED cached
  /\ UNCHANGED <<roomVars, fingerprint, deposited, sealed, stored, sent, kept, mints, faults>>

\* The server names a root: a public topic's is stored; a DM's is compared.
Compare(d) ==
  /\ flight[d].at = "asking" /\ Official # None
  /\ IF ServerHolds
     THEN Settle(d, "verified", Official) /\ stored' = [stored EXCEPT ![d] = Official]
     ELSE /\ Settle(d, IF flight[d].local = Official THEN "verified"
                       ELSE IF flight[d].local = None THEN "waiting" ELSE "orphan",
                    flight[d].local)
          /\ UNCHANGED stored
  /\ UNCHANGED <<roomVars, fingerprint, deposited, sealed, sent, kept, mints, faults>>

\* It names none: claim the root held, or mint one.
Mint(d) ==
  /\ flight[d].at = "asking" /\ Official = None
  /\ IF flight[d].local # None
     THEN /\ flight' = [flight EXCEPT ![d].at = "claiming", ![d].root = flight[d].local]
          /\ UNCHANGED mints
     ELSE /\ mints < MaxMints
          /\ mints' = mints + 1
          /\ flight' = [flight EXCEPT ![d].at = "claiming", ![d].root = mints + 1]
  /\ UNCHANGED <<roomVars, fingerprint, deposited, sealed, stored, cached, sent, kept, faults>>

\* Mutant of Accepts: the fingerprint is written over any value.
AcceptsAny(root) == TRUE

\* claimArchiveRootFingerprint over NULL; the first deposit of a public topic
\* is refused once its archive has rows.
Accepts(root) ==
  \/ Official = root
  \/ Official = None /\ (ServerHolds => sealed = {})

Publish(root) ==
  IF ServerHolds THEN deposited' = root /\ UNCHANGED fingerprint
                 ELSE fingerprint' = root /\ UNCHANGED deposited

\* PUT tak/root-fingerprint or PUT archive/root, answered.  A public topic's is
\* looked for before it is inserted: when another came between, the row's key
\* refuses it and the route fails.
Claim(d) ==
  /\ flight[d].at = "claiming"
  /\ \/ /\ Accepts(flight[d].root) /\ Publish(flight[d].root)
        /\ flight' = [flight EXCEPT ![d].at = "won"]
        /\ UNCHANGED sent
     \/ /\ ~Accepts(flight[d].root)
        /\ flight' = [flight EXCEPT ![d].at = "lost"]
        /\ UNCHANGED <<fingerprint, deposited, sent>>
     \/ /\ ServerHolds /\ Official # None
        /\ Unverified(d)
        /\ UNCHANGED <<fingerprint, deposited>>
  /\ UNCHANGED <<roomVars, sealed, stored, cached, kept, mints, faults>>

\* The claim stands: the root is stored, after it was published.
Persist(d) ==
  /\ flight[d].at = "won"
  /\ stored' = [stored EXCEPT ![d] = flight[d].root]
  /\ Settle(d, "verified", flight[d].root)
  /\ UNCHANGED <<roomVars, fingerprint, deposited, sealed, sent, kept, mints, faults>>

\* The claim lost: a minted root is dropped, a stored one kept to read with; a
\* public topic's winner is fetched.
Yield(d) ==
  /\ flight[d].at = "lost"
  /\ \/ /\ ~ServerHolds
        /\ Settle(d, IF flight[d].local = None THEN "waiting" ELSE "orphan", flight[d].local)
        /\ UNCHANGED <<stored, sent>>
     \/ /\ ServerHolds /\ Official # None
        /\ stored' = [stored EXCEPT ![d] = Official]
        /\ Settle(d, "verified", Official)
        /\ UNCHANGED sent
     \/ /\ ServerHolds /\ Official = None
        /\ Unverified(d)
        /\ UNCHANGED <<stored, cached>>
  /\ UNCHANGED <<roomVars, fingerprint, deposited, sealed, kept, mints, faults>>

\* A request of the resolution fails, before or after the server acted on it; a
\* root that was only minted is gone with it.
Fail(d) ==
  /\ flight[d].at \in {"asking", "claiming", "lost"}
  /\ Fault(d)
  /\ Unverified(d)
  /\ \/ UNCHANGED <<fingerprint, deposited>>
     \/ /\ flight[d].at = "claiming" /\ Accepts(flight[d].root)
        /\ Publish(flight[d].root)
  /\ UNCHANGED <<roomVars, sealed, stored, cached, kept, mints>>

\* 15 seconds on, or forgetUnsettledRoot: an unsettled answer is asked again.
Expire(d) ==
  /\ cached[d].state \in {"waiting", "orphan"}
  /\ cached' = [cached EXCEPT ![d] = Unasked]
  /\ UNCHANGED <<roomVars, fingerprint, deposited, sealed, stored, flight, sent, kept, mints, faults>>

\* The app restarts between any two steps.
Restart(d) ==
  /\ <<cached[d], flight[d], sent[d]>> # <<Unasked, Landed, None>>
  /\ Fault(d)
  /\ cached' = [cached EXCEPT ![d] = Unasked]
  /\ flight' = [flight EXCEPT ![d] = Landed]
  /\ sent' = [sent EXCEPT ![d] = None]
  /\ UNCHANGED <<roomVars, fingerprint, deposited, sealed, stored, kept, mints>>

-----------------------------------------------------------------------------
\* archiveOnSend: only a verified root seals.
SealRow(d) ==
  /\ d \in leaves /\ Verified(d)
  /\ sealed' = sealed \cup {cached[d].key}
  /\ UNCHANGED <<roomVars, fingerprint, deposited, stored, memory, kept, mints, faults>>

\* POST tak/holder of a public topic presents the verified root's fingerprint.
NameRoot(d) ==
  /\ ServerHolds /\ d \in leaves /\ Verified(d)
  /\ fingerprint = None
  /\ fingerprint' = cached[d].key
  /\ UNCHANGED <<roomVars, deposited, sealed, stored, memory, kept, mints, faults>>

RootBundles(d) == {[to |-> e, scope |-> "full", body |-> {cached[d].key}] : e \in leaves}

\* Mutant of Distribute: every device is served once, at the first epoch.
DistributeOnce(d) ==
  /\ d \in leaves /\ sent[d] = None
  /\ Verified(d)
  /\ Deposit(RootBundles(d), FALSE)
  /\ sent' = [sent EXCEPT ![d] = epoch]
  /\ UNCHANGED <<tier, leaves, epoch, fingerprint, deposited, sealed, stored, cached, flight, kept, mints, faults>>

\* distributeRootWhenGroupChanged: once for each epoch, whatever it sent; a
\* bundle that is refused ends it, and the epoch is not noted.
Distribute(d) ==
  /\ d \in leaves /\ sent[d] # epoch
  /\ cached[d] # Unasked
  /\ \E done \in SUBSET IF Verified(d) THEN RootBundles(d) ELSE {} :
       /\ Deposit(done, FALSE)
       /\ \/ /\ Verified(d) => done = RootBundles(d)
             /\ sent' = [sent EXCEPT ![d] = epoch]
             /\ UNCHANGED faults
          \/ /\ Verified(d) /\ done # RootBundles(d) /\ Fault(d)
             /\ UNCHANGED sent
  /\ UNCHANGED <<tier, leaves, epoch, fingerprint, deposited, sealed, stored, cached, flight, kept, mints>>

\* shouldAdoptRoot
ShouldAdopt(d, root) ==
  /\ stored[d] # root
  /\ IF fingerprint # None THEN root = fingerprint ELSE stored[d] = None

\* ingestBundles, one row: a root that is adopted replaces the stored one.
IngestRoot(d, b) ==
  /\ SingleRoot /\ d \in leaves /\ b \in Addressed(d)
  /\ \E root \in b.body :
       IF ShouldAdopt(d, root)
       THEN /\ stored' = [stored EXCEPT ![d] = root]
            /\ cached' = [cached EXCEPT ![d] = Unasked]
            /\ Acknowledge(b, TRUE)
       ELSE /\ UNCHANGED <<stored, cached>>
            /\ Acknowledge(b, FALSE)
  /\ UNCHANGED <<tier, leaves, epoch, fingerprint, deposited, sealed, flight, sent, kept, mints, faults>>

\* exportKeychain: a root that is known to be an orphan stays out of the backup.
BackupRoot(d) ==
  LET root == stored[d] IN
  /\ root # None /\ fingerprint \in {None, root}
  /\ kept[OwnerOf[d]] = None
  /\ kept' = [kept EXCEPT ![OwnerOf[d]] = root]
  /\ UNCHANGED <<roomVars, fingerprint, deposited, sealed, stored, memory, mints, faults>>

\* importKeychain: the backup's root over the stored one, and what was concluded
\* with the old one is forgotten.
ImportRoot(d) ==
  LET root == kept[OwnerOf[d]] IN
  /\ root # None /\ stored[d] = None
  /\ stored' = [stored EXCEPT ![d] = root]
  /\ cached' = [cached EXCEPT ![d] = Unasked]
  /\ UNCHANGED <<roomVars, fingerprint, deposited, sealed, flight, sent, kept, mints, faults>>

-----------------------------------------------------------------------------
RootStep(d) ==
  \/ Resolve(d) \/ Compare(d) \/ Mint(d) \/ Claim(d) \/ Persist(d) \/ Yield(d)
  \/ Fail(d) \/ Expire(d) \/ Restart(d) \/ SealRow(d) \/ NameRoot(d) \/ Distribute(d)
  \/ (\E b \in mailbox : IngestRoot(d, b))
  \/ BackupRoot(d) \/ ImportRoot(d)

\* Another device opens the conversation.
JoinRoot(d) == SingleRoot /\ JoinGroup(d) /\ UNCHANGED rootVars

ARNext == \E d \in Device : RootStep(d) \/ JoinRoot(d)

ARSpec == ARInit /\ [][ARNext]_arVars

\* What devices do on their own: the room's tick resolves, hands out and picks
\* up, and requests are answered.
RootProgress(d) ==
  Resolve(d) \/ Compare(d) \/ Mint(d) \/ Claim(d) \/ Persist(d) \/ Yield(d) \/ Expire(d)

ARFair ==
  \A d \in Device :
    /\ WF_arVars(RootProgress(d)) /\ SF_arVars(Distribute(d))
    /\ WF_arVars(\E b \in mailbox : IngestRoot(d, b))

-----------------------------------------------------------------------------
\* Type correctness.
ARTypeOK ==
  /\ fingerprint \in MaybeRoot /\ deposited \in MaybeRoot
  /\ sealed \subseteq Root \cup {Legacy}
  /\ stored \in [Device -> MaybeRoot]
  /\ cached \in [Device -> Settled \cup {Unasked}]
  /\ flight \in [Device -> Flight]
  /\ sent \in [Device -> Epochs \cup {None}]
  /\ kept \in [Account -> MaybeRoot]
  /\ mints \in 0..MaxMints

\* One conversation, one root: whatever races for the first claim, every root a
\* device stores, would seal under, has in its backup or finds in its mailbox, and
\* every key a row was sealed under since, is the one the server vouches for.
OneRoot ==
  /\ \A d \in Device : /\ stored[d] \in {None, Official}
                       /\ Verified(d) => cached[d].key = Official /\ Official # None
  /\ \A a \in Account : kept[a] \in {None, Official}
  /\ \A b \in mailbox : SingleRoot => b.body = {Official} /\ Official # None
  /\ sealed \subseteq {Legacy, Official}
  /\ fingerprint \in {None, Official}

Somewhere(root) ==
  \/ \E d \in Device : stored[d] = root \/ (flight[d].at = "won" /\ flight[d].root = root)
  \/ \E b \in mailbox : b.body = {root}
  \/ \E a \in Account : kept[a] = root
  \/ deposited = root

\* A published root is held by somebody, so that a waiting device waits for
\* something, as long as no request is lost and no app stops.
RootIsHeld == faults = 0 /\ Official # None => Somewhere(Official)

\* Every device in the group gets the published root in the end, as long as no
\* request is lost and no app stops.
RootArrives ==
  \A d \in Device :
    (d \in leaves /\ Official # None) ~> (stored[d] = Official \/ faults > 0)

\* computePeerRoot, takSession.ts: "fingerprint published, we hold nothing ->
\* waiting. The root is on the peer's devices and arrives as a TAK bundle."
WaitingHasAHolder == Official # None => Somewhere(Official)
=============================================================================
