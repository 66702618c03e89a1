------------------------- MODULE HistoryKeysProofs -------------------------
(***************************************************************************)
(* Proofs about HistoryKeys, for every set of devices, accounts and tiers  *)
(* and every bound.                                                        *)
(*                                                                         *)
(* OneRoot speaks of roots that have come to rest.  It is not inductive:   *)
(* what a claim in flight will store is decided before it is stored.       *)
(* Agreed adds the flights: a device works on the root it holds, and one   *)
(* whose claim was accepted has the published root in its hand.  Both rest *)
(* on the claim being a compare-and-set over NULL: the official root never *)
(* changes once there is one (OfficialStep).                               *)
(***************************************************************************)
EXTENDS HistoryKeys, WellFoundedInduction, TLAPS

RootTyped ==
  /\ fingerprint \in MaybeRoot /\ deposited \in MaybeRoot
  /\ stored \in [Device -> MaybeRoot]
  /\ cached \in [Device -> Settled \cup {Unasked}]
  /\ flight \in [Device -> Flight]
  /\ kept \in [Account -> MaybeRoot]
  /\ mints \in 0..MaxMints

FlightAgrees(d) ==
  /\ flight[d].local \in {None, Official}
  /\ flight[d].at \in {"claiming", "won", "lost"} => flight[d].root \in Root
  /\ flight[d].at = "won" => flight[d].root = Official

Agreed ==
  /\ \A d \in Device :
       /\ stored[d] \in {None, Official}
       /\ Verified(d) => cached[d].key = Official /\ Official # None
       /\ FlightAgrees(d)
  /\ \A a \in Account : kept[a] \in {None, Official}
  /\ \A b \in mailbox : SingleRoot => b.body = {Official} /\ Official # None
  /\ sealed \subseteq {Legacy, Official} /\ None \notin sealed
  /\ fingerprint \in {None, Official}

RootInv == RootTyped /\ Agreed

-----------------------------------------------------------------------------
\* A root is not the null, nor a key of the era before.
LEMMA RootIsNotNull == None \notin Root /\ Legacy # None /\ Legacy \notin Root
  BY NoneIsNoNumber, LegacyIsNoRoot, MintBound DEF Root

\* The topic starts with no root anywhere.
LEMMA InitRootInv == Init => RootInv
  <1> SUFFICES ASSUME Init PROVE RootInv
    OBVIOUS
  <1>1. Official = None /\ mailbox = {}
    BY DEF Init, RootInit, RoomInit, Official
  <1>2. RootTyped
    BY MintBound DEF Init, RootInit, RootTyped, MaybeRoot, Unasked, Landed, Flight
  <1>3. ASSUME NEW d \in Device
        PROVE  /\ stored[d] = None /\ ~Verified(d) /\ FlightAgrees(d)
    BY <1>1 DEF Init, RootInit, Verified, Unasked, Landed, FlightAgrees
  <1>4. sealed \subseteq {Legacy, None} /\ None \notin sealed
    BY RootIsNotNull DEF Init, RootInit
  <1> QED BY <1>1, <1>2, <1>3, <1>4 DEF RootInv, Agreed, Init, RootInit

-----------------------------------------------------------------------------
\* An answer settles a resolution with the key it names.
LEMMA SettleTyped ==
  ASSUME RootTyped, NEW d \in Device, NEW key \in MaybeRoot,
         NEW state \in {"verified", "waiting", "orphan"}, Settle(d, state, key)
  PROVE  /\ cached' \in [Device -> Settled \cup {Unasked}]
         /\ cached'[d].state = state /\ cached'[d].key = key
         /\ flight' \in [Device -> Flight]
         /\ flight'[d] = Landed
         /\ \A e \in Device \ {d} : cached'[e] = cached[e] /\ flight'[e] = flight[e]
  <1>1. Landed \in Flight
    BY DEF Landed, Flight, MaybeRoot
  <1>2. [state |-> state, key |-> key] \in Settled
    BY DEF Settled
  <1> QED BY <1>1, <1>2 DEF Settle, RootTyped

\* A step that leaves the server's root alone keeps the invariant if it does so
\* for the one device it is a step of, and for what it adds elsewhere.
LEMMA SameOfficial ==
  ASSUME Agreed, NEW d \in Device,
         UNCHANGED <<fingerprint, deposited, tier>>,
         \A e \in Device \ {d} : /\ stored'[e] = stored[e] /\ cached'[e] = cached[e]
                                 /\ flight'[e] = flight[e],
         stored'[d] \in {None, Official},
         cached'[d].state = "verified" => cached'[d].key = Official /\ Official # None,
         FlightAgrees(d)',
         \A a \in Account : kept'[a] \in {None, Official},
         \A b \in mailbox' : b \in mailbox \/ (b.body = {Official} /\ Official # None),
         \A k \in sealed' : k \in sealed \/ (k = Official /\ Official # None)
  PROVE  Agreed'
  <1>1. Official' = Official /\ (SingleRoot' <=> SingleRoot)
    BY DEF Official, ServerHolds, SingleRoot
  <1>2. ASSUME NEW e \in Device
        PROVE  /\ stored'[e] \in {None, Official'}
               /\ Verified(e)' => cached'[e].key = Official' /\ Official' # None
               /\ FlightAgrees(e)'
    BY <1>1 DEF Agreed, Verified, FlightAgrees
  <1>3. \A b \in mailbox' : SingleRoot' => b.body = {Official'} /\ Official' # None
    BY <1>1 DEF Agreed
  <1>4. sealed' \subseteq {Legacy, Official'} /\ None \notin sealed'
    BY <1>1 DEF Agreed
  <1> QED BY <1>1, <1>2, <1>3, <1>4 DEF Agreed

\* The server's root is set once: whoever writes it found none, or the same.
LEMMA OfficialStep ==
  ASSUME Agreed, NEW root \in Root, Accepts(root), Publish(root), UNCHANGED tier
  PROVE  /\ Official' = root
         /\ Official \in {None, root}
         /\ fingerprint' \in {None, Official'}
  BY DEF Agreed, Accepts, Publish, Official, ServerHolds

\* Publishing keeps the invariant: only flights of the step's own device change.
LEMMA PublishAgrees ==
  ASSUME RootInv, NEW d \in Device, NEW root \in Root,
         Accepts(root), Publish(root),
         flight' \in [Device -> Flight],
         \A e \in Device \ {d} : flight'[e] = flight[e],
         flight'[d].local = flight[d].local \/ flight'[d] = Landed,
         flight'[d].at \in {"claiming", "won", "lost"} => flight'[d].root = root,
         UNCHANGED <<tier, mailbox, stored, cached, kept, sealed, mints>>
  PROVE  RootInv'
  <1>1. /\ Official' = root /\ Official \in {None, root}
        /\ fingerprint' \in {None, Official'}
    BY OfficialStep DEF RootInv
  <1>2. RootTyped'
    BY DEF RootInv, RootTyped, Publish, MaybeRoot
  <1>3. ASSUME NEW e \in Device
        PROVE  /\ stored'[e] \in {None, Official'}
               /\ Verified(e)' => cached'[e].key = Official' /\ Official' # None
    BY <1>1, RootIsNotNull DEF RootInv, Agreed, Verified
  <1>4. ASSUME NEW e \in Device PROVE FlightAgrees(e)'
    <2>1. CASE e # d
      BY <1>1, <2>1, RootIsNotNull DEF RootInv, Agreed, FlightAgrees, RootTyped, Flight
    <2>2. CASE e = d
      BY <1>1, <2>2 DEF RootInv, Agreed, FlightAgrees, Landed
    <2> QED BY <2>1, <2>2
  <1>5. \A b \in mailbox' : SingleRoot' => b.body = {Official'} /\ Official' # None
    BY <1>1 DEF RootInv, Agreed, SingleRoot
  <1>6. sealed' \subseteq {Legacy, Official'} /\ None \notin sealed'
    BY <1>1 DEF RootInv, Agreed
  <1>7. \A a \in Account : kept'[a] \in {None, Official'}
    BY <1>1 DEF RootInv, Agreed
  <1> QED BY <1>1, <1>2, <1>3, <1>4, <1>5, <1>6, <1>7 DEF RootInv, Agreed

\* A resolution: from the first read to the root that is stored.
LEMMA ResolutionStep ==
  ASSUME RootInv, NEW d \in Device,
         \/ Resolve(d) \/ Compare(d) \/ Mint(d) \/ Claim(d) \/ Persist(d)
         \/ Yield(d) \/ Fail(d)
  PROVE  RootInv'
  <1> USE DEF RootInv
  <1>0. /\ Official \in MaybeRoot /\ stored[d] \in MaybeRoot /\ flight[d] \in Flight
        /\ flight[d].local \in MaybeRoot /\ None \in MaybeRoot /\ Landed \in Flight
    BY DEF RootTyped, Official, Flight, MaybeRoot, Landed
  <1>1. CASE Resolve(d)
    <2>1. CASE ServerHolds /\ stored[d] # None
      <3>1. Settle(d, "verified", stored[d])
        BY <1>1, <2>1 DEF Resolve
      <3>2. RootTyped'
        BY <1>0, <1>1, <3>1, SettleTyped DEF Resolve, RootTyped
      <3>3. stored[d] = Official
        BY <2>1 DEF Agreed
      <3>4. Agreed'
        BY <1>0, <1>1, <2>1, <3>1, <3>3, SettleTyped, SameOfficial
           DEF Resolve, Agreed, FlightAgrees, Landed, roomVars
      <3> QED BY <3>2, <3>4
    <2>2. CASE ~(ServerHolds /\ stored[d] # None)
      <3>1. /\ flight' = [flight EXCEPT ![d] = [Landed EXCEPT !.at = "asking", !.local = stored[d]]]
            /\ UNCHANGED <<cached, fingerprint, deposited, sealed, stored, kept, mints, tier, mailbox>>
        BY <1>1, <2>2 DEF Resolve, roomVars
      <3>2. [Landed EXCEPT !.at = "asking", !.local = stored[d]] \in Flight
        BY <1>0 DEF Landed, Flight
      <3>3. RootTyped'
        BY <3>1, <3>2 DEF RootTyped
      <3>4. flight'[d].at = "asking" /\ flight'[d].local = stored[d]
        BY <3>1 DEF RootTyped, Landed
      <3>5. FlightAgrees(d)'
        BY <3>1, <3>4 DEF FlightAgrees, Agreed, Official, ServerHolds
      <3>6. Agreed'
        BY <3>1, <3>5, SameOfficial DEF RootTyped, Agreed, Verified
      <3> QED BY <3>3, <3>6
    <2> QED BY <2>1, <2>2
  <1>2. CASE Compare(d)
    <2>1. PICK state \in {"verified", "waiting", "orphan"}, key \in MaybeRoot :
            /\ Settle(d, state, key)
            /\ state = "verified" => key = Official
      BY <1>0, <1>2 DEF Compare
    <2>2. /\ Official # None /\ stored' \in [Device -> MaybeRoot]
          /\ stored'[d] \in {None, Official}
          /\ \A e \in Device \ {d} : stored'[e] = stored[e]
          /\ UNCHANGED <<fingerprint, deposited, sealed, kept, mints, tier, mailbox>>
      BY <1>0, <1>2 DEF Compare, RootTyped, Agreed, roomVars
    <2>3. RootTyped'
      BY <2>1, <2>2, SettleTyped DEF RootTyped
    <2>4. FlightAgrees(d)'
      BY <2>1, SettleTyped DEF FlightAgrees, Landed
    <2>5. cached'[d].state = "verified" => cached'[d].key = Official
      BY <2>1, SettleTyped
    <2>6. Agreed'
      BY <2>1, <2>2, <2>4, <2>5, SettleTyped, SameOfficial DEF Agreed
    <2> QED BY <2>3, <2>6
  <1>3. CASE Mint(d)
    <2>1. PICK root \in Root :
            flight' = [flight EXCEPT ![d].at = "claiming", ![d].root = root]
      <3>1. CASE flight[d].local # None
        BY <1>0, <1>3, <3>1 DEF Mint, MaybeRoot
      <3>2. CASE flight[d].local = None
        <4>1. mints + 1 \in Root
          BY <1>3, <3>2, MintBound DEF Mint, Root, RootTyped
        <4> QED BY <1>3, <3>2, <4>1 DEF Mint
      <3> QED BY <3>1, <3>2
    <2>2. mints' \in 0..MaxMints
      BY <1>3, MintBound DEF Mint, RootTyped
    <2>3. UNCHANGED <<cached, fingerprint, deposited, sealed, stored, kept, tier, mailbox>>
      BY <1>3 DEF Mint, roomVars
    <2>4. flight' \in [Device -> Flight]
      BY <1>0, <2>1 DEF RootTyped, Flight, MaybeRoot
    <2>5. FlightAgrees(d)'
      BY <1>0, <2>1, <2>3 DEF RootTyped, FlightAgrees, Agreed, Official, ServerHolds, Flight
    <2>6. \A e \in Device \ {d} : flight'[e] = flight[e]
      BY <2>1 DEF RootTyped
    <2>7. Agreed'
      BY <2>3, <2>5, <2>6, SameOfficial DEF Agreed, Verified
    <2> QED BY <2>2, <2>3, <2>4, <2>7 DEF RootTyped
  <1>4. CASE Claim(d)
    <2>0. flight[d].at = "claiming" /\ flight[d].root \in Root
      BY <1>4 DEF Claim, Agreed, FlightAgrees
    <2>1. CASE Accepts(flight[d].root) /\ Publish(flight[d].root) /\ flight' = [flight EXCEPT ![d].at = "won"]
      <3>1. /\ flight' \in [Device -> Flight]
            /\ flight'[d].local = flight[d].local /\ flight'[d].root = flight[d].root
            /\ \A e \in Device \ {d} : flight'[e] = flight[e]
        BY <1>0, <2>1 DEF RootTyped, Flight
      <3>2. UNCHANGED <<tier, mailbox, stored, cached, kept, sealed, mints>>
        BY <1>4 DEF Claim, roomVars
      <3> QED BY <2>0, <2>1, <3>1, <3>2, PublishAgrees
    <2>2. CASE UNCHANGED <<fingerprint, deposited>> /\ flight' = [flight EXCEPT ![d].at = "lost"]
      <3>1. /\ flight' \in [Device -> Flight] /\ flight'[d].at = "lost"
            /\ flight'[d].local = flight[d].local /\ flight'[d].root = flight[d].root
            /\ \A e \in Device \ {d} : flight'[e] = flight[e]
        BY <1>0, <2>2 DEF RootTyped, Flight
      <3>2. UNCHANGED <<tier, mailbox, stored, cached, kept, sealed, mints>>
        BY <1>4 DEF Claim, roomVars
      <3>3. FlightAgrees(d)'
        BY <2>0, <2>2, <3>1, <3>2 DEF FlightAgrees, Agreed, Official, ServerHolds
      <3>4. Agreed'
        BY <2>2, <3>1, <3>2, <3>3, SameOfficial DEF Agreed, Verified
      <3> QED BY <2>2, <3>1, <3>2, <3>4 DEF RootTyped
    <2>3. CASE Unverified(d) /\ UNCHANGED <<fingerprint, deposited>>
      <3>1. /\ flight' \in [Device -> Flight] /\ flight'[d] = Landed
            /\ \A e \in Device \ {d} : flight'[e] = flight[e]
        BY <1>0, <2>3 DEF Unverified, RootTyped
      <3>2. UNCHANGED <<tier, mailbox, stored, cached, kept, sealed, mints>>
        BY <1>4 DEF Claim, roomVars
      <3>3. Agreed'
        BY <2>3, <3>1, <3>2, SameOfficial DEF Agreed, FlightAgrees, Landed, Verified
      <3> QED BY <2>3, <3>1, <3>2, <3>3 DEF RootTyped
    <2> QED BY <1>4, <2>1, <2>2, <2>3 DEF Claim
  <1>5. CASE Persist(d)
    <2>1. flight[d].root \in Root /\ flight[d].root = Official
      BY <1>5 DEF Persist, Agreed, FlightAgrees
    <2>2. /\ stored' \in [Device -> MaybeRoot] /\ stored'[d] = Official
          /\ \A e \in Device \ {d} : stored'[e] = stored[e]
          /\ UNCHANGED <<fingerprint, deposited, sealed, kept, mints, tier, mailbox>>
          /\ Settle(d, "verified", Official)
      BY <1>5, <2>1 DEF Persist, RootTyped, MaybeRoot, roomVars
    <2>3. Official # None
      BY <2>1, RootIsNotNull
    <2>4. RootTyped'
      BY <1>0, <2>2, SettleTyped DEF RootTyped
    <2>5. Agreed'
      BY <1>0, <2>2, <2>3, SettleTyped, SameOfficial DEF Agreed, FlightAgrees, Landed
    <2> QED BY <2>4, <2>5
  <1>6. CASE Yield(d)
    <2>0. UNCHANGED <<fingerprint, deposited, sealed, kept, mints, tier, mailbox>>
      BY <1>6 DEF Yield, roomVars
    <2>1. CASE Settle(d, IF flight[d].local = None THEN "waiting" ELSE "orphan", flight[d].local)
               /\ UNCHANGED stored
      <3>1. PICK state \in {"waiting", "orphan"} : Settle(d, state, flight[d].local)
        BY <2>1
      <3>2. RootTyped'
        BY <1>0, <2>0, <2>1, <3>1, SettleTyped DEF RootTyped
      <3>3. Agreed'
        BY <1>0, <2>0, <2>1, <3>1, SettleTyped, SameOfficial DEF Agreed, FlightAgrees, Landed
      <3> QED BY <3>2, <3>3
    <2>2. CASE /\ Official # None /\ stored' = [stored EXCEPT ![d] = Official]
               /\ Settle(d, "verified", Official)
      <3>1. /\ stored' \in [Device -> MaybeRoot] /\ stored'[d] = Official
            /\ \A e \in Device \ {d} : stored'[e] = stored[e]
        BY <1>0, <2>2 DEF RootTyped
      <3>2. RootTyped'
        BY <1>0, <2>0, <2>2, <3>1, SettleTyped DEF RootTyped
      <3>3. Agreed'
        BY <1>0, <2>0, <2>2, <3>1, SettleTyped, SameOfficial DEF Agreed, FlightAgrees, Landed
      <3> QED BY <3>2, <3>3
    <2>3. CASE Unverified(d) /\ UNCHANGED <<stored, cached>>
      <3>1. /\ flight' \in [Device -> Flight] /\ flight'[d] = Landed
            /\ \A e \in Device \ {d} : flight'[e] = flight[e]
        BY <1>0, <2>3 DEF Unverified, RootTyped
      <3>2. Agreed'
        BY <2>0, <2>3, <3>1, SameOfficial DEF Agreed, FlightAgrees, Landed, Verified
      <3> QED BY <2>0, <2>3, <3>1, <3>2 DEF RootTyped
    <2> QED BY <1>6, <2>1, <2>2, <2>3 DEF Yield
  <1>7. CASE Fail(d)
    <2>1. /\ flight' \in [Device -> Flight] /\ flight'[d] = Landed
          /\ \A e \in Device \ {d} : flight'[e] = flight[e]
          /\ UNCHANGED <<tier, mailbox, stored, cached, kept, sealed, mints>>
      BY <1>0, <1>7 DEF Fail, Unverified, RootTyped, roomVars
    <2>2. CASE UNCHANGED <<fingerprint, deposited>>
      <3>1. Agreed'
        BY <2>1, <2>2, SameOfficial DEF Agreed, FlightAgrees, Landed, Verified
      <3> QED BY <2>1, <2>2, <3>1 DEF RootTyped
    <2>3. CASE flight[d].at = "claiming" /\ Accepts(flight[d].root) /\ Publish(flight[d].root)
      <3>1. flight[d].root \in Root
        BY <2>3 DEF Agreed, FlightAgrees
      <3>2. flight'[d].at \notin {"claiming", "won", "lost"}
        BY <2>1 DEF Landed
      <3> QED BY <2>1, <2>3, <3>1, <3>2, PublishAgrees
    <2> QED BY <1>7, <2>2, <2>3 DEF Fail
  <1> QED BY <1>1, <1>2, <1>3, <1>4, <1>5, <1>6, <1>7

-----------------------------------------------------------------------------
\* The steps that use a settled root, or take one from a bundle or a backup.
LEMMA UseStep ==
  ASSUME RootInv, NEW d \in Device,
         \/ Expire(d) \/ Restart(d) \/ SealRow(d) \/ NameRoot(d) \/ Distribute(d)
         \/ (\E b \in mailbox : IngestRoot(d, b))
         \/ BackupRoot(d) \/ ImportRoot(d)
  PROVE  RootInv'
  <1> USE DEF RootInv
  <1>0. /\ Landed \in Flight /\ Unasked \in Settled \cup {Unasked}
        /\ Unasked.state # "verified"
        /\ Official \in MaybeRoot /\ None \in MaybeRoot
    BY DEF RootTyped, Official, Flight, MaybeRoot, Landed, Unasked
  <1>1. CASE Expire(d)
    <2>1. /\ cached' = [cached EXCEPT ![d] = Unasked]
          /\ UNCHANGED <<tier, mailbox, fingerprint, deposited, sealed, stored, flight, kept, mints>>
      BY <1>1 DEF Expire, roomVars
    <2>2. RootTyped'
      BY <1>0, <2>1 DEF RootTyped
    <2>3. Agreed'
      BY <1>0, <2>1, SameOfficial DEF RootTyped, Agreed, FlightAgrees, Official, ServerHolds
    <2> QED BY <2>2, <2>3
  <1>2. CASE Restart(d)
    <2>1. /\ cached' = [cached EXCEPT ![d] = Unasked]
          /\ flight' = [flight EXCEPT ![d] = Landed]
          /\ UNCHANGED <<tier, mailbox, fingerprint, deposited, sealed, stored, kept, mints>>
      BY <1>2 DEF Restart, roomVars
    <2>2. RootTyped'
      BY <1>0, <2>1 DEF RootTyped
    <2>3. FlightAgrees(d)'
      BY <2>1 DEF RootTyped, FlightAgrees, Landed
    <2>4. Agreed'
      BY <1>0, <2>1, <2>3, SameOfficial DEF RootTyped, Agreed
    <2> QED BY <2>2, <2>4
  <1>3. CASE SealRow(d)
    <2>1. /\ Verified(d) /\ sealed' = sealed \cup {cached[d].key}
          /\ UNCHANGED <<tier, mailbox, fingerprint, deposited, stored, cached, flight, kept, mints>>
      BY <1>3 DEF SealRow, roomVars, memory
    <2>2. RootTyped'
      BY <2>1 DEF RootTyped
    <2>3. Agreed'
      BY <2>1, SameOfficial DEF Agreed, Verified, FlightAgrees, Official, ServerHolds
    <2> QED BY <2>2, <2>3
  <1>4. CASE NameRoot(d)
    <2>1. /\ ServerHolds /\ fingerprint' = cached[d].key
          /\ Verified(d)
          /\ UNCHANGED <<tier, mailbox, deposited, sealed, stored, cached, flight, kept, mints>>
      BY <1>4 DEF NameRoot, roomVars, memory
    <2>2. /\ Official' = Official /\ fingerprint' = Official
      BY <2>1 DEF Official, ServerHolds, Agreed
    <2>3. RootTyped'
      BY <1>0, <2>1, <2>2 DEF RootTyped
    <2>4. Agreed'
      BY <2>1, <2>2 DEF Agreed, Verified, FlightAgrees, SingleRoot
    <2> QED BY <2>3, <2>4
  <1>5. CASE Distribute(d)
    <2>1. UNCHANGED <<tier, fingerprint, deposited, sealed, stored, cached, flight, kept, mints>>
      BY <1>5 DEF Distribute
    <2>2. \A b \in mailbox' : b \in mailbox \/ (b.body = {Official} /\ Official # None)
      BY <1>5 DEF Distribute, Deposit, RootBundles, Agreed
    <2>3. Agreed'
      BY <2>1, <2>2, SameOfficial DEF Agreed, Verified, FlightAgrees, Official, ServerHolds
    <2> QED BY <2>1, <2>3 DEF RootTyped
  <1>6. ASSUME NEW b \in mailbox, IngestRoot(d, b)
        PROVE  RootInv'
    <2>1. /\ mailbox' \subseteq mailbox
          /\ UNCHANGED <<tier, fingerprint, deposited, sealed, flight, kept, mints>>
      BY <1>6 DEF IngestRoot, Acknowledge
    <2>2. b.body = {Official} /\ Official # None
      BY <1>6 DEF IngestRoot, Agreed
    <2>3. \/ /\ stored' = [stored EXCEPT ![d] = Official]
             /\ cached' = [cached EXCEPT ![d] = Unasked]
          \/ UNCHANGED <<stored, cached>>
      BY <1>6, <2>2 DEF IngestRoot
    <2>4. RootTyped'
      BY <1>0, <2>1, <2>3 DEF RootTyped
    <2>5. Agreed'
      BY <1>0, <2>1, <2>3, SameOfficial
         DEF RootTyped, Agreed, Verified, FlightAgrees, Official, ServerHolds
    <2> QED BY <2>4, <2>5
  <1>7. CASE BackupRoot(d)
    <2>1. /\ kept' = [kept EXCEPT ![OwnerOf[d]] = stored[d]]
          /\ UNCHANGED <<tier, mailbox, fingerprint, deposited, sealed, stored, cached, flight, mints>>
      BY <1>7 DEF BackupRoot, roomVars, memory
    <2>2. OwnerOf[d] \in Account /\ stored[d] \in MaybeRoot
      BY OwnerOfType DEF RootTyped
    <2>3. RootTyped'
      BY <2>1, <2>2 DEF RootTyped
    <2>4. \A a \in Account : kept'[a] \in {None, Official}
      BY <2>1 DEF RootTyped, Agreed
    <2>5. Agreed'
      BY <2>1, <2>4, SameOfficial DEF Agreed, Verified, FlightAgrees, Official, ServerHolds
    <2> QED BY <2>3, <2>5
  <1>8. CASE ImportRoot(d)
    <2>1. /\ stored' = [stored EXCEPT ![d] = kept[OwnerOf[d]]]
          /\ cached' = [cached EXCEPT ![d] = Unasked]
          /\ UNCHANGED <<tier, mailbox, fingerprint, deposited, sealed, flight, kept, mints>>
      BY <1>8 DEF ImportRoot, roomVars
    <2>2. kept[OwnerOf[d]] \in MaybeRoot /\ kept[OwnerOf[d]] \in {None, Official}
      BY OwnerOfType DEF RootTyped, Agreed
    <2>3. RootTyped'
      BY <1>0, <2>1, <2>2 DEF RootTyped
    <2>4. Agreed'
      BY <1>0, <2>1, <2>2, SameOfficial DEF RootTyped, Agreed, FlightAgrees, Official, ServerHolds
    <2> QED BY <2>3, <2>4
  <1> QED BY <1>1, <1>2, <1>3, <1>4, <1>5, <1>6, <1>7, <1>8

\* No grant of a private topic changes the tier, and none touches a root.
LEMMA GrantsKeepTier ==
  ASSUME EGNext PROVE tier' = tier
  <1> PICK d \in Device : GrantStep(d)
    BY DEF EGNext
  <1>1. CASE Join(d)
    BY <1>1 DEF Join, JoinGroup
  <1>2. CASE Sync(d) \/ Seal(d) \/ Build(d) \/ (\E e \in Device : Answer(d, e))
    BY <1>2 DEF Sync, Seal, Build, Answer, Start, roomVars
  <1>3. CASE Post(d) \/ Mark(d) \/ Abandon(d) \/ Ask(d) \/ RestartApp(d)
    BY <1>3 DEF Post, Mark, Abandon, Ask, RestartApp, roomVars
  <1>4. CASE Uploads(d) \/ RecoverKeys(d)
    BY <1>4 DEF Uploads, RecoverKeys, roomVars
  <1>5. CASE \E a \in Account : Evict(d, a)
    BY <1>5 DEF Evict, LeaveGroup
  <1>6. CASE \E b \in mailbox : Ingest(d, b)
    BY <1>6 DEF Ingest
  <1> QED BY <1>1, <1>2, <1>3, <1>4, <1>5, <1>6 DEF GrantStep

\* RootInv is inductive over the whole composition.
LEMMA NextRootInv == RootInv /\ [Next]_vars => RootInv'
  <1> SUFFICES ASSUME RootInv, [Next]_vars PROVE RootInv'
    OBVIOUS
  <1>1. CASE SingleRoot /\ ARNext
    <2> PICK d \in Device : RootStep(d) \/ JoinRoot(d)
      BY <1>1 DEF ARNext
    <2>1. CASE RootStep(d)
      BY <2>1, ResolutionStep, UseStep DEF RootStep
    <2>2. CASE JoinRoot(d)
      BY <2>2 DEF JoinRoot, JoinGroup, rootVars, RootInv, RootTyped, Agreed, Verified,
                  FlightAgrees, Official, ServerHolds, SingleRoot
    <2> QED BY <2>1, <2>2
  <1>2. CASE PerEpoch /\ EGNext /\ UNCHANGED rootVars
    <2>1. tier' = tier /\ ~SingleRoot'
      BY <1>2, GrantsKeepTier DEF PerEpoch, SingleRoot
    <2> QED BY <1>2, <2>1 DEF rootVars, RootInv, RootTyped, Agreed, Verified,
                              FlightAgrees, Official, ServerHolds
  <1>3. CASE UNCHANGED vars
    BY <1>3 DEF vars, roomVars, rootVars, RootInv, RootTyped, Agreed, Verified,
                FlightAgrees, Official, ServerHolds, SingleRoot
  <1> QED BY <1>1, <1>2, <1>3 DEF Next

\* One conversation, one root: what devices store, seal under, back up and send is
\* the root the server vouches for, whatever races for the first claim, is lost on
\* the way or restarts (resolveRoot, claimRoot, ingestBundles, takSession.ts).
THEOREM OneRootHolds == Spec => []OneRoot
  <1>1. RootInv => OneRoot
    BY DEF RootInv, Agreed, OneRoot
  <1> QED BY <1>1, InitRootInv, NextRootInv, PTL DEF Spec

-----------------------------------------------------------------------------
\* The second invariant is of the private and secret topics: a member's group
\* state stands in an epoch it was in, none lies in the future, and what it has
\* come through is held.  A device that never joined has been nowhere.
KeysAreFunctions ==
  /\ held = [d \in Device |-> held[d]] /\ missed = [d \in Device |-> missed[d]]
  /\ refused = [d \in Device |-> refused[d]]
  /\ view = [d \in Device |-> view[d]] /\ was = [d \in Device |-> was[d]]

Stands(d) ==
  /\ was[d] \subseteq 0..epoch
  /\ was[d] # {} => view[d] \in 0..epoch
  /\ PerEpoch /\ d \in leaves => view[d] \in 0..epoch

GrantInv ==
  /\ epoch \in Nat
  /\ KeysAreFunctions
  /\ \A d \in Device : Stands(d)
  /\ PassedEpochsAreHeld

\* No key is thrown away, and none is forgotten that was refused.
Grows ==
  /\ \A d \in Device : /\ held[d] \subseteq held'[d] /\ missed[d] \subseteq missed'[d]
                       /\ refused[d] \subseteq held'[d] \cup refused'[d]
  /\ held' = [d \in Device |-> held'[d]] /\ missed' = [d \in Device |-> missed'[d]]
  /\ refused' = [d \in Device |-> refused'[d]]

\* The epochs whose keys a device need not look for.
Accounted(d) == held[d] \cup missed[d] \cup refused[d]

\* The first member holds what it passed: nothing yet.
LEMMA InitGrantInv == Init => GrantInv
  BY NoneIsNoNumber DEF Init, RoomInit, KeychainInit, GrantInit, GrantInv, KeysAreFunctions,
     Stands, PassedEpochsAreHeld, PerEpoch

\* setEpochTak only adds.
LEMMA LearnGrows ==
  ASSUME KeysAreFunctions, NEW d \in Device, NEW keys,
         \/ Hold(d, keys) /\ UNCHANGED refused
         \/ Learn(d, keys),
         UNCHANGED missed
  PROVE  Grows /\ keys \subseteq held'[d]
  <1>1. /\ held' = [held EXCEPT ![d] = @ \cup keys] /\ refused' = refused
    BY DEF Hold, Learn
  <1> QED BY <1>1 DEF KeysAreFunctions, Grows

\* A key that is announced is stored, or was refused.
LEMMA ListenGrows ==
  ASSUME KeysAreFunctions, NEW d \in Device, NEW keys, Listen(d, keys), UNCHANGED missed
  PROVE  Grows /\ keys \subseteq held'[d] \cup refused'[d]
  <1>1. PICK took : held' = [held EXCEPT ![d] = @ \cup took]
    BY DEF Listen
  <1>2. refused' = [refused EXCEPT ![d] = (@ \cup keys) \ held'[d]]
    BY DEF Listen
  <1>3. \A e \in Device : held[e] \subseteq held'[e]
    BY <1>1 DEF KeysAreFunctions
  <1> QED BY <1>1, <1>2, <1>3 DEF KeysAreFunctions, Grows

\* A step that moves nobody keeps the invariant if no key is thrown away.
LEMMA NobodyMoves ==
  ASSUME GrantInv, Grows,
         UNCHANGED <<tier, leaves, epoch, view, was>>
  PROVE  GrantInv'
  BY DEF GrantInv, Grows, KeysAreFunctions, Stands, PassedEpochsAreHeld, PerEpoch

\* A member that comes to the newest epoch, having been told what it passed, has it
\* accounted for.
LEMMA OneArrives ==
  ASSUME GrantInv, PerEpoch, NEW d \in leaves, d \in Device,
         Grows, Passed(d) \subseteq Accounted(d)',
         view' = [view EXCEPT ![d] = epoch],
         UNCHANGED <<tier, leaves, epoch, was, missed>>
  PROVE  GrantInv'
  <1>1. view[d] \in 0..epoch /\ epoch \in Nat
    BY DEF GrantInv, Stands
  <1>2. {e \in was[d] : e < epoch} \subseteq Accounted(d)'
    <2> SUFFICES ASSUME NEW e \in was[d], e < epoch PROVE e \in Accounted(d)'
      OBVIOUS
    <2>1. e \in 0..epoch
      BY DEF GrantInv, Stands
    <2>2. CASE e < view[d]
      BY <2>2 DEF GrantInv, PassedEpochsAreHeld, Grows, Accounted
    <2>3. CASE ~(e < view[d])
      BY <1>1, <2>1, <2>3 DEF Passed, Ahead
    <2> QED BY <2>2, <2>3
  <1>3. \A e \in Device : view'[e] = IF e = d THEN epoch ELSE view[e]
    BY DEF GrantInv, KeysAreFunctions
  <1>4. \A e \in Device : Stands(e)'
    BY <1>1, <1>3 DEF GrantInv, Stands, PerEpoch
  <1>5. PassedEpochsAreHeld'
    BY <1>2, <1>3 DEF GrantInv, PassedEpochsAreHeld, Grows, Accounted
  <1>6. KeysAreFunctions'
    BY DEF GrantInv, KeysAreFunctions, Grows
  <1> QED BY <1>1, <1>4, <1>5, <1>6 DEF GrantInv

\* The group moves: one member stands in the new epoch, with a key of the epoch
\* before or a note that it took none, and those that stay are members of it.
LEMMA GroupMoves ==
  ASSUME GrantInv, PerEpoch, NEW d \in Device,
         Grows, epoch' = epoch + 1, UNCHANGED tier,
         view' = [view EXCEPT ![d] = epoch + 1],
         NEW members, Enrol(members), d \in members,
         leaves' = members, members \subseteq leaves \cup {d},
         was[d] \subseteq Accounted(d)'
  PROVE  GrantInv'
  <1>1. epoch \in Nat
    BY DEF GrantInv
  <1>2. \A e \in Device : /\ view'[e] = IF e = d THEN epoch + 1 ELSE view[e]
                          /\ was'[e] = was[e] \cup (IF e \in members THEN {epoch + 1} ELSE {})
    BY DEF GrantInv, KeysAreFunctions, Enrol
  <1>3. ASSUME NEW e \in Device PROVE Stands(e)'
    BY <1>1, <1>2 DEF GrantInv, Stands, PerEpoch
  <1>4. ASSUME NEW e \in Device, NEW k \in was'[e], k < view'[e]
        PROVE  k \in Accounted(e)'
    <2>1. CASE e = d
      BY <1>1, <1>2, <1>4, <2>1
    <2>2. CASE e # d
      <3>1. view'[e] = view[e] /\ Stands(e) /\ (e \in members => view[e] \in 0..epoch)
        BY <1>2, <2>2 DEF GrantInv, Stands
      <3>2. k \in was[e]
        BY <1>1, <1>2, <1>4, <2>2, <3>1
      <3> QED BY <1>4, <3>1, <3>2 DEF GrantInv, PassedEpochsAreHeld, Grows, Accounted
    <2> QED BY <2>1, <2>2
  <1>5. KeysAreFunctions'
    BY DEF GrantInv, KeysAreFunctions, Grows, Enrol
  <1> QED BY <1>1, <1>3, <1>4, <1>5 DEF GrantInv, PassedEpochsAreHeld, Accounted

\* The root's steps leave the room alone, but for a device that joins.
LEMMA RootStepsKeepRoom ==
  ASSUME ARNext
  PROVE  tier' = tier /\ (epoch' = epoch \/ epoch' = epoch + 1)
  <1> PICK d \in Device : RootStep(d) \/ JoinRoot(d)
    BY DEF ARNext
  <1>1. CASE Resolve(d) \/ Compare(d) \/ Mint(d) \/ Claim(d) \/ Persist(d)
             \/ Yield(d) \/ Fail(d) \/ Expire(d) \/ Restart(d)
    BY <1>1 DEF Resolve, Compare, Mint, Claim, Persist, Yield, Fail, Expire, Restart, roomVars
  <1>2. CASE SealRow(d) \/ NameRoot(d) \/ Distribute(d) \/ BackupRoot(d) \/ ImportRoot(d)
             \/ (\E b \in mailbox : IngestRoot(d, b))
    BY <1>2 DEF SealRow, NameRoot, Distribute, BackupRoot, ImportRoot, IngestRoot, roomVars
  <1>3. CASE JoinRoot(d)
    BY <1>3 DEF JoinRoot, JoinGroup
  <1> QED BY <1>1, <1>2, <1>3 DEF RootStep

\* Each step of the grants' keeps what the members hold of the epochs they left.
LEMMA GrantStepKeeps ==
  ASSUME GrantInv, PerEpoch, NEW d \in Device, GrantStep(d)
  PROVE  GrantInv'
  <1>0. KeysAreFunctions /\ epoch \in Nat
    BY DEF GrantInv
  <1>s. UNCHANGED <<held, missed, refused>> => Grows
    BY <1>0 DEF Grows, KeysAreFunctions
  <1>1. CASE Join(d)
    <2>1. /\ leaves' = leaves \cup {d} /\ epoch' = epoch + 1 /\ UNCHANGED tier
          /\ was[d] = {} /\ UNCHANGED <<held, missed, refused>>
          /\ view' = [view EXCEPT ![d] = epoch + 1] /\ Enrol(leaves \cup {d})
      BY <1>1 DEF Join, JoinGroup, keychainVars
    <2> QED BY <2>1, <1>s, GroupMoves
  <1>2. ASSUME NEW a \in Account, Evict(d, a)
        PROVE  GrantInv'
    <2> DEFINE members == {e \in leaves : OwnerOf[e] # a}
    <2>1. /\ d \in members /\ leaves' = members /\ epoch' = epoch + 1 /\ UNCHANGED tier
          /\ Hold(d, Passed(d)) /\ UNCHANGED refused
          /\ missed' = [missed EXCEPT ![d] = @ \cup ({epoch} \ held'[d])]
          /\ view' = [view EXCEPT ![d] = epoch + 1] /\ Enrol(members)
      BY <1>2 DEF Evict, LeaveGroup
    <2>2. Grows /\ Passed(d) \subseteq held'[d]
      BY <1>0, <2>1 DEF KeysAreFunctions, Hold, Grows
    <2>3. was[d] \subseteq Accounted(d)'
      <3> SUFFICES ASSUME NEW k \in was[d] PROVE k \in Accounted(d)'
        OBVIOUS
      <3>1. k \in 0..epoch /\ view[d] \in 0..epoch
        BY <2>1 DEF GrantInv, Stands
      <3>2. CASE k < view[d]
        BY <2>2, <3>2 DEF GrantInv, PassedEpochsAreHeld, Grows, Accounted
      <3>3. CASE ~(k < view[d]) /\ view[d] # epoch
        BY <1>0, <2>2, <3>1, <3>3 DEF Passed, Ahead, Accounted
      <3>4. CASE k = epoch
        BY <1>0, <2>1, <3>4 DEF KeysAreFunctions, Accounted
      <3> QED BY <1>0, <3>1, <3>2, <3>3, <3>4
    <2> QED BY <2>1, <2>2, <2>3, GroupMoves
  <1>3. CASE Sync(d)
    <2>1. /\ d \in leaves /\ Listen(d, Passed(d))
          /\ view' = [view EXCEPT ![d] = epoch]
          /\ UNCHANGED <<tier, leaves, epoch, was, missed>>
      BY <1>3 DEF Sync, roomVars
    <2>2. Grows /\ Passed(d) \subseteq Accounted(d)'
      BY <1>0, <2>1, ListenGrows DEF Accounted
    <2> QED BY <1>0, <2>1, <2>2, OneArrives
  <1>4. CASE Post(d)
    <2>1. /\ d \in leaves /\ Hold(d, Passed(d))
          /\ view' = [view EXCEPT ![d] = epoch]
          /\ UNCHANGED <<tier, leaves, epoch, was, missed, refused>>
      BY <1>4 DEF Post
    <2>2. Grows /\ Passed(d) \subseteq Accounted(d)'
      BY <1>0, <2>1, LearnGrows DEF Accounted
    <2> QED BY <1>0, <2>1, <2>2, OneArrives
  <1>5. CASE Seal(d) \/ Build(d) \/ (\E e \in Device : Answer(d, e))
    <2>1. /\ Learn(d, {view[d]})
          /\ UNCHANGED <<tier, leaves, epoch, view, was, missed>>
      BY <1>5 DEF Seal, Build, Answer, Start, roomVars
    <2> QED BY <1>0, <2>1, LearnGrows, NobodyMoves
  <1>6. CASE \E b \in mailbox : Ingest(d, b)
    <2>1. PICK keys : /\ Learn(d, keys)
                      /\ UNCHANGED <<tier, leaves, epoch, view, was, missed>>
      BY <1>6 DEF Ingest, grantVars
    <2> QED BY <1>0, <2>1, LearnGrows, NobodyMoves
  <1>7. CASE Mark(d) \/ Abandon(d) \/ Ask(d) \/ RestartApp(d)
    <2>1. UNCHANGED <<tier, leaves, epoch, view, was, held, missed, refused>>
      BY <1>7 DEF Mark, Abandon, Ask, RestartApp, roomVars, keychainVars
    <2> QED BY <1>s, <2>1, NobodyMoves
  <1>8. CASE Uploads(d)
    <2>1. UNCHANGED <<tier, leaves, epoch, view, was, held, missed, refused>>
      BY <1>8 DEF Uploads, ReadBackup, WriteBackup, roomVars, grantVars
    <2> QED BY <1>s, <2>1, NobodyMoves
  <1>9. CASE RecoverKeys(d)
    <2>1. UNCHANGED <<tier, leaves, epoch, view, was, missed, refused>>
      BY <1>9 DEF RecoverKeys, Recover, roomVars, grantVars
    <2>2. Grows
      BY <1>0, <1>9, <2>1 DEF RecoverKeys, Recover, Grows, KeysAreFunctions
    <2> QED BY <2>1, <2>2, NobodyMoves
  <1> QED BY <1>1, <1>2, <1>3, <1>4, <1>5, <1>6, <1>7, <1>8, <1>9 DEF GrantStep

\* GrantInv is inductive.
LEMMA NextGrantInv == GrantInv /\ [Next]_vars => GrantInv'
  <1> SUFFICES ASSUME GrantInv, [Next]_vars PROVE GrantInv'
    OBVIOUS
  <1>1. CASE PerEpoch /\ EGNext
    BY <1>1, GrantStepKeeps DEF EGNext
  <1>2. CASE SingleRoot /\ ARNext /\ UNCHANGED <<keychainVars, grantVars>>
    <2>1. ~PerEpoch /\ UNCHANGED <<tier, held, missed, refused, view, was>>
      BY <1>2, RootStepsKeepRoom DEF PerEpoch, SingleRoot, keychainVars, grantVars
    <2>2. epoch' \in Nat /\ epoch <= epoch'
      BY <1>2, RootStepsKeepRoom DEF GrantInv
    <2> QED BY <2>1, <2>2
            DEF GrantInv, KeysAreFunctions, Stands, PassedEpochsAreHeld, PerEpoch
  <1>3. CASE UNCHANGED vars
    BY <1>3 DEF vars, roomVars, keychainVars, grantVars, GrantInv, KeysAreFunctions,
                Stands, PassedEpochsAreHeld, PerEpoch
  <1> QED BY <1>1, <1>2, <1>3 DEF Next

\* A device keeps the key of every epoch its group state goes through, however many
\* Commits it missed and however its keys reached it, unless it ended the epoch with
\* a Commit of its own, which mlsSession.ts does not announce, or its store refused
\* that key when it was last announced, an error announceEpoch drops.
THEOREM PassedKeysAreKept == Spec => []PassedEpochsAreHeld
  <1>1. GrantInv => PassedEpochsAreHeld
    BY DEF GrantInv
  <1> QED BY <1>1, InitGrantInv, NextGrantInv, PTL DEF Spec

-----------------------------------------------------------------------------
\* The third invariant follows a key wherever it is copied: into another device's
\* store, a grant under way, a bundle, the account's backup, an upload.  A grant may
\* carry any key up to the newest epoch, because it goes to members only, and a
\* member has been one in the newest epoch.
CopiesAreFunctions ==
  /\ listed = [d \in Device |-> listed[d]] /\ backup = [a \in Account |-> backup[a]]
  /\ upload = [d \in Device |-> upload[d]] /\ job = [d \in Device |-> job[d]]

CopiesEntitled ==
  /\ \A d \in Device : listed[d] \subseteq held[d]
  /\ \A a \in Account : \A k \in backup[a] : Entitled(a, k)
  /\ \A d \in Device : upload[d] # None => \A k \in upload[d] : Entitled(OwnerOf[d], k)
  /\ \A d \in Device : \A k \in held[d] : Entitled(OwnerOf[d], k)

MailEntitled ==
  PerEpoch => \A b \in mailbox : b.to \in Device /\ \A k \in b.body : Entitled(OwnerOf[b.to], k)

NothingAhead ==
  PerEpoch => /\ leaves \subseteq Device
              /\ \A d \in leaves : epoch \in was[d]
              /\ rows \subseteq 0..epoch
              /\ \A d \in Device : job[d].keys \subseteq 0..epoch

KeyInv == /\ GrantInv /\ CopiesAreFunctions /\ CopiesEntitled
          /\ MailEntitled /\ NothingAhead

\* Nobody has a key before the first epoch is left.
LEMMA InitKeyInv == Init => KeyInv
  <1> SUFFICES ASSUME Init PROVE KeyInv
    OBVIOUS
  <1>1. /\ leaves \subseteq Device /\ mailbox = {} /\ epoch = 0
    BY FounderType DEF Init, RoomInit
  <1>2. \A d \in Device : /\ d \in leaves => was[d] = {0} /\ held[d] = {0}
                          /\ d \notin leaves => held[d] = {}
                          /\ listed[d] = held[d] /\ upload[d] = None
    BY DEF Init, KeychainInit, GrantInit
  <1>3. \A d \in Device : \A k \in held[d] : Entitled(OwnerOf[d], k)
    BY <1>2 DEF Entitled
  <1>4. \A a \in Account : \A k \in backup[a] : Entitled(a, k)
    <2>1. \A a \in Account : \A k \in backup[a] : \E d \in Device : OwnerOf[d] = a /\ k \in held[d]
      BY DEF Init, KeychainInit
    <2> QED BY <1>3, <2>1
  <1>5. NothingAhead
    BY <1>1, <1>2 DEF NothingAhead, Init, GrantInit, Idle
  <1>6. CopiesAreFunctions
    BY DEF CopiesAreFunctions, Init, KeychainInit, GrantInit
  <1> QED BY <1>1, <1>2, <1>3, <1>4, <1>5, <1>6, InitGrantInv
          DEF KeyInv, CopiesEntitled, MailEntitled

\* A member may have any key up to the newest epoch, and so may its account.
LEMMA MembersAreEntitled ==
  ASSUME NothingAhead, PerEpoch, NEW d \in leaves, NEW k \in 0..epoch, epoch \in Nat
  PROVE  Entitled(OwnerOf[d], k)
  BY DEF NothingAhead, Entitled

\* A right once had is kept, since no membership is forgotten.
LEMMA RightsStay ==
  ASSUME NEW a, NEW k, Entitled(a, k), \A e \in Device : was[e] \subseteq was'[e]
  PROVE  Entitled(a, k)'
  BY DEF Entitled

\* What a device learns: keys its account is entitled to.
LEMMA LearnEntitled ==
  ASSUME KeyInv, NEW d \in Device, NEW keys,
         Hold(d, keys) \/ Learn(d, keys) \/ Listen(d, keys),
         \A k \in keys : Entitled(OwnerOf[d], k)
  PROVE  /\ \A e \in Device : \A k \in held'[e] : Entitled(OwnerOf[e], k)
         /\ \A e \in Device : listed'[e] \subseteq held'[e]
         /\ held' = [e \in Device |-> held'[e]] /\ listed' = [e \in Device |-> listed'[e]]
  <1>1. /\ held = [e \in Device |-> held[e]] /\ listed = [e \in Device |-> listed[e]]
        /\ \A e \in Device : listed[e] \subseteq held[e]
        /\ \A e \in Device : \A k \in held[e] : Entitled(OwnerOf[e], k)
    BY DEF KeyInv, GrantInv, KeysAreFunctions, CopiesAreFunctions, CopiesEntitled
  <1>2. PICK took, noted :
          /\ noted \subseteq took /\ took \subseteq keys
          /\ held' = [held EXCEPT ![d] = @ \cup took]
          /\ \/ listed' = [listed EXCEPT ![d] = @ \cup noted]
             \/ listed' = listed
    <2>1. CASE Hold(d, keys) \/ Learn(d, keys)
      <3>1. /\ held' = [held EXCEPT ![d] = @ \cup keys]
            /\ \/ listed' = [listed EXCEPT ![d] = @ \cup (keys \ held[d])]
               \/ listed' = listed
        BY <2>1 DEF Hold, Learn
      <3>2. keys \ held[d] \subseteq keys /\ keys \subseteq keys
        OBVIOUS
      <3> QED BY <3>1, <3>2
    <2>2. CASE Listen(d, keys)
      <3>1. PICK took \in SUBSET (keys \ held[d]) : \E noted \in SUBSET took :
              /\ held' = [held EXCEPT ![d] = @ \cup took]
              /\ listed' = [listed EXCEPT ![d] = @ \cup noted]
        BY <2>2 DEF Listen
      <3>2. PICK noted \in SUBSET took :
              /\ held' = [held EXCEPT ![d] = @ \cup took]
              /\ listed' = [listed EXCEPT ![d] = @ \cup noted]
        BY <3>1
      <3>3. noted \subseteq took /\ took \subseteq keys
        OBVIOUS
      <3> QED BY <3>2, <3>3
    <2> QED BY <2>1, <2>2
  <1>3. /\ held'[d] = held[d] \cup took
        /\ \A e \in Device \ {d} : held'[e] = held[e]
        /\ held' = [e \in Device |-> held'[e]]
    BY <1>1, <1>2
  <1>4. /\ listed'[d] \subseteq listed[d] \cup took
        /\ \A e \in Device \ {d} : listed'[e] = listed[e]
        /\ listed' = [e \in Device |-> listed'[e]]
    BY <1>1, <1>2
  <1>5. took \subseteq keys
    BY <1>2
  <1> QED BY <1>1, <1>3, <1>4, <1>5

\* The steps under which no key is copied but into a device's own store.
LEMMA OnlyLearns ==
  ASSUME KeyInv, GrantInv',
         \A e \in Device : \A k \in held'[e] : Entitled(OwnerOf[e], k),
         \A e \in Device : listed'[e] \subseteq held'[e],
         listed' = [e \in Device |-> listed'[e]],
         \A e \in Device : was[e] \subseteq was'[e],
         mailbox' \subseteq mailbox,
         UNCHANGED <<tier, upload, backup>>,
         job' = [e \in Device |-> job'[e]],
         NothingAhead'
  PROVE  KeyInv'
  <1>1. CopiesEntitled'
    BY RightsStay DEF KeyInv, CopiesEntitled
  <1>2. MailEntitled'
    BY RightsStay DEF KeyInv, MailEntitled, PerEpoch
  <1>3. CopiesAreFunctions'
    BY DEF KeyInv, CopiesAreFunctions
  <1> QED BY <1>1, <1>2, <1>3 DEF KeyInv

\* A grant's bundles are for leaves of the newest tree.
LEMMA DoneIsMembers ==
  ASSUME KeyInv, PerEpoch, NEW d \in Device, NEW done \in SUBSET Recipients(d)
  PROVE  done \subseteq leaves /\ done \subseteq Device
  BY DEF Recipients, Leaves, KeyInv, NothingAhead

\* A step of the grants copies keys to members, and to no one else.
LEMMA GrantStepEntitled ==
  ASSUME KeyInv, PerEpoch, NEW d \in Device, GrantStep(d)
  PROVE  KeyInv'
  <1>0. /\ GrantInv' /\ epoch \in Nat /\ \A e \in Device : Stands(e)
        /\ KeysAreFunctions /\ CopiesAreFunctions /\ CopiesEntitled
        /\ MailEntitled /\ NothingAhead
    BY GrantStepKeeps DEF KeyInv, GrantInv
  <1>j. job = [e \in Device |-> job[e]]
    BY <1>0 DEF CopiesAreFunctions
  <1>k. d \in leaves => /\ view[d] \in 0..epoch
                        /\ \A k \in 0..epoch : Entitled(OwnerOf[d], k)
    BY <1>0, MembersAreEntitled DEF Stands
  <1>p. d \in leaves => Passed(d) \subseteq 0..epoch
    BY <1>0, <1>k DEF Passed, Ahead
  <1>s. UNCHANGED <<held, listed>> =>
          /\ \A e \in Device : \A k \in held'[e] : Entitled(OwnerOf[e], k)
          /\ \A e \in Device : listed'[e] \subseteq held'[e]
          /\ listed' = [e \in Device |-> listed'[e]]
    BY <1>0 DEF CopiesAreFunctions, CopiesEntitled
  <1>n. ASSUME UNCHANGED <<tier, leaves, epoch, was, rows>>,
               \A e \in Device : job'[e].keys \subseteq 0..epoch
        PROVE  NothingAhead'
    BY <1>n, <1>0 DEF NothingAhead, PerEpoch
  <1>g. ASSUME NEW members, Enrol(members), leaves' = members,
               members \subseteq Device, epoch' = epoch + 1,
               UNCHANGED <<tier, rows, job>>
        PROVE  NothingAhead' /\ \A e \in Device : was[e] \subseteq was'[e]
    BY <1>g, <1>0 DEF NothingAhead, PerEpoch, Enrol
  <1>1. CASE Join(d)
    <2>1. /\ Enrol(leaves \cup {d}) /\ leaves' = leaves \cup {d} /\ epoch' = epoch + 1
          /\ UNCHANGED <<tier, rows, job, held, listed, upload, backup, mailbox>>
      BY <1>1 DEF Join, JoinGroup, keychainVars
    <2>2. leaves \cup {d} \subseteq Device
      BY <1>0 DEF NothingAhead
    <2> QED BY <1>0, <1>j, <1>g, <1>s, <2>1, <2>2, OnlyLearns
  <1>2. ASSUME NEW a \in Account, Evict(d, a)
        PROVE  KeyInv'
    <2> DEFINE members == {e \in leaves : OwnerOf[e] # a}
    <2>1. /\ d \in leaves /\ leaves' = members /\ epoch' = epoch + 1
          /\ Hold(d, Passed(d)) /\ Enrol({e \in leaves : OwnerOf[e] # a})
          /\ UNCHANGED <<tier, rows, job, upload, backup, mailbox>>
      BY <1>2 DEF Evict, LeaveGroup
    <2>2. members \subseteq Device
      BY <1>0 DEF NothingAhead
    <2>3. \A k \in Passed(d) : Entitled(OwnerOf[d], k)
      BY <1>k, <1>p, <2>1
    <2> QED BY <1>0, <1>j, <1>g, <2>1, <2>2, <2>3, LearnEntitled, OnlyLearns
  <1>3. CASE Sync(d)
    <2>1. /\ d \in leaves /\ Listen(d, Passed(d))
          /\ UNCHANGED <<tier, leaves, epoch, was, rows, job, upload, backup, mailbox>>
      BY <1>3 DEF Sync, Listen, roomVars
    <2>2. \A k \in Passed(d) : Entitled(OwnerOf[d], k)
      BY <1>k, <1>p, <2>1
    <2>3. NothingAhead'
      BY <1>0, <1>n, <2>1 DEF NothingAhead
    <2> QED BY <1>0, <1>j, <2>1, <2>2, <2>3, LearnEntitled, OnlyLearns
  <1>4. CASE Seal(d)
    <2>1. /\ d \in leaves /\ Learn(d, {view[d]}) /\ rows' = rows \cup {view[d]}
          /\ UNCHANGED <<tier, leaves, epoch, was, job, upload, backup, mailbox>>
      BY <1>4 DEF Seal, Learn, roomVars
    <2>2. NothingAhead'
      BY <1>0, <1>k, <2>1 DEF NothingAhead, PerEpoch
    <2> QED BY <1>0, <1>j, <1>k, <2>1, <2>2, LearnEntitled, OnlyLearns
  <1>5. CASE Build(d) \/ (\E e \in Device : Answer(d, e))
    <2>1. PICK keys, for : /\ d \in leaves /\ keys \subseteq rows
                           /\ Start(d, keys, for)
      BY <1>5 DEF Build, Answer, Grantable
    <2>2. /\ Learn(d, {view[d]})
          /\ job' = [job EXCEPT ![d] = [at |-> "built", keys |-> keys, for |-> for]]
          /\ UNCHANGED <<tier, leaves, epoch, was, rows, upload, backup, mailbox>>
      BY <2>1 DEF Start, Learn, roomVars
    <2>3. \A e \in Device : job'[e].keys \subseteq 0..epoch
      BY <1>0, <1>j, <2>1, <2>2 DEF NothingAhead
    <2>4. job' = [e \in Device |-> job'[e]]
      BY <1>j, <2>2
    <2> QED BY <1>0, <1>k, <1>n, <2>1, <2>2, <2>3, <2>4, LearnEntitled, OnlyLearns
  <1>6. CASE Post(d)
    <2>1. PICK done \in SUBSET Recipients(d) :
            /\ mailbox' \subseteq mailbox \cup GrantBundles(d, done)
            /\ job' = [job EXCEPT ![d] = Finish(d, done)]
      BY <1>6 DEF Post, Deposit
    <2>2. /\ d \in leaves /\ Hold(d, Passed(d))
          /\ UNCHANGED <<tier, leaves, epoch, was, rows, upload, backup>>
      BY <1>6 DEF Post
    <2>3. /\ job' = [e \in Device |-> job'[e]]
          /\ \A e \in Device : job'[e].keys \subseteq 0..epoch
      BY <1>0, <1>j, <2>1 DEF NothingAhead, Finish, Idle
    <2>4. \A k \in Passed(d) : Entitled(OwnerOf[d], k)
      BY <1>k, <1>p, <2>2
    <2>5. /\ \A e \in Device : \A k \in held'[e] : Entitled(OwnerOf[e], k)
          /\ \A e \in Device : listed'[e] \subseteq held'[e]
          /\ listed' = [e \in Device |-> listed'[e]]
      BY <2>2, <2>4, LearnEntitled
    <2>6. \A b \in GrantBundles(d, done) :
            /\ b.to \in Device
            /\ \A k \in b.body : Entitled(OwnerOf[b.to], k)
      <3> SUFFICES ASSUME NEW e \in done, NEW k \in job[d].keys
                   PROVE  e \in Device /\ Entitled(OwnerOf[e], k)
        BY <2>1, DoneIsMembers DEF GrantBundles, KeyInv
      <3> QED BY <1>0, <2>1, DoneIsMembers, MembersAreEntitled DEF NothingAhead
    <2>7. MailEntitled'
      BY <1>0, <2>1, <2>2, <2>6 DEF MailEntitled, Entitled
    <2>8. CopiesEntitled'
      BY <1>0, <2>2, <2>5 DEF CopiesEntitled, Entitled
    <2>9. NothingAhead'
      BY <1>n, <2>2, <2>3
    <2>10. CopiesAreFunctions'
      BY <1>0, <2>2, <2>3, <2>5 DEF CopiesAreFunctions
    <2> QED BY <1>0, <2>7, <2>8, <2>9, <2>10 DEF KeyInv
  <1>7. CASE Mark(d) \/ Abandon(d) \/ RestartApp(d)
    <2>1. /\ job' = [job EXCEPT ![d] = Idle]
          /\ UNCHANGED <<tier, leaves, epoch, was, rows, held, listed, upload, backup, mailbox>>
      BY <1>7 DEF Mark, Abandon, RestartApp, roomVars, keychainVars
    <2>2. /\ job' = [e \in Device |-> job'[e]]
          /\ \A e \in Device : job'[e].keys \subseteq 0..epoch
      BY <1>0, <1>j, <2>1 DEF NothingAhead, Idle
    <2> QED BY <1>0, <1>n, <1>s, <2>1, <2>2, OnlyLearns
  <1>8. CASE Ask(d)
    <2>1. UNCHANGED <<tier, leaves, epoch, was, rows, job, held, listed, upload, backup, mailbox>>
      BY <1>8 DEF Ask, roomVars, keychainVars
    <2> QED BY <1>0, <1>j, <1>n, <1>s, <2>1, OnlyLearns DEF NothingAhead
  <1>9. ASSUME NEW b \in mailbox, Ingest(d, b)
        PROVE  KeyInv'
    <2>1. /\ b.to = d /\ Learn(d, b.body) /\ mailbox' \subseteq mailbox
          /\ UNCHANGED <<tier, leaves, epoch, was, rows, job, upload, backup>>
      BY <1>9 DEF Ingest, Addressed, Acknowledge, Learn, grantVars
    <2>2. \A k \in b.body : Entitled(OwnerOf[d], k)
      BY <1>0, <2>1 DEF MailEntitled
    <2>3. NothingAhead'
      BY <1>0, <1>n, <2>1 DEF NothingAhead
    <2> QED BY <1>0, <1>j, <2>1, <2>2, <2>3, LearnEntitled, OnlyLearns
  <1>10. CASE Uploads(d)
    <2>1. UNCHANGED <<tier, leaves, epoch, was, rows, job, held, listed, mailbox>>
      BY <1>10 DEF Uploads, ReadBackup, WriteBackup, roomVars, grantVars
    <2>2. OwnerOf[d] \in Account
      BY OwnerOfType
    <2>3. CASE ReadBackup(d)
      <3>1. /\ upload' = [upload EXCEPT ![d] = Found(d)] /\ backup' = backup
        BY <2>3 DEF ReadBackup
      <3>2. \A k \in Found(d) : Entitled(OwnerOf[d], k)
        BY <1>0, <2>2 DEF Found, CopiesEntitled
      <3>3. CopiesEntitled'
        BY <1>0, <2>1, <3>1, <3>2 DEF CopiesEntitled, CopiesAreFunctions, Entitled
      <3>4. CopiesAreFunctions'
        BY <1>0, <2>1, <3>1 DEF CopiesAreFunctions
      <3> QED BY <1>0, <1>n, <2>1, <3>3, <3>4
              DEF KeyInv, MailEntitled, Entitled, PerEpoch, NothingAhead
    <2>4. CASE WriteBackup(d)
      <3>1. /\ upload[d] # None
            /\ backup' = [backup EXCEPT ![OwnerOf[d]] = upload[d] \cup listed[d]]
            /\ upload' = [upload EXCEPT ![d] = None]
        BY <2>4 DEF WriteBackup, Merge
      <3>2. \A k \in upload[d] \cup listed[d] : Entitled(OwnerOf[d], k)
        BY <1>0, <3>1 DEF CopiesEntitled
      <3>3. CopiesEntitled'
        BY <1>0, <2>1, <2>2, <3>1, <3>2 DEF CopiesEntitled, CopiesAreFunctions, Entitled
      <3>4. CopiesAreFunctions'
        BY <1>0, <2>1, <3>1 DEF CopiesAreFunctions
      <3> QED BY <1>0, <1>n, <2>1, <3>3, <3>4
              DEF KeyInv, MailEntitled, Entitled, PerEpoch, NothingAhead
    <2> QED BY <1>10, <2>3, <2>4 DEF Uploads
  <1>11. CASE RecoverKeys(d)
    <2>1. UNCHANGED <<tier, leaves, epoch, was, rows, job, upload, backup, mailbox>>
      BY <1>11 DEF RecoverKeys, Recover, roomVars, grantVars
    <2>2. \A k \in backup[OwnerOf[d]] : Entitled(OwnerOf[d], k)
      BY <1>0, OwnerOfType DEF CopiesEntitled
    <2>3. \/ UNCHANGED <<held, listed>>
          \/ /\ held' = [held EXCEPT ![d] = @ \cup backup[OwnerOf[d]]]
             /\ listed' = [listed EXCEPT ![d] = backup[OwnerOf[d]]]
      BY <1>11 DEF RecoverKeys, Recover
    <2>4. /\ \A e \in Device : \A k \in held'[e] : Entitled(OwnerOf[e], k)
          /\ \A e \in Device : listed'[e] \subseteq held'[e]
          /\ listed' = [e \in Device |-> listed'[e]]
      <3>1. CASE UNCHANGED <<held, listed>>
        BY <1>s, <3>1
      <3>2. CASE /\ held' = [held EXCEPT ![d] = @ \cup backup[OwnerOf[d]]]
                 /\ listed' = [listed EXCEPT ![d] = backup[OwnerOf[d]]]
        BY <1>0, <2>2, <3>2 DEF KeysAreFunctions, CopiesAreFunctions, CopiesEntitled
      <3> QED BY <2>3, <3>1, <3>2
    <2>5. NothingAhead'
      BY <1>0, <1>n, <2>1 DEF NothingAhead
    <2> QED BY <1>0, <1>j, <2>1, <2>4, <2>5, OnlyLearns
  <1> QED BY <1>1, <1>2, <1>3, <1>4, <1>5, <1>6, <1>7, <1>8, <1>9, <1>10, <1>11
          DEF GrantStep

\* KeyInv is inductive.
LEMMA NextKeyInv == KeyInv /\ [Next]_vars => KeyInv'
  <1> SUFFICES ASSUME KeyInv, [Next]_vars PROVE KeyInv'
    OBVIOUS
  <1>0. GrantInv'
    BY NextGrantInv DEF KeyInv
  <1>1. CASE PerEpoch /\ EGNext
    BY <1>1, GrantStepEntitled DEF EGNext
  <1>2. CASE SingleRoot /\ ARNext /\ UNCHANGED <<keychainVars, grantVars>>
    <2>1. /\ ~PerEpoch /\ ~PerEpoch'
          /\ UNCHANGED <<held, listed, upload, backup, was, job>>
      BY <1>2, RootStepsKeepRoom DEF PerEpoch, SingleRoot, keychainVars, grantVars
    <2>2. CopiesEntitled' /\ CopiesAreFunctions'
      BY <2>1 DEF KeyInv, CopiesEntitled, CopiesAreFunctions, Entitled
    <2> QED BY <1>0, <2>1, <2>2 DEF KeyInv, MailEntitled, NothingAhead
  <1>3. CASE UNCHANGED vars
    BY <1>0, <1>3 DEF vars, roomVars, keychainVars, grantVars, KeyInv, CopiesAreFunctions,
       CopiesEntitled, MailEntitled, NothingAhead, Entitled, PerEpoch
  <1> QED BY <1>1, <1>2, <1>3 DEF Next

\* An account that was removed gets no key of an epoch after its removal: not from a
\* grant that was begun while it was a member, since the leaves are read again after
\* the sync (grantPrivateHistory, grantMissingTo), nor from a bundle left in the
\* mailbox, another device of its own, its backup, or an upload under way.
THEOREM NoKeyAfterRemoval == Spec => []NoLaterKey
  <1>1. KeyInv => NoLaterKey
    <2> SUFFICES ASSUME KeyInv, PerEpoch, NEW d \in Device, NEW k \in InReach(d)
                 PROVE  Entitled(OwnerOf[d], k)
      BY DEF NoLaterKey
    <2>1. CASE k \in held[d]
      BY <2>1 DEF KeyInv, CopiesEntitled
    <2>2. CASE \E b \in Addressed(d) : k \in b.body
      BY <2>2 DEF KeyInv, MailEntitled, Addressed
    <2> QED BY <2>1, <2>2 DEF InReach
  <1> QED BY <1>1, InitKeyInv, NextKeyInv, PTL DEF Spec

-----------------------------------------------------------------------------
\* The fourth invariant is about the answers to a request.  A bundle that is dropped
\* as a duplicate leaves another of its scope waiting, and that one holds the key the
\* scope is named for: the oldest, which is one the asker asked for.
Below(e, k) == request[e].have = None \/ k < request[e].have
Covered(e) == \E k \in InReach(e) : Below(e, k)

Answers(d) == job[d].at \in {"built", "mark"} /\ job[d].for # Everybody

RequestsTyped ==
  /\ request = [d \in Device |-> request[d]]
  /\ \A d \in Device : request[d] = [state |-> request[d].state, have |-> request[d].have]
  /\ \A d \in Device : request[d].state # "none" => PerEpoch /\ was[d] # {}
  /\ leaves \subseteq Device /\ faults \in Nat

AnswersTyped ==
  \A d \in Device :
    /\ job[d].at = "built" => job[d].keys # {}
    /\ job[d].at = "mark" => job[d].for # Everybody
    /\ Answers(d) => job[d].for \in Device /\ request[job[d].for].state # "none"

ScopesStand == PerEpoch => \A b \in mailbox : b.scope \in b.body

AllCovered ==
  faults = 0 =>
    /\ \A d \in Device : Answers(d) /\ job[d].at = "built" =>
         \A k \in job[d].keys : Below(job[d].for, k)
    /\ \A d \in Device : job[d].at = "mark" /\ job[d].for \in leaves => Covered(job[d].for)
    /\ \A e \in leaves : request[e].state = "granted" => Covered(e)

AnswerInv == RequestsTyped /\ AnswersTyped /\ ScopesStand /\ AllCovered

\* Nobody has asked at the start.
LEMMA InitAnswerInv == Init => AnswerInv
  <1> SUFFICES ASSUME Init PROVE AnswerInv
    OBVIOUS
  <1>1. /\ \A d \in Device : request[d] = Silent /\ job[d] = Idle
        /\ request = [d \in Device |-> request[d]] /\ mailbox = {} /\ faults = 0
        /\ leaves \subseteq Device
    BY FounderType DEF Init, GrantInit, RoomInit
  <1>2. ASSUME NEW d \in Device
        PROVE  /\ request[d].state = "none"
               /\ request[d] = [state |-> request[d].state, have |-> request[d].have]
    <2>1. request[d] = [state |-> "none", have |-> None]
      BY <1>1, Zenon DEF Silent
    <2> QED BY <2>1
  <1>3. ASSUME NEW d \in Device PROVE job[d].at = "idle"
    <2>1. job[d] = [at |-> "idle", keys |-> {}, for |-> Everybody]
      BY <1>1, Zenon DEF Idle
    <2> QED BY <2>1
  <1>4. RequestsTyped
    BY <1>1, <1>2 DEF RequestsTyped
  <1>5. AnswersTyped /\ ScopesStand /\ AllCovered
    BY <1>1, <1>2, <1>3 DEF AnswersTyped, ScopesStand, AllCovered, Answers
  <1> QED BY <1>4, <1>5 DEF AnswerInv

\* Among naturals there is a least one.
LEMMA LeastNatural ==
  ASSUME NEW S, S \subseteq Nat, S # {}
  PROVE  Min(S) \in S
  <1> DEFINE Less == {ss \in Nat \X Nat : ss[1] < ss[2]}
  <1>1. IsWellFoundedOn(Less, Nat)
    <2>1. OpToRel(<, Nat) = Less
      BY Zenon DEF OpToRel
    <2> QED BY <2>1, NatLessThanWellFounded, Zenon
  <1>2. \A k, m \in Nat : <<k, m>> \in Less <=> k < m
    OBVIOUS
  <1> HIDE DEF Less
  <1>3. PICK m \in S : \A k \in S : ~ (<<k, m>> \in Less)
    BY <1>1, WFMin
  <1>4. \A k \in S : ~ (k < m)
    BY <1>2, <1>3, Zenon
  <1>5. \E x \in S : \A y \in S : x =< y
    BY <1>3, <1>4
  <1> QED BY <1>5 DEF Min

\* What is in a device's reach stays there: a bundle leaves the mailbox when its keys
\* are held.
LEMMA StillCovered ==
  ASSUME NEW e \in Device, Covered(e), request'[e].have = request[e].have,
         held[e] \subseteq held'[e],
         \A b \in mailbox : b.to = e => b \in mailbox' \/ b.body \subseteq held'[e]
  PROVE  Covered(e)'
  <1>1. PICK k \in InReach(e) : Below(e, k)
    BY DEF Covered
  <1>2. k \in InReach(e)'
    BY <1>1 DEF InReach, Addressed
  <1>3. Below(e, k)'
    BY <1>1 DEF Below
  <1> QED BY <1>2, <1>3 DEF Covered

\* The steps that ask, answer and mark nothing.
LEMMA NobodyAnswers ==
  ASSUME AnswerInv, NEW d \in Device, PerEpoch, UNCHANGED <<tier, request, job>>,
         leaves \subseteq Device,
         \A e \in Device : held[e] \subseteq held'[e] /\ was[e] \subseteq was'[e],
         \A b \in mailbox : \A e \in Device :
           b.to = e => b \in mailbox' \/ b.body \subseteq held'[e],
         mailbox' \subseteq mailbox,
         leaves' \subseteq leaves \/ (leaves' \subseteq leaves \cup {d} /\ was[d] = {}),
         faults' \in {faults, faults + 1}
  PROVE  AnswerInv'
  <1>1. RequestsTyped' /\ AnswersTyped' /\ ScopesStand'
    BY DEF AnswerInv, RequestsTyped, AnswersTyped, ScopesStand, Answers, PerEpoch
  <1>2. ASSUME faults' = 0 PROVE AllCovered!2'
    <2>1. faults = 0
      BY <1>2 DEF AnswerInv, RequestsTyped
    <2>2. \A e \in Device : Covered(e) => Covered(e)'
      BY StillCovered
    <2>3. \A e \in Device : e \in leaves' /\ request[e].state # "none" => e \in leaves
      BY DEF AnswerInv, RequestsTyped
    <2>4. ASSUME NEW e \in Device, Answers(e), job[e].at = "built", NEW k \in job[e].keys
          PROVE  Below(job[e].for, k)'
      BY <2>1, <2>4 DEF AnswerInv, AllCovered, Below
    <2>5. ASSUME NEW e \in Device, job[e].at = "mark", job[e].for \in leaves'
          PROVE  Covered(job[e].for)'
      <3>1. job[e].for \in Device /\ request[job[e].for].state # "none"
        BY <2>5 DEF AnswerInv, AnswersTyped, Answers
      <3>2. Covered(job[e].for)
        BY <2>1, <2>3, <2>5, <3>1 DEF AnswerInv, AllCovered
      <3> QED BY <2>2, <3>1, <3>2
    <2>6. ASSUME NEW e \in leaves', request[e].state = "granted" PROVE Covered(e)'
      <3>1. e \in Device
        OBVIOUS
      <3>2. Covered(e)
        BY <2>1, <2>3, <2>6, <3>1 DEF AnswerInv, AllCovered
      <3> QED BY <2>2, <3>1, <3>2
    <2> QED BY <2>4, <2>5, <2>6 DEF Answers
  <1> QED BY <1>1, <1>2 DEF AnswerInv, AllCovered

\* The work on one job leaves the tree and what was asked alone, and adds bundles to
\* the mail at most; of the requests, it changes the state of one.
JobMoves(d) ==
  /\ UNCHANGED <<tier, leaves, was>>
  /\ mailbox \subseteq mailbox' /\ \A b \in mailbox' \ mailbox : b.scope \in b.body
  /\ \A e \in Device : held[e] \subseteq held'[e]
  /\ \A e \in Device \ {d} : job'[e] = job[e]
  /\ request' = [e \in Device |-> request'[e]]
  /\ \A e \in Device :
       /\ request'[e] = [state |-> request'[e].state, have |-> request'[e].have]
       /\ request'[e].have = request[e].have
       /\ request'[e].state = request[e].state
          \/ (request[e].state # "none" /\ request'[e].state # "none")
  /\ faults' \in {faults, faults + 1}

LEMMA JobKeeps ==
  ASSUME AnswerInv, NEW d \in Device, JobMoves(d), leaves \subseteq Device,
         job'[d].at = "built" => job'[d].keys # {},
         job'[d].at = "mark" => job'[d].for # Everybody,
         Answers(d)' => job'[d].for \in Device /\ request[job'[d].for].state # "none",
         faults' = 0 =>
           /\ Answers(d)' /\ job'[d].at = "built" =>
                \A k \in job'[d].keys : Below(job'[d].for, k)
           /\ job'[d].at = "mark" /\ job'[d].for \in leaves => Covered(job[d].for)'
           /\ \A e \in leaves : request'[e].state = "granted" => Covered(e)
  PROVE  AnswerInv'
  <1>1. RequestsTyped' /\ ScopesStand'
    BY DEF AnswerInv, RequestsTyped, ScopesStand, JobMoves, PerEpoch
  <1>2. AnswersTyped'
    <2>1. ASSUME NEW e \in Device
          PROVE  /\ job'[e].at = "built" => job'[e].keys # {}
                 /\ job'[e].at = "mark" => job'[e].for # Everybody
                 /\ Answers(e)' => job'[e].for \in Device /\ request[job'[e].for].state # "none"
      BY DEF AnswerInv, AnswersTyped, Answers, JobMoves
    <2>2. \A e \in Device : request[e].state # "none" => request'[e].state # "none"
      BY DEF JobMoves
    <2> QED BY <2>1, <2>2 DEF AnswersTyped
  <1>3. ASSUME faults' = 0 PROVE AllCovered!2'
    <2>1. faults = 0 /\ leaves' = leaves
      BY <1>3 DEF AnswerInv, RequestsTyped, JobMoves
    <2>2. \A e \in Device : Covered(e) => Covered(e)'
      BY StillCovered DEF JobMoves
    <2>3. \A e \in Device : \A k : Below(e, k) => Below(e, k)'
      BY DEF JobMoves, Below
    <2>4. ASSUME NEW e \in Device, Answers(e)', job'[e].at = "built", NEW k \in job'[e].keys
          PROVE  Below(job[e].for, k)'
      <3>1. PICK x \in Device : x = job'[e].for
        BY <1>2, <2>4 DEF AnswersTyped
      <3>2. CASE e = d
        <4>1. Below(x, k)
          BY <1>3, <2>4, <3>1, <3>2
        <4> QED BY <2>3, <3>1, <4>1 DEF Below
      <3>3. CASE e # d
        <4>1. job'[e] = job[e] /\ Answers(e)
          BY <2>4, <3>3 DEF JobMoves, Answers
        <4>2. Below(x, k)
          BY <2>1, <2>4, <3>1, <4>1 DEF AnswerInv, AllCovered
        <4> QED BY <2>3, <3>1, <4>2 DEF Below
      <3> QED BY <3>2, <3>3
    <2>5. ASSUME NEW e \in Device, job'[e].at = "mark", job'[e].for \in leaves'
          PROVE  Covered(job[e].for)'
      <3>d. CASE e = d
        BY <1>3, <2>1, <2>5, <3>d
      <3> SUFFICES ASSUME e # d PROVE Covered(job[e].for)'
        BY <3>d
      <3>n. e # d
        OBVIOUS
      <3>1. PICK x \in Device : x = job'[e].for
        BY <2>1, <2>5
      <3>2. Covered(x)
        <4>1. job'[e] = job[e]
          BY <3>n DEF JobMoves
        <4> QED BY <2>1, <2>5, <3>1, <4>1 DEF AnswerInv, AllCovered
      <3>3. Covered(x)'
        BY <2>2, <3>2
      <3> QED BY <3>1, <3>3 DEF Covered
    <2>6. ASSUME NEW e \in leaves', request'[e].state = "granted" PROVE Covered(e)'
      BY <1>3, <2>1, <2>2, <2>6
    <2> QED BY <2>4, <2>5, <2>6
  <1> QED BY <1>1, <1>2, <1>3 DEF AnswerInv, AllCovered

\* grantMissingTo: the keys of an answer lie below what the asker has.
LEMMA BuiltKeeps ==
  ASSUME AnswerInv, KeyInv, PerEpoch, NEW d \in Device,
         Build(d) \/ \E e \in Device : Answer(d, e)
  PROVE  AnswerInv'
  <1>1. PICK keys, for :
          /\ keys # {}
          /\ job' = [job EXCEPT ![d] = [at |-> "built", keys |-> keys, for |-> for]]
          /\ Learn(d, {view[d]})
          /\ UNCHANGED <<roomVars, view, was, missed, rows, granted, request>>
          /\ \/ for = Everybody
             \/ /\ for \in Device /\ request[for].state = "open"
                /\ \A k \in keys : k \in AskedFor(for)
    BY DEF Build, Answer, Start, Grantable
  <1>2. /\ job'[d].at = "built" /\ job'[d].keys = keys /\ job'[d].for = for
        /\ \A e \in Device \ {d} : job'[e] = job[e]
    BY <1>1 DEF KeyInv, CopiesAreFunctions
  <1>3. /\ \A e \in Device : held[e] \subseteq held'[e]
        /\ faults' \in {faults, faults + 1}
    BY <1>1 DEF Learn, Hold, Fault, KeyInv, GrantInv, KeysAreFunctions
  <1>4. JobMoves(d)
    BY <1>1, <1>2, <1>3 DEF JobMoves, roomVars, AnswerInv, RequestsTyped
  <1>5. leaves \subseteq Device
    BY DEF KeyInv, NothingAhead
  <1>6. ASSUME Answers(d)' PROVE for \in Device /\ request[for].state # "none"
                                 /\ \A k \in keys : Below(for, k)
    BY <1>1, <1>2, <1>6 DEF Answers, AskedFor, Below
  <1>7. ASSUME faults' = 0, NEW e \in leaves, request'[e].state = "granted"
        PROVE  Covered(e)
    <2>1. faults = 0 /\ request' = request
      BY <1>1, <1>3, <1>7 DEF AnswerInv, RequestsTyped
    <2> QED BY <1>7, <2>1 DEF AnswerInv, AllCovered
  <1> QED BY <1>1, <1>2, <1>4, <1>5, <1>6, <1>7, JobKeeps

\* POST keys/grant: what is marked was answered.
LEMMA MarkKeeps ==
  ASSUME AnswerInv, KeyInv, PerEpoch, NEW d \in Device, Mark(d)
  PROVE  AnswerInv'
  <1> DEFINE e == job[d].for
  <1>1. /\ job[d].at = "mark" /\ e \in Device /\ request[e].state # "none"
        /\ request' = [request EXCEPT ![e].state = IF request[e].state = "open" THEN "granted"
                                                   ELSE request[e].state]
        /\ job' = [job EXCEPT ![d] = Idle]
        /\ UNCHANGED <<roomVars, faults, keychainVars, view, was, missed, rows, granted>>
    BY DEF Mark, AnswerInv, AnswersTyped, Answers
  <1>2. /\ job'[d] = Idle /\ job'[d].at = "idle" /\ \A x \in Device \ {d} : job'[x] = job[x]
    BY <1>1 DEF KeyInv, CopiesAreFunctions, Idle
  <1>3. /\ request' = [x \in Device |-> request'[x]]
        /\ \A x \in Device \ {e} : request'[x] = request[x]
        /\ request'[e].have = request[e].have /\ request'[e].state # "none"
        /\ request'[e] = [state |-> request'[e].state, have |-> request'[e].have]
    BY <1>1 DEF AnswerInv, RequestsTyped
  <1>4. JobMoves(d)
    BY <1>1, <1>2, <1>3 DEF JobMoves, roomVars, keychainVars, AnswerInv, RequestsTyped
  <1>5. leaves \subseteq Device
    BY DEF KeyInv, NothingAhead
  <1>6. ASSUME faults' = 0, NEW x \in leaves, request'[x].state = "granted" PROVE Covered(x)
    <2>1. faults = 0
      BY <1>1, <1>6
    <2>2. CASE x = e
      BY <1>1, <2>1, <2>2 DEF AnswerInv, AllCovered
    <2>3. CASE x # e
      BY <1>3, <1>5, <1>6, <2>1, <2>3 DEF AnswerInv, AllCovered
    <2> QED BY <2>2, <2>3
  <1> QED BY <1>2, <1>4, <1>5, <1>6, JobKeeps DEF Answers

\* A job that is dropped answers nobody.
LEMMA DroppedKeeps ==
  ASSUME AnswerInv, KeyInv, PerEpoch, NEW d \in Device, Abandon(d) \/ RestartApp(d)
  PROVE  AnswerInv'
  <1>1. /\ job' = [job EXCEPT ![d] = Idle]
        /\ UNCHANGED <<roomVars, keychainVars, was, request>>
        /\ faults' \in {faults, faults + 1}
    BY DEF Abandon, RestartApp, Fault
  <1>2. /\ job'[d] = Idle /\ job'[d].at = "idle" /\ \A x \in Device \ {d} : job'[x] = job[x]
    BY <1>1 DEF KeyInv, CopiesAreFunctions, Idle
  <1>3. JobMoves(d)
    BY <1>1, <1>2 DEF JobMoves, roomVars, keychainVars, AnswerInv, RequestsTyped
  <1>4. leaves \subseteq Device
    BY DEF KeyInv, NothingAhead
  <1>5. ASSUME faults' = 0, NEW e \in leaves, request'[e].state = "granted"
        PROVE  Covered(e)
    <2>1. faults = 0 /\ request' = request
      BY <1>1, <1>5 DEF AnswerInv, RequestsTyped
    <2> QED BY <1>5, <2>1 DEF AnswerInv, AllCovered
  <1> QED BY <1>2, <1>3, <1>4, <1>5, JobKeeps DEF Answers

\* askForKeys: who asks for the first time has no answer yet; who asks again has met a
\* fault.
LEMMA AskKeeps ==
  ASSUME AnswerInv, KeyInv, PerEpoch, NEW d \in Device, Ask(d)
  PROVE  AnswerInv'
  <1>1. PICK have :
          /\ request' = [request EXCEPT ![d] = [state |-> "open", have |-> have]]
          /\ d \in leaves
          /\ UNCHANGED <<roomVars, keychainVars, view, was, missed, rows, granted, job>>
          /\ \/ request[d].state = "none" /\ faults' = faults
             \/ faults' = faults + 1
    BY DEF Ask, Fault
  <1>2. /\ request' = [x \in Device |-> request'[x]]
        /\ \A x \in Device \ {d} : request'[x] = request[x]
        /\ request'[d] = [state |-> "open", have |-> have]
        /\ request'[d].state = "open" /\ request'[d].have = have
    BY <1>1 DEF AnswerInv, RequestsTyped
  <1>3. was[d] # {} /\ leaves \subseteq Device
    BY <1>1 DEF KeyInv, NothingAhead
  <1>4. RequestsTyped'
    BY <1>1, <1>2, <1>3 DEF AnswerInv, RequestsTyped, roomVars, PerEpoch
  <1>5. AnswersTyped' /\ ScopesStand'
    BY <1>1, <1>2 DEF AnswerInv, AnswersTyped, Answers, ScopesStand, roomVars, PerEpoch
  <1>6. ASSUME faults' = 0 PROVE AllCovered!2'
    <2>1. faults = 0 /\ request[d].state = "none"
      BY <1>1, <1>6 DEF AnswerInv, RequestsTyped
    <2>2. \A x \in Device : Answers(x) => job[x].for # d
      BY <2>1 DEF AnswerInv, AnswersTyped
    <2>3. \A x \in Device \ {d} : Covered(x) => Covered(x)'
      BY <1>1, <1>2, StillCovered DEF roomVars, keychainVars
    <2>4. ASSUME NEW x \in Device, Answers(x), job[x].at = "built", NEW k \in job[x].keys
          PROVE  Below(job[x].for, k)'
      <3>1. job[x].for \in Device \ {d} /\ Below(job[x].for, k)
        BY <2>1, <2>2, <2>4 DEF AnswerInv, AllCovered, AnswersTyped
      <3> QED BY <1>1, <1>2, <3>1 DEF Below
    <2>5. ASSUME NEW x \in Device, job[x].at = "mark", job[x].for \in leaves
          PROVE  Covered(job[x].for)'
      <3>1. Answers(x)
        BY <2>5 DEF AnswerInv, AnswersTyped, Answers
      <3>2. PICK y \in Device \ {d} : y = job[x].for /\ Covered(y)
        BY <2>1, <2>2, <2>5, <3>1 DEF AnswerInv, AllCovered, AnswersTyped
      <3>3. Covered(y)'
        BY <2>3, <3>2
      <3>4. job' = job
        BY <1>1
      <3> QED BY <3>2, <3>3, <3>4 DEF Covered
    <2>6. ASSUME NEW x \in leaves, request'[x].state = "granted" PROVE Covered(x)'
      <3>1. x # d /\ x \in Device /\ request[x].state = "granted"
        BY <1>2, <1>3, <2>6
      <3> QED BY <2>1, <2>3, <3>1 DEF AnswerInv, AllCovered
    <2> QED BY <1>1, <2>4, <2>5, <2>6 DEF roomVars, Answers
  <1> QED BY <1>4, <1>5, <1>6 DEF AnswerInv, AllCovered

\* The rest of an answer: the newest tree still has the asker, so that a bundle for it
\* is posted, or an undelivered one of the same scope is waiting.
LEMMA PostKeeps ==
  ASSUME AnswerInv, KeyInv, PerEpoch, NEW d \in Device, Post(d)
  PROVE  AnswerInv'
  <1>1. PICK done \in SUBSET Recipients(d) :
          /\ faults' = faults + (IF done = Recipients(d) THEN 0 ELSE 1)
          /\ \/ mailbox' = mailbox \cup {b \in GrantBundles(d, done) : ~Duplicate(b)}
             \/ mailbox' = mailbox \cup GrantBundles(d, done)
          /\ job' = [job EXCEPT ![d] = Finish(d, done)]
    BY DEF Post, Deposit
  <1>2. /\ job[d].at = "built" /\ Hold(d, Passed(d))
        /\ UNCHANGED <<tier, leaves, was, request>>
    BY DEF Post
  <1>3. leaves \subseteq Device /\ \A e \in Device : job[e].keys \subseteq Nat
    BY DEF KeyInv, NothingAhead, GrantInv
  <1>4. Min(job[d].keys) \in job[d].keys
    BY <1>2, <1>3, LeastNatural DEF AnswerInv, AnswersTyped
  <1>5. \A b \in GrantBundles(d, done) :
          b.scope = Min(job[d].keys) /\ b.body = job[d].keys
    BY DEF GrantBundles
  <1>6. job'[d] = Finish(d, done) /\ \A e \in Device \ {d} : job'[e] = job[e]
    BY <1>1 DEF KeyInv, CopiesAreFunctions
  <1>7. \/ job'[d].at = "idle"
        \/ job'[d].at = "mark" /\ job'[d].for = job[d].for /\ job[d].for # Everybody
    BY <1>6 DEF Finish, Idle
  <1>8. JobMoves(d)
    <2>1. \A e \in Device : held[e] \subseteq held'[e]
      BY <1>2 DEF Hold, KeyInv, GrantInv, KeysAreFunctions
    <2>2. mailbox \subseteq mailbox' /\ \A b \in mailbox' \ mailbox : b.scope \in b.body
      BY <1>1, <1>4, <1>5
    <2>3. faults' \in {faults, faults + 1}
      BY <1>1 DEF AnswerInv, RequestsTyped
    <2> QED BY <1>2, <1>6, <2>1, <2>2, <2>3 DEF JobMoves, AnswerInv, RequestsTyped
  <1>9. Answers(d)' => job'[d].for \in Device /\ request[job'[d].for].state # "none"
    BY <1>2, <1>7 DEF Answers, AnswerInv, AnswersTyped
  <1>10. ASSUME faults' = 0, job'[d].at = "mark", job'[d].for \in leaves
         PROVE  Covered(job[d].for)'
    <2> DEFINE keys == job[d].keys
    <2>1. PICK e \in leaves : e = job'[d].for /\ e = job[d].for /\ e # Everybody
      BY <1>7, <1>10
    <2>2. faults = 0 /\ done = Recipients(d)
      BY <1>1, <1>10 DEF AnswerInv, RequestsTyped
    <2>3. e \in done
      BY <1>2, <2>1, <2>2 DEF Recipients, Leaves
    <2>4. PICK b \in GrantBundles(d, done) : b.to = e
      <3>1. [to |-> e, scope |-> Min(keys), body |-> keys] \in GrantBundles(d, done)
        BY <2>3, Zenon DEF GrantBundles
      <3> QED BY <3>1
    <2>5. \E o \in mailbox' : o.to = e /\ o.scope = Min(keys)
      BY <1>1, <1>5, <2>4 DEF Duplicate
    <2>6. \E o \in mailbox' : o.to = e /\ Min(keys) \in o.body
      BY <1>8, <2>5 DEF AnswerInv, ScopesStand, JobMoves
    <2>7. Min(keys) \in InReach(e)'
      BY <2>6 DEF InReach, Addressed
    <2>8. Below(e, Min(keys))
      BY <1>2, <1>4, <2>1, <2>2 DEF AnswerInv, AllCovered, Answers
    <2>9. Covered(e)'
      BY <1>2, <2>7, <2>8 DEF Covered, Below
    <2> QED BY <2>1, <2>9 DEF Covered
  <1>11. ASSUME faults' = 0, NEW e \in leaves, request'[e].state = "granted"
         PROVE  Covered(e)
    <2>1. faults = 0 /\ request' = request
      BY <1>2, <1>8, <1>11 DEF AnswerInv, RequestsTyped, JobMoves
    <2> QED BY <1>11, <2>1 DEF AnswerInv, AllCovered
  <1> QED BY <1>3, <1>7, <1>8, <1>9, <1>10, <1>11, JobKeeps

\* What a step of the grants does to the answers to a request.
LEMMA GrantStepAnswers ==
  ASSUME AnswerInv, KeyInv, PerEpoch, NEW d \in Device, GrantStep(d)
  PROVE  AnswerInv'
  <1>0. /\ leaves \subseteq Device
        /\ held = [e \in Device |-> held[e]] /\ was = [e \in Device |-> was[e]]
        /\ faults \in Nat
    BY DEF KeyInv, NothingAhead, GrantInv, KeysAreFunctions, AnswerInv, RequestsTyped
  <1>1. CASE Join(d)
    <2>1. /\ was[d] = {} /\ leaves' = leaves \cup {d}
          /\ UNCHANGED <<tier, request, job, held, mailbox, faults>>
          /\ \A e \in Device : was[e] \subseteq was'[e]
      BY <1>0, <1>1 DEF Join, JoinGroup, Enrol, keychainVars
    <2> QED BY <1>0, <2>1, NobodyAnswers
  <1>2. CASE \E a \in Account : Evict(d, a)
    <2>1. /\ leaves' \subseteq leaves
          /\ UNCHANGED <<tier, request, job, mailbox, faults>>
          /\ \A e \in Device : was[e] \subseteq was'[e] /\ held[e] \subseteq held'[e]
      BY <1>0, <1>2 DEF Evict, LeaveGroup, Enrol, Hold
    <2> QED BY <1>0, <2>1, NobodyAnswers
  <1>3. CASE Sync(d) \/ Seal(d)
    <2>1. PICK keys :
            /\ Learn(d, keys) \/ Listen(d, keys)
            /\ UNCHANGED <<tier, leaves, request, job, mailbox, was>>
      BY <1>3 DEF Sync, Seal, roomVars
    <2>2. PICK took : held' = [held EXCEPT ![d] = @ \cup took]
      BY <2>1 DEF Learn, Hold, Listen
    <2>3. faults' \in {faults, faults + 1}
      BY <2>1 DEF Learn, Listen, Fault
    <2>4. \A e \in Device : held[e] \subseteq held'[e]
      BY <1>0, <2>2
    <2> QED BY <1>0, <2>1, <2>3, <2>4, NobodyAnswers
  <1>4. CASE \E b \in mailbox : Ingest(d, b)
    <2>1. PICK b \in mailbox :
            /\ Learn(d, b.body) /\ b.to = d /\ mailbox' = mailbox \ {b}
            /\ UNCHANGED <<tier, leaves, request, job, was>>
      BY <1>4 DEF Ingest, Addressed, Acknowledge, grantVars
    <2>2. /\ \A e \in Device : held[e] \subseteq held'[e]
          /\ b.body \subseteq held'[d]
          /\ faults' \in {faults, faults + 1}
      BY <1>0, <2>1 DEF Learn, Hold, Fault
    <2> QED BY <1>0, <2>1, <2>2, NobodyAnswers
  <1>5. CASE Uploads(d) \/ RecoverKeys(d)
    <2>1. UNCHANGED <<tier, leaves, request, job, mailbox, was, faults>>
      BY <1>5 DEF Uploads, RecoverKeys, roomVars, grantVars
    <2>2. \A e \in Device : held[e] \subseteq held'[e]
      BY <1>0, <1>5 DEF Uploads, RecoverKeys, ReadBackup, WriteBackup, Recover
    <2> QED BY <1>0, <2>1, <2>2, NobodyAnswers
  <1>6. CASE Build(d) \/ \E e \in Device : Answer(d, e)
    BY <1>6, BuiltKeeps
  <1>7. CASE Post(d)
    BY <1>7, PostKeeps
  <1>8. CASE Mark(d)
    BY <1>8, MarkKeeps
  <1>9. CASE Abandon(d) \/ RestartApp(d)
    BY <1>9, DroppedKeeps
  <1>10. CASE Ask(d)
    BY <1>10, AskKeeps
  <1> QED BY <1>1, <1>2, <1>3, <1>4, <1>5, <1>6, <1>7, <1>8, <1>9, <1>10 DEF GrantStep

\* With one root, devices join and things go wrong one at a time.
LEMMA RootStepsCount ==
  ASSUME ARNext
  PROVE  faults' \in {faults, faults + 1} /\ leaves' \subseteq leaves \cup Device
  <1>1. PICK d \in Device : RootStep(d) \/ JoinRoot(d)
    BY DEF ARNext
  <1>2. CASE Fail(d) \/ Restart(d)
    BY <1>2 DEF Fail, Restart, Fault, roomVars
  <1>3. CASE JoinRoot(d)
    BY <1>3 DEF JoinRoot, JoinGroup
  <1>4. CASE Resolve(d) \/ Compare(d) \/ Mint(d) \/ Claim(d) \/ Persist(d) \/ Yield(d)
             \/ Expire(d)
    BY <1>4 DEF Resolve, Compare, Mint, Claim, Persist, Yield, Expire, Settle, roomVars
  <1>5. CASE SealRow(d) \/ NameRoot(d) \/ Distribute(d) \/ BackupRoot(d) \/ ImportRoot(d)
             \/ \E b \in mailbox : IngestRoot(d, b)
    BY <1>5 DEF SealRow, NameRoot, Distribute, BackupRoot, ImportRoot, IngestRoot, Fault, roomVars
  <1> QED BY <1>1, <1>2, <1>3, <1>4, <1>5 DEF RootStep

\* AnswerInv is inductive, beside KeyInv.
LEMMA NextAnswerInv == AnswerInv /\ KeyInv /\ [Next]_vars => AnswerInv'
  <1> SUFFICES ASSUME AnswerInv, KeyInv, [Next]_vars PROVE AnswerInv'
    OBVIOUS
  <1>1. CASE PerEpoch /\ EGNext
    BY <1>1, GrantStepAnswers DEF EGNext
  <1>2. CASE SingleRoot /\ ARNext /\ UNCHANGED <<keychainVars, grantVars>>
    <2>1. ~PerEpoch /\ ~PerEpoch' /\ UNCHANGED <<request, job, was>>
      BY <1>2, RootStepsKeepRoom DEF PerEpoch, SingleRoot, grantVars
    <2>2. faults' \in Nat /\ leaves' \subseteq Device
      BY <1>2, RootStepsCount DEF AnswerInv, RequestsTyped
    <2>3. ASSUME NEW d \in Device PROVE request[d].state = "none" /\ ~Answers(d)
      <3>1. \A e \in Device : request[e].state = "none"
        BY <2>1 DEF AnswerInv, RequestsTyped
      <3>2. Answers(d) => job[d].for \in Device /\ request[job[d].for].state # "none"
        BY DEF AnswerInv, AnswersTyped
      <3>3. ~Answers(d)
        BY <3>1, <3>2
      <3> QED BY <3>1, <3>3
    <2>4. RequestsTyped' /\ AnswersTyped' /\ ScopesStand'
      <3>1. RequestsTyped'
        <4>1. /\ request' = [d \in Device |-> request'[d]]
              /\ \A d \in Device :
                   request'[d] = [state |-> request'[d].state, have |-> request'[d].have]
          BY <2>1 DEF AnswerInv, RequestsTyped
        <4>2. \A d \in Device : request'[d].state = "none"
          BY <2>1, <2>3
        <4> QED BY <2>2, <4>1, <4>2 DEF RequestsTyped
      <3>2. AnswersTyped'
        BY <2>1 DEF AnswerInv, AnswersTyped, Answers
      <3> QED BY <2>1, <3>1, <3>2 DEF ScopesStand
    <2>5. AllCovered'
      <3>1. \A d \in Device : ~Answers(d)' /\ job'[d].at # "mark"
        BY <2>1, <2>3 DEF AnswerInv, AnswersTyped, Answers
      <3>2. \A e \in leaves' : request'[e].state # "granted"
        BY <2>1, <2>2, <2>3
      <3> QED BY <3>1, <3>2 DEF AllCovered
    <2> QED BY <2>4, <2>5 DEF AnswerInv
  <1>3. CASE UNCHANGED vars
    <2>1. UNCHANGED <<tier, leaves, was, mailbox, held, faults, request, job>>
      BY <1>3 DEF vars, roomVars, keychainVars, grantVars
    <2>2. RequestsTyped' /\ AnswersTyped' /\ ScopesStand'
      BY <2>1 DEF AnswerInv, RequestsTyped, AnswersTyped, ScopesStand, Answers, PerEpoch
    <2>3. AllCovered'
      BY <2>1 DEF AnswerInv, AllCovered, Answers, Covered, Below, InReach, Addressed
    <2> QED BY <2>2, <2>3 DEF AnswerInv
  <1> QED BY <1>1, <1>2, <1>3 DEF Next

\* A request that is marked granted has brought its device a key it asked for, or one
\* waits for it in the mailbox, whatever was posted for it before, whoever joins or is
\* removed while the answer is put together (grantMissingTo and markGranted), as long
\* as nothing failed on the way.
THEOREM GrantCoversAskHolds == Spec => []GrantCoversAsk
  <1>1. AnswerInv => GrantCoversAsk
    BY DEF AnswerInv, AllCovered, Covered, Below, GrantCoversAsk
  <1>2. Init => AnswerInv /\ KeyInv
    BY InitAnswerInv, InitKeyInv
  <1>3. AnswerInv /\ KeyInv /\ [Next]_vars => (AnswerInv /\ KeyInv)'
    BY NextAnswerInv, NextKeyInv
  <1> QED BY <1>1, <1>2, <1>3, PTL DEF Spec
=============================================================================
