----------------------- MODULE DeliveryServiceProofs -----------------------
(***************************************************************************)
(* Proofs about DeliveryService and, on top of it, ArchiveHolder, for      *)
(* every set of handlers, devices, roots and group ids and every bound.    *)
(*                                                                         *)
(* The safety invariants of DeliveryService are not inductive by           *)
(* themselves: that Advance writes a free place of the log needs the log   *)
(* to be full up to the current epoch, and that the row it writes exists   *)
(* needs "a handler in phase locked holds the lock of an existing row".    *)
(* IInv adds those two.                                                    *)
(*                                                                         *)
(* The lease's CoverageIsCommitted rests on the fence: a coverage update   *)
(* writes an epoch it compared under the lock applyCommitCas needs.        *)
(* Fenced says so of an update under way; that Commits respect it is       *)
(* DSKeepsFence.  HolderNamesTheRoot rests on the claim being a compare-   *)
(* and-set over NULL: Named says what a claim in flight still knows of     *)
(* the fingerprint.                                                        *)
(***************************************************************************)
EXTENDS ArchiveHolder, TLAPS

\* A handler that is past its SELECT ... FOR UPDATE and found a row holds its
\* lock; every transaction carries a group id and an epoch within the bound.
TxDiscipline ==
  \A r \in Request :
    /\ tx[r].phase = "locked" => rowLock = r /\ group # NoGroup
    /\ tx[r].phase # "idle" => tx[r].id \in GroupId
    /\ tx[r].asserted < MaxEpoch

LogIsFull == DOMAIN commits = 1..Epoch

IInv ==
  /\ TypeOK
  /\ TxDiscipline
  /\ LogIsFull
  /\ LogIsAChain
  /\ AcceptedStaysLogged
  /\ InfoIsNewest
  /\ PublishedIsCommitted

-----------------------------------------------------------------------------
\* The current epoch is a number within the bound, and is the row's when there
\* is a row (mls_groups.current_epoch).
LEMMA EpochType ==
  ASSUME TypeOK
  PROVE  /\ Epoch \in Epochs
         /\ group # NoGroup => Epoch = group.epoch /\ group \in Row
  BY EpochBound DEF TypeOK, Epoch, Epochs, Row

\* A value of Row is never the null row.
LEMMA RowIsNotNull == \A row \in Row : row # NoGroup
  BY EpochBound, NullsAreDistinct DEF Row, Epochs

\* Finish leaves a well-typed transaction behind and no claim on anything.
LEMMA IdleType ==
  ASSUME NEW a \in Answer
  PROVE  /\ Idle(a) \in Tx
         /\ Idle(a).phase = "idle"
         /\ Idle(a).asserted = 0
  BY EpochBound DEF Idle, Tx, Phase, Epochs

\* DSInit establishes the inductive invariant.
LEMMA InitIInv == DSInit => IInv
  <1> SUFFICES ASSUME DSInit PROVE IInv
    OBVIOUS
  <1>1. Epoch = 0 /\ DOMAIN commits = {}
    BY DEF DSInit, Epoch
  <1>2. \A r \in Request : tx[r].phase = "idle" /\ tx[r].asserted = 0
    BY IdleType DEF DSInit, Answer
  <1>3. TypeOK
    BY <1>1, IdleType DEF DSInit, TypeOK, Answer
  <1>a. 0 < MaxEpoch
    BY EpochBound
  <1>4. TxDiscipline
    BY <1>2, <1>a DEF TxDiscipline
  <1>5. LogIsFull
    BY <1>1 DEF LogIsFull
  <1>6. AcceptedStaysLogged
    BY <1>2 DEF AcceptedStaysLogged
  <1>7. LogIsAChain /\ InfoIsNewest /\ PublishedIsCommitted
    BY <1>1 DEF DSInit, LogIsAChain, InfoIsNewest, PublishedIsCommitted
  <1> QED BY <1>3, <1>4, <1>5, <1>6, <1>7 DEF IInv

-----------------------------------------------------------------------------
\* What a step does to the row and the log: nothing, the genesis
\* row, or one Commit, by the handler r that asserted the current epoch.
Keeps == UNCHANGED <<group, commits>>

Genesis ==
  /\ group = NoGroup
  /\ \E g \in GroupId : group' = [id |-> g, epoch |-> 0, info |-> 0]
  /\ commits' = commits

Appends(r) ==
  /\ tx[r].phase \in {"absent", "locked"}
  /\ tx[r].asserted = Epoch
  /\ group' \in [id : GroupId, epoch : {Epoch + 1},
                 info : {IF group = NoGroup THEN NextInfo(r, Epoch + 1, NoInfo)
                         ELSE NextInfo(r, Epoch + 1, group.info)}]
  /\ commits' = Logged(r, Epoch + 1)
  /\ tx' = [tx EXCEPT ![r].phase = "accepted"]

\* InsertGroup and Advance are the steps that append.
LEMMA WinnersAppend ==
  ASSUME IInv, NEW r \in Request, InsertGroup(r) \/ Advance(r)
  PROVE  Appends(r)
  <1>1. CASE InsertGroup(r)
    <2>1. Epoch = 0 /\ tx[r].asserted = 0 /\ tx[r].phase = "absent"
      BY <1>1 DEF InsertGroup, Epoch
    <2>2. tx[r].id \in GroupId
      BY <2>1 DEF IInv, TxDiscipline
    <2> QED BY <1>1, <2>1, <2>2 DEF InsertGroup, Appends
  <1>2. CASE Advance(r)
    <2>1. group # NoGroup /\ tx[r].phase = "locked"
      BY <1>2 DEF Advance, IInv, TxDiscipline
    <2>2. Epoch = group.epoch /\ group \in Row /\ tx[r].asserted = Epoch
      BY <1>2, <2>1, EpochType DEF Advance, IInv
    <2>3. group' = [id |-> group.id, epoch |-> Epoch + 1,
                    info |-> NextInfo(r, Epoch + 1, group.info)]
      BY <1>2, <2>2 DEF Advance, Row
    <2>4. group.id \in GroupId
      BY <2>2 DEF Row
    <2> QED BY <1>2, <2>1, <2>2, <2>3, <2>4 DEF Advance, Appends
  <1> QED BY <1>1, <1>2

\* Every step of the service does one of those three things.
LEMMA StepKinds ==
  ASSUME IInv, DSNext
  PROVE  Keeps \/ Genesis \/ \E r \in Request : Appends(r)
  <1>1. ASSUME NEW g \in GroupId, RegisterGenesis(g) PROVE Genesis
    BY <1>1 DEF RegisterGenesis, Genesis
  <1>2. ASSUME NEW r \in Request, NEW e \in 0..(MaxEpoch-1), NEW g \in GroupId,
               NEW i \in BOOLEAN,
               SelectLocksRow(r, e, g, i) \/ SelectFindsNoRow(r, e, g, i)
        PROVE  Keeps
    BY <1>2 DEF SelectLocksRow, SelectFindsNoRow, Begin, Keeps
  <1>3. ASSUME NEW r \in Request, HandlerStep(r)
        PROVE  Keeps \/ Appends(r)
    <2>1. CASE BadGenesis(r) \/ LoseGenesis(r) \/ Reject(r) \/ Rollback(r) \/ Publish(r)
      BY <2>1 DEF BadGenesis, LoseGenesis, Reject, Rollback, Publish, Keeps
    <2> QED BY <1>3, <2>1, WinnersAppend DEF HandlerStep
  <1> QED BY <1>1, <1>2, <1>3 DEF DSNext

\* An append writes the first free place of the log and keeps the rest.
LEMMA AppendIsFresh ==
  ASSUME IInv, NEW r \in Request, Appends(r)
  PROVE  /\ Epoch + 1 \in 1..MaxEpoch
         /\ Epoch' = Epoch + 1
         /\ DOMAIN commits' = 1..Epoch + 1
         /\ commits'[Epoch + 1] = [by |-> r, on |-> Epoch, info |-> tx[r].info]
         /\ \A e \in DOMAIN commits : e # Epoch + 1 /\ commits'[e] = commits[e]
         /\ group' \in Row
  <1>1. Epoch \in Nat /\ Epoch < MaxEpoch
    BY EpochType, EpochBound DEF IInv, TxDiscipline, Appends, Epochs
  <1>2. Epoch + 1 \in 1..MaxEpoch
    BY <1>1, EpochBound
  <1>3. DOMAIN commits' = DOMAIN commits \cup {Epoch + 1}
    BY DEF Appends, Logged
  <1>4. DOMAIN commits' = 1..Epoch + 1
    BY <1>1, <1>3 DEF IInv, LogIsFull
  <1>5. commits'[Epoch + 1] = [by |-> r, on |-> Epoch, info |-> tx[r].info]
    BY DEF Appends, Logged
  <1>6. \A e \in DOMAIN commits : e # Epoch + 1 /\ commits'[e] = commits[e]
    BY <1>1 DEF Appends, Logged, IInv, LogIsFull
  <1>7. group' \in Row
    BY <1>1, <1>2, EpochType, EpochBound
       DEF Appends, Row, NextInfo, Epochs, IInv
  <1>8. group' # NoGroup
    BY <1>7, RowIsNotNull
  <1>9. Epoch' = Epoch + 1
    BY <1>8 DEF Appends, Epoch
  <1> QED BY <1>2, <1>4, <1>5, <1>6, <1>7, <1>9

-----------------------------------------------------------------------------
\* A handler that leaves its transaction (or has it accepted) and gives back
\* at most its own lock disturbs no other handler.
LEMMA HandlerMoves ==
  ASSUME IInv, DSNext, NEW r \in Request, NEW t \in Tx,
         tx' = [tx EXCEPT ![r] = t],
         t.phase # "locked",
         t.phase # "idle" => t.id \in GroupId,
         t.asserted < MaxEpoch,
         rowLock' = rowLock \/ (rowLock = r /\ rowLock' = Free)
  PROVE  tx' \in [Request -> Tx] /\ rowLock' \in Locker \cup {Free} /\ TxDiscipline'
  <1> USE DEF IInv, TypeOK, TxDiscipline
  <1>1. group # NoGroup => group' # NoGroup
    BY StepKinds, AppendIsFresh, RowIsNotNull DEF Keeps, Genesis
  <1>2. \A q \in Request : tx'[q] = IF q = r THEN t ELSE tx[q]
    OBVIOUS
  <1>3. \A q \in Request : q # r /\ tx[q].phase = "locked" => rowLock' = q
    OBVIOUS
  <1> QED BY <1>1, <1>2, <1>3

\* TypeOK of tx and rowLock, and TxDiscipline, are preserved by every step.
LEMMA TxStep ==
  ASSUME IInv, DSNext
  PROVE  tx' \in [Request -> Tx] /\ rowLock' \in Locker \cup {Free} /\ TxDiscipline'
  <1> DEFINE Goal == /\ tx' \in [Request -> Tx]
                     /\ rowLock' \in Locker \cup {Free}
                     /\ TxDiscipline'
  <1>a. 0 < MaxEpoch
    BY EpochBound
  <1>1. ASSUME NEW g \in GroupId, RegisterGenesis(g) PROVE Goal
    <2>1. group' # NoGroup
      BY <1>1, StepKinds, AppendIsFresh, RowIsNotNull, EpochBound
         DEF RegisterGenesis, Row, Epochs
    <2> QED BY <1>1, <2>1 DEF RegisterGenesis, IInv, TypeOK, TxDiscipline
  <1>2. ASSUME NEW r \in Request, NEW e \in 0..(MaxEpoch-1), NEW g \in GroupId,
               NEW i \in BOOLEAN,
               SelectLocksRow(r, e, g, i) \/ SelectFindsNoRow(r, e, g, i)
        PROVE  Goal
    <2> DEFINE rec(ph) == [phase |-> ph, asserted |-> e, id |-> g, info |-> i,
                           answer |-> "none"]
    <2>1. PICK ph \in {"absent", "locked"} :
             /\ tx' = [tx EXCEPT ![r] = rec(ph)]
             /\ ph = "locked" => group # NoGroup /\ rowLock = Free /\ rowLock' = r
             /\ ph = "absent" => rowLock' = rowLock
             /\ group' = group
      BY <1>2 DEF SelectLocksRow, SelectFindsNoRow, Begin
    <2>2. rec(ph) \in Tx
      BY EpochBound DEF Tx, Phase, Answer, Epochs
    <2>3. \A q \in Request : tx'[q] = IF q = r THEN rec(ph) ELSE tx[q]
      BY <2>1 DEF IInv, TypeOK
    <2>4. e < MaxEpoch
      BY EpochBound
    <2>5. ph = "locked" => \A q \in Request : tx[q].phase # "locked"
      BY <2>1, NullsAreDistinct DEF IInv, TxDiscipline
    <2>6. TxDiscipline'
      BY <2>1, <2>3, <2>4, <2>5 DEF IInv, TxDiscipline
    <2> QED BY <2>1, <2>2, <2>6, NullsAreDistinct DEF IInv, TypeOK
  <1>3. ASSUME NEW r \in Request, NEW a \in Answer, Finish(r, a),
               rowLock' = rowLock \/ (rowLock = r /\ rowLock' = Free)
        PROVE  Goal
    BY <1>3, <1>a, HandlerMoves, IdleType DEF Finish
  <1>4. ASSUME NEW r \in Request, tx' = [tx EXCEPT ![r].phase = "accepted"],
               tx[r].phase # "idle",
               rowLock' = rowLock \/ (rowLock = r /\ rowLock' = Free)
        PROVE  Goal
    <2> DEFINE t == [tx[r] EXCEPT !.phase = "accepted"]
    <2>1. tx[r] \in Tx /\ tx[r].id \in GroupId /\ tx[r].asserted < MaxEpoch
      BY <1>4 DEF IInv, TypeOK, TxDiscipline
    <2>2. t \in Tx /\ t.phase = "accepted" /\ t.id = tx[r].id /\ t.asserted = tx[r].asserted
      BY <2>1 DEF Tx, Phase
    <2>3. tx' = [tx EXCEPT ![r] = t]
      BY <1>4
    <2> HIDE DEF t
    <2> QED BY <1>4, <2>1, <2>2, <2>3, HandlerMoves
  <1>5. ASSUME NEW r \in Request, HandlerStep(r) PROVE Goal
    <2>1. tx[r].phase = "locked" => rowLock = r
      BY DEF IInv, TxDiscipline
    <2>2. CASE BadGenesis(r) \/ LoseGenesis(r) \/ Reject(r) \/ Rollback(r) \/ Publish(r)
      <3>1. PICK a \in Answer : Finish(r, a)
        BY <2>2 DEF BadGenesis, LoseGenesis, Reject, Rollback, Publish, Answer
      <3>2. rowLock' = rowLock \/ (rowLock = r /\ rowLock' = Free)
        BY <2>1, <2>2 DEF BadGenesis, LoseGenesis, Reject, Rollback, Publish
      <3> QED BY <1>3, <3>1, <3>2
    <2>3. CASE InsertGroup(r) \/ Advance(r)
      BY <1>4, <2>1, <2>3 DEF InsertGroup, Advance
    <2> QED BY <1>5, <2>2, <2>3 DEF HandlerStep
  <1> QED BY <1>1, <1>2, <1>5 DEF DSNext

\* A handler is in phase accepted after a step if it was before, or if the step
\* is its own append.
LEMMA AcceptedStep ==
  ASSUME IInv, DSNext, NEW r \in Request, tx'[r].phase = "accepted"
  PROVE  /\ tx'[r].asserted = tx[r].asserted
         /\ tx[r].phase = "accepted" \/ Appends(r)
  <1> USE DEF IInv, TypeOK
  <1>1. ASSUME NEW g \in GroupId, RegisterGenesis(g)
        PROVE  tx'[r] = tx[r]
    BY <1>1 DEF RegisterGenesis
  <1>2. ASSUME NEW q \in Request, NEW e \in 0..(MaxEpoch-1), NEW g \in GroupId,
               NEW i \in BOOLEAN,
               SelectLocksRow(q, e, g, i) \/ SelectFindsNoRow(q, e, g, i)
        PROVE  tx'[r] = tx[r]
    BY <1>2 DEF SelectLocksRow, SelectFindsNoRow, Begin
  <1>3. ASSUME NEW q \in Request, NEW a \in Answer, Finish(q, a)
        PROVE  tx'[r] = tx[r]
    BY <1>3, IdleType DEF Finish
  <1>4. ASSUME NEW q \in Request, HandlerStep(q)
        PROVE  tx'[r] = tx[r] \/ (q = r /\ tx'[r].asserted = tx[r].asserted /\ Appends(r))
    <2>1. CASE BadGenesis(q) \/ LoseGenesis(q) \/ Reject(q) \/ Rollback(q) \/ Publish(q)
      <3>1. PICK a \in Answer : Finish(q, a)
        BY <2>1 DEF BadGenesis, LoseGenesis, Reject, Rollback, Publish, Answer
      <3> QED BY <1>3, <3>1
    <2>2. CASE InsertGroup(q) \/ Advance(q)
      <3>1. tx' = [tx EXCEPT ![q].phase = "accepted"]
        BY <2>2 DEF InsertGroup, Advance
      <3>2. CASE q # r
        BY <3>1, <3>2
      <3>3. CASE q = r
        <4>1. tx[r] \in Tx
          OBVIOUS
        <4>2. tx'[r].asserted = tx[r].asserted
          BY <3>1, <3>3, <4>1 DEF Tx
        <4> QED BY <2>2, <3>3, <4>2, WinnersAppend
      <3> QED BY <3>2, <3>3
    <2> QED BY <1>4, <2>1, <2>2 DEF HandlerStep
  <1> QED BY <1>1, <1>2, <1>4 DEF DSNext

\* Only an accepted handler publishes, and only the epoch it appended.
LEMMA PublishStep ==
  ASSUME DSNext, NEW e \in published', e \notin published
  PROVE  \E r \in Request : tx[r].phase = "accepted" /\ e = tx[r].asserted + 1
  <1>1. ASSUME NEW r \in Request, HandlerStep(r)
        PROVE  published' = published \/
               (tx[r].phase = "accepted" /\ published' = published \cup {tx[r].asserted + 1})
    BY <1>1 DEF HandlerStep, BadGenesis, InsertGroup, LoseGenesis, Reject, Advance,
                Rollback, Publish
  <1> QED BY <1>1 DEF DSNext, RegisterGenesis, SelectLocksRow, SelectFindsNoRow, Begin

-----------------------------------------------------------------------------
\* The log part of the invariant, when the row and the log are left alone.
LEMMA LogStep ==
  ASSUME IInv, DSNext
  PROVE  /\ group' \in Row \cup {NoGroup}
         /\ DOMAIN commits' \subseteq 1..MaxEpoch
         /\ \A e \in DOMAIN commits' : commits'[e] \in Commit
         /\ LogIsFull' /\ LogIsAChain' /\ InfoIsNewest'
         /\ \A e \in DOMAIN commits : e \in DOMAIN commits' /\ commits'[e] = commits[e]
         /\ Epoch' >= Epoch
  <1> DEFINE Goal == /\ group' \in Row \cup {NoGroup}
                     /\ DOMAIN commits' \subseteq 1..MaxEpoch
                     /\ \A e \in DOMAIN commits' : commits'[e] \in Commit
                     /\ LogIsFull' /\ LogIsAChain' /\ InfoIsNewest'
                     /\ \A e \in DOMAIN commits : e \in DOMAIN commits'
                                                  /\ commits'[e] = commits[e]
                     /\ Epoch' >= Epoch
  <1>0. Epoch \in Nat /\ Epoch \in 0..MaxEpoch
    BY EpochType, EpochBound DEF IInv, Epochs
  <1>1. CASE Keeps
    BY <1>0, <1>1 DEF Keeps, IInv, TypeOK, LogIsFull, LogIsAChain, InfoIsNewest, Epoch
  <1>2. CASE Genesis
    <2>1. group' \in Row /\ group'.epoch = 0
      BY <1>2, EpochBound DEF Genesis, Row, Epochs
    <2>2. Epoch = 0 /\ Epoch' = 0
      BY <1>2, <2>1, RowIsNotNull DEF Genesis, Epoch
    <2>3. DOMAIN commits = {}
      BY <2>2 DEF IInv, LogIsFull
    <2> QED BY <1>2, <2>1, <2>2, <2>3 DEF Genesis, IInv, TypeOK, LogIsFull, LogIsAChain, InfoIsNewest
  <1>3. ASSUME NEW r \in Request, Appends(r) PROVE Goal
    <2> DEFINE n == Epoch + 1
    <2>1. /\ n \in 1..MaxEpoch /\ Epoch' = n /\ DOMAIN commits' = 1..n
          /\ commits'[n] = [by |-> r, on |-> Epoch, info |-> tx[r].info]
          /\ \A e \in DOMAIN commits : e # n /\ commits'[e] = commits[e]
          /\ group' \in Row
      BY <1>3, AppendIsFresh
    <2>2. \A e \in 1..n : e # n => e \in DOMAIN commits
      BY <1>0 DEF IInv, LogIsFull
    <2>3. tx[r].info \in BOOLEAN
      BY DEF IInv, TypeOK, Tx
    <2>4. \A e \in DOMAIN commits' : commits'[e] \in Commit
      BY <1>0, <2>1, <2>2, <2>3 DEF IInv, TypeOK, Commit, Epochs
    <2>5. LogIsAChain'
      BY <1>0, <2>1, <2>2 DEF IInv, LogIsAChain
    <2>6. group'.info = IF tx[r].info THEN n
                        ELSE IF group = NoGroup THEN NoInfo ELSE group.info
      BY <1>3 DEF Appends, NextInfo
    <2>7. ASSUME NEW e \in DOMAIN commits', commits'[e].info
          PROVE  group'.info # NoInfo /\ group'.info >= e
      <3>1. CASE tx[r].info
        BY <1>0, <2>1, <2>6, <3>1, NullsAreDistinct
      <3>2. CASE ~tx[r].info
        <4>1. e \in DOMAIN commits /\ commits[e].info
          BY <2>1, <2>2, <2>7, <3>2
        <4>2. group # NoGroup
          BY <1>0, <4>1 DEF IInv, LogIsFull, Epoch
        <4> QED BY <2>6, <3>2, <4>1, <4>2 DEF IInv, InfoIsNewest
      <3> QED BY <3>1, <3>2
    <2>8. InfoIsNewest'
      BY <2>7 DEF InfoIsNewest
    <2>9. LogIsFull'
      BY <2>1 DEF LogIsFull
    <2>10. Epoch' >= Epoch /\ DOMAIN commits' \subseteq 1..MaxEpoch
      BY <1>0, <2>1, EpochBound
    <2>11. \A e \in DOMAIN commits : e \in DOMAIN commits'
      BY <1>0, <2>1 DEF IInv, LogIsFull
    <2> QED BY <2>1, <2>4, <2>5, <2>8, <2>9, <2>10, <2>11
  <1> QED BY <1>1, <1>2, <1>3, StepKinds

\* Every step preserves the inductive invariant.
LEMMA NextIInv == IInv /\ [DSNext]_dsVars => IInv'
  <1> SUFFICES ASSUME IInv, [DSNext]_dsVars PROVE IInv'
    OBVIOUS
  <1>1. CASE UNCHANGED dsVars
    BY <1>1 DEF dsVars, IInv, TypeOK, TxDiscipline, LogIsFull, LogIsAChain,
                AcceptedStaysLogged, InfoIsNewest, PublishedIsCommitted, Epoch
  <1>2. CASE DSNext
    <2>1. AcceptedStaysLogged'
      <3> SUFFICES ASSUME NEW r \in Request, tx'[r].phase = "accepted"
                   PROVE  LET e == tx'[r].asserted + 1 IN
                          /\ e \in DOMAIN commits'
                          /\ commits'[e].by = r
                          /\ commits'[e].on = tx'[r].asserted
        BY DEF AcceptedStaysLogged
      <3>1. CASE tx[r].phase = "accepted"
        BY <1>2, <3>1, AcceptedStep, LogStep DEF IInv, AcceptedStaysLogged
      <3>2. CASE Appends(r)
        <4>1. tx'[r].asserted = Epoch
          BY <1>2, <3>2, AcceptedStep DEF Appends
        <4>2. /\ DOMAIN commits' = 1..Epoch + 1
              /\ commits'[Epoch + 1] = [by |-> r, on |-> Epoch, info |-> tx[r].info]
              /\ Epoch + 1 \in 1..MaxEpoch
          BY <3>2, AppendIsFresh
        <4>3. Epoch \in Nat
          BY EpochType DEF IInv, Epochs
        <4> QED BY <4>1, <4>2, <4>3
      <3> QED BY <1>2, <3>1, <3>2, AcceptedStep
    <2>2. PublishedIsCommitted'
      BY <1>2, PublishStep, LogStep DEF IInv, PublishedIsCommitted, AcceptedStaysLogged
    <2>3. published' \subseteq 1..MaxEpoch
      BY <1>2, <2>2, LogStep DEF PublishedIsCommitted
    <2> QED BY <1>2, <2>1, <2>2, <2>3, LogStep, TxStep DEF IInv, TypeOK
  <1> QED BY <1>1, <1>2

-----------------------------------------------------------------------------
\* IInv holds in every reachable state of the service.
THEOREM Invariant == DSSpec => []IInv
  <1> QED BY InitIInv, NextIInv, PTL DEF DSSpec

\* The row, the log, the lock and the transactions always have their types.
THEOREM TypeCorrect == DSSpec => []TypeOK
  <1>1. IInv => TypeOK
    BY DEF IInv
  <1> QED BY <1>1, Invariant, PTL

\* SI-2: the log of accepted Commits is a chain, and a handler about to answer
\* "accepted" still owns its epoch.
THEOREM SI2 == DSSpec => [](LogIsAChain /\ AcceptedStaysLogged)
  <1>1. IInv => LogIsAChain /\ AcceptedStaysLogged
    BY DEF IInv
  <1> QED BY <1>1, Invariant, PTL

\* getCommitsSince serves every epoch a returning device missed, and no other.
THEOREM CatchUp == DSSpec => []CatchUpHasNoGap
  <1>1. IInv => CatchUpHasNoGap
    <2> SUFFICES ASSUME IInv, NEW since \in 0..Epoch
                 PROVE  CommitsSince(since) = since+1..Epoch
      BY DEF CatchUpHasNoGap
    <2>1. Epoch \in Nat
      BY EpochType DEF IInv, Epochs
    <2> QED BY <2>1 DEF CommitsSince, IInv, LogIsFull
  <1> QED BY <1>1, Invariant, PTL

\* A joiner is served the newest GroupInfo, and nothing is fanned out before it
\* is committed.
THEOREM FanOut == DSSpec => [](InfoIsNewest /\ PublishedIsCommitted)
  <1>1. IInv => InfoIsNewest /\ PublishedIsCommitted
    BY DEF IInv
  <1> QED BY <1>1, Invariant, PTL

\* No step rewrites a logged Commit or takes the epoch back.
THEOREM Frozen == DSSpec => HistoryIsFrozen
  <1>1. IInv /\ [DSNext]_dsVars =>
          [/\ Epoch' >= Epoch
           /\ \A e \in DOMAIN commits : e \in DOMAIN commits' /\ commits'[e] = commits[e]]_dsVars
    BY LogStep
  <1> QED BY <1>1, Invariant, PTL DEF DSSpec, HistoryIsFrozen

-----------------------------------------------------------------------------
\* The chain a state maps to.
ChainOf == [e \in DOMAIN commits |-> [by |-> commits[e].by, on |-> commits[e].on]]

\* A step of the service is a step of CommitChain, or leaves the chain alone.
LEMMA StepRefines ==
  ASSUME IInv, [DSNext]_dsVars
  PROVE  [Chain!Next]_<<Epoch, ChainOf>>
  <1>1. CASE UNCHANGED <<group, commits>>
    BY <1>1 DEF Epoch, ChainOf
  <1>2. CASE Genesis
    <2>1. group' \in Row /\ group'.epoch = 0
      BY <1>2, EpochBound DEF Genesis, Row, Epochs
    <2> QED BY <1>2, <2>1, RowIsNotNull DEF Genesis, Epoch, ChainOf
  <1>3. ASSUME NEW r \in Request, Appends(r)
        PROVE  Chain!Extend(r)
    <2> DEFINE n == Epoch + 1
    <2>1. /\ Epoch' = n /\ DOMAIN commits' = 1..n
          /\ commits'[n] = [by |-> r, on |-> Epoch, info |-> tx[r].info]
          /\ \A e \in DOMAIN commits : e # n /\ commits'[e] = commits[e]
      BY <1>3, AppendIsFresh
    <2>2. \A e \in 1..n : e # n => e \in DOMAIN commits
      BY EpochType DEF IInv, LogIsFull, Epochs
    <2>3. ChainOf' = [e \in 1..n |-> IF e = n THEN [by |-> r, on |-> Epoch]
                                             ELSE ChainOf[e]]
      BY <2>1, <2>2 DEF ChainOf
    <2> QED BY <2>1, <2>3 DEF Chain!Extend, ChainOf
  <1> QED BY <1>1, <1>2, <1>3, StepKinds DEF Chain!Next, Keeps, dsVars

\* The Delivery Service implements the single chain of CommitChain.
THEOREM Refinement == DSSpec => ImplementsCommitChain
  <1>1. DSInit => Chain!Init
    BY DEF DSInit, Chain!Init, Epoch
  <1>2. IInv /\ [DSNext]_dsVars => [Chain!Next]_Chain!vars
    BY StepRefines DEF Chain!vars, ChainOf
  <1> QED BY <1>1, <1>2, Invariant, PTL DEF DSSpec, Chain!Spec, ImplementsCommitChain

-----------------------------------------------------------------------------
\* The lease.  What is read and compared is typed.
LeaseTyped ==
  /\ fingerprint \in Root \cup {None}
  /\ holder \in HolderRow \cup {None}
  /\ holderLock \in Handler \cup {Free}
  /\ req \in [Handler -> Req]
  /\ clock \in Time

\* A coverage update that has read the epoch keeps the row locked, and the row as
\* it read it.
Fenced(h) ==
  req[h].phase = "fenced" => rowLock = h /\ group # NoGroup /\ req[h].current = Epoch

\* A claimer that found the lease row keeps it locked.
Locked(h) == req[h].phase = "locked" => holderLock = h /\ holder # None

\* A claimer past the first statement named the fingerprint, and has no later clock.
Named(h) ==
  /\ req[h].phase \in {"proved", "begun", "absent", "locked"}
       => req[h].root \in Root /\ req[h].root = fingerprint /\ req[h].dev \in Device
  /\ req[h].start <= clock

\* A locked row is locked by a transaction that is still open.
LocksHaveOwners ==
  /\ holderLock # Free => req[holderLock].phase = "locked"
  /\ rowLock \in Handler => req[rowLock].phase = "fenced"
  /\ rowLock \in Request => tx[rowLock].phase = "locked"

HolderInv ==
  /\ IInv /\ LeaseTyped /\ LocksHaveOwners
  /\ \A h \in Handler : Fenced(h) /\ Locked(h) /\ Named(h)
  /\ HolderNamesTheRoot /\ CoverageIsCommitted

-----------------------------------------------------------------------------
\* What is no row and no request is told from one.
LEMMA RowsAreNotNull ==
  /\ None \notin Root /\ \A row \in HolderRow : row # None
  /\ \A h \in Handler : h # Free /\ h \notin Request
  /\ NoReq \in Req
  BY HolderNulls, HandlersLock, NullsAreDistinct, LeaseBounds, EpochBound
     DEF HolderRow, NoReq, Req, HPhase, Time, Epochs

\* Nothing is held or claimed at first.
LEMMA InitHolderInv == AHInit => HolderInv
  <1> SUFFICES ASSUME AHInit PROVE HolderInv
    OBVIOUS
  <1>1. IInv /\ rowLock = Free /\ group = NoGroup
    BY InitIInv DEF AHInit, DSInit
  <1>2. LeaseTyped
    BY RowsAreNotNull, LeaseBounds DEF AHInit, LeaseTyped, Time
  <1>3. \A h \in Handler : Fenced(h) /\ Locked(h) /\ Named(h)
    BY DEF AHInit, NoReq, Fenced, Locked, Named
  <1>4. Free \notin Handler \cup Request
    BY RowsAreNotNull, NullsAreDistinct
  <1> QED BY <1>1, <1>2, <1>3, <1>4
          DEF AHInit, HolderInv, LocksHaveOwners, HolderNamesTheRoot, CoverageIsCommitted

-----------------------------------------------------------------------------
\* A Commit, a registration, an answer: none touches the row while a coverage
\* update has it locked.
LEMMA DSKeepsFence ==
  ASSUME IInv, DSNext, NEW h \in Handler, rowLock = h, group # NoGroup
  PROVE  rowLock' = h /\ group' = group
  <1>1. h # Free /\ h \notin Request
    BY RowsAreNotNull
  <1>2. \A r \in Request : tx[r].phase # "locked"
    BY <1>1 DEF IInv, TxDiscipline
  <1> QED BY <1>1, <1>2
          DEF DSNext, RegisterGenesis, SelectLocksRow, SelectFindsNoRow, Begin, HandlerStep,
              BadGenesis, InsertGroup, LoseGenesis, Reject, Advance, Rollback, Publish

\* The row lock changes hands only with its owner's phase.
LEMMA DSLockOwner ==
  ASSUME IInv, DSNext, NEW l, rowLock = l,
         rowLock \in Request => tx[rowLock].phase = "locked"
  PROVE  /\ rowLock' \in Request => tx'[rowLock'].phase = "locked"
         /\ rowLock' \in Handler => rowLock' = rowLock
  <1>0. tx \in [Request -> Tx] /\ Free \notin Request /\ Free \notin Handler
    BY RowsAreNotNull, NullsAreDistinct DEF IInv, TypeOK
  <1>1. ASSUME NEW g \in GroupId, RegisterGenesis(g)
        PROVE  UNCHANGED <<rowLock, tx>>
    BY <1>1 DEF RegisterGenesis
  <1>2. ASSUME NEW r \in Request, NEW e \in 0..(MaxEpoch-1), NEW g \in GroupId,
               NEW i \in BOOLEAN, SelectLocksRow(r, e, g, i)
        PROVE  rowLock' = r /\ tx'[r].phase = "locked" /\ r \notin Handler
    BY <1>0, <1>2, HandlersLock DEF SelectLocksRow, Begin
  <1>3. ASSUME NEW r \in Request, NEW e \in 0..(MaxEpoch-1), NEW g \in GroupId,
               NEW i \in BOOLEAN, SelectFindsNoRow(r, e, g, i)
        PROVE  rowLock' = rowLock /\ \A q \in Request : tx[q].phase = "locked" => tx'[q] = tx[q]
    BY <1>0, <1>3 DEF SelectFindsNoRow, Begin
  <1>4. ASSUME NEW r \in Request, HandlerStep(r)
        PROVE  \/ rowLock' = Free
               \/ rowLock' = rowLock /\ \A q \in Request : tx[q].phase = "locked" => tx'[q] = tx[q]
    <2>1. CASE Reject(r) \/ Advance(r)
      BY <2>1 DEF Reject, Advance
    <2>2. CASE BadGenesis(r) \/ LoseGenesis(r) \/ InsertGroup(r) \/ Publish(r)
      BY <1>0, <2>2 DEF BadGenesis, LoseGenesis, InsertGroup, Publish, Finish
    <2>3. CASE Rollback(r)
      <3>1. rowLock # r => tx[r].phase # "locked"
        BY DEF IInv, TxDiscipline
      <3> QED BY <1>0, <2>3, <3>1 DEF Rollback, Finish
    <2> QED BY <1>4, <2>1, <2>2, <2>3 DEF HandlerStep
  <1> QED BY <1>0, <1>1, <1>2, <1>3, <1>4 DEF DSNext

\* A step of the service.
LEMMA ServiceStep ==
  ASSUME HolderInv, DSNext, UNCHANGED ahOnly
  PROVE  HolderInv'
  <1>1. IInv'
    BY NextIInv DEF HolderInv
  <1>2. ASSUME NEW h \in Handler PROVE Fenced(h)' /\ Locked(h)' /\ Named(h)'
    BY <1>2, DSKeepsFence DEF HolderInv, ahOnly, Fenced, Locked, Named, Epoch
  <1>3. LocksHaveOwners'
    <2>1. /\ rowLock' \in Request => tx'[rowLock'].phase = "locked"
          /\ rowLock' \in Handler => rowLock' = rowLock
      BY DSLockOwner DEF HolderInv, LocksHaveOwners
    <2> QED BY <2>1 DEF HolderInv, LocksHaveOwners, ahOnly
  <1>4. CoverageIsCommitted'
    <2>1. Epoch' >= Epoch /\ group' \in Row \cup {NoGroup}
      BY LogStep DEF HolderInv
    <2>3. Epoch \in Nat /\ Epoch' \in Nat
      BY <2>1, EpochType, EpochBound DEF HolderInv, IInv, Epochs, Epoch, Row
    <2>2. holder # None => holder.covered \in Nat
      BY EpochBound DEF HolderInv, LeaseTyped, HolderRow, Epochs
    <2> QED BY <2>1, <2>2, <2>3 DEF HolderInv, CoverageIsCommitted, ahOnly
  <1> QED BY <1>1, <1>2, <1>3, <1>4 DEF HolderInv, LeaseTyped, HolderNamesTheRoot, ahOnly

-----------------------------------------------------------------------------
\* The service's invariant speaks of the row lock only where a Commit holds it.
LEMMA LockAway ==
  ASSUME IInv, UNCHANGED <<group, commits, tx, published>>,
         rowLock' \in Locker \cup {Free},
         rowLock' = rowLock \/ rowLock \notin Request
  PROVE  IInv'
  <1>1. TxDiscipline'
    BY DEF IInv, TxDiscipline
  <1> QED BY <1>1 DEF IInv, TypeOK, LogIsFull, LogIsAChain, AcceptedStaysLogged,
                      InfoIsNewest, PublishedIsCommitted, Epoch

\* A handler's request goes on to q, which claims no more than it has, and the
\* handler takes a lock nobody holds, gives its own back or touches none.
LEMMA RequestMoves ==
  ASSUME HolderInv, NEW h \in Handler, NEW q \in Req,
         req' = [req EXCEPT ![h] = q],
         UNCHANGED <<group, commits, tx, published, clock>>,
         holder' \in HolderRow \cup {None}, holder # None => holder' # None,
         HolderNamesTheRoot', CoverageIsCommitted',
         fingerprint' \in Root \cup {None}, fingerprint \in {None, fingerprint'},
         q.phase \in {"proved", "begun", "absent", "locked"}
           => q.root \in Root /\ q.root = fingerprint' /\ q.dev \in Device,
         q.start <= clock,
         IF q.phase = "locked" THEN /\ holderLock' = h /\ holderLock = Free
                                    /\ holder' # None
         ELSE holderLock' = IF holderLock = h THEN Free ELSE holderLock,
         IF q.phase = "fenced" THEN /\ rowLock' = h /\ rowLock = Free
                                    /\ group # NoGroup /\ q.current = Epoch
         ELSE rowLock' = IF rowLock = h THEN Free ELSE rowLock
  PROVE  HolderInv'
  <1>0. /\ \A g \in Handler : req'[g] = IF g = h THEN q ELSE req[g]
        /\ h \in Locker /\ h # Free /\ h \notin Request
        /\ rowLock \in Locker \cup {Free}
        /\ Free \notin Request \cup Handler
    BY HandlersLock, RowsAreNotNull, NullsAreDistinct DEF HolderInv, LeaseTyped, IInv, TypeOK
  <1>1. IInv'
    BY <1>0, LockAway DEF HolderInv
  <1>2. LeaseTyped'
    BY <1>0 DEF HolderInv, LeaseTyped
  <1>3. ASSUME NEW g \in Handler PROVE Fenced(g)' /\ Locked(g)' /\ Named(g)'
    <2>1. CASE g = h
      BY <1>0, <2>1 DEF Fenced, Locked, Named, Epoch
    <2>2. CASE g # h
      <3>1. Fenced(g) /\ Locked(g) /\ Named(g) /\ req'[g] = req[g] /\ g # Free
        BY <1>0, <2>2 DEF HolderInv
      <3>2. Fenced(g)' /\ Locked(g)'
        BY <1>0, <2>2, <3>1 DEF Fenced, Locked, Epoch
      <3>3. Named(g)'
        BY <3>1, RowsAreNotNull DEF Named
      <3> QED BY <3>2, <3>3
    <2> QED BY <2>1, <2>2
  <1>4. LocksHaveOwners'
    <2>1. holderLock' # Free => req'[holderLock'].phase = "locked"
      BY <1>0 DEF HolderInv, LocksHaveOwners, LeaseTyped
    <2>2. rowLock' \in Handler => req'[rowLock'].phase = "fenced"
      BY <1>0 DEF HolderInv, LocksHaveOwners
    <2>3. rowLock' \in Request => tx'[rowLock'].phase = "locked"
      BY <1>0 DEF HolderInv, LocksHaveOwners
    <2> QED BY <2>1, <2>2, <2>3 DEF LocksHaveOwners
  <1> QED BY <1>1, <1>2, <1>3, <1>4 DEF HolderInv

-----------------------------------------------------------------------------
\* The claim's own steps.
LEMMA ClaimKeeps ==
  ASSUME HolderInv, NEW h \in Handler,
         \/ \E d \in Device, f \in Root : ClaimRoot(h, d, f)
         \/ BeginClaim(h) \/ ReadHolder(h) \/ LoseHolderGenesis(h)
  PROVE  HolderInv'
  <1>0. /\ req[h] \in Req /\ NoReq \in Req /\ clock \in Time /\ Fenced(h) /\ Locked(h) /\ Named(h)
        /\ holder \in HolderRow \cup {None} /\ fingerprint \in Root \cup {None}
        /\ h # Free /\ HolderNamesTheRoot /\ CoverageIsCommitted /\ None \notin Root
        /\ rowLock = h => req[h].phase = "fenced"
        /\ holderLock = h => req[h].phase = "locked"
    BY RowsAreNotNull DEF HolderInv, LeaseTyped, LocksHaveOwners
  <1>1. ASSUME NEW d \in Device, NEW f \in Root, ClaimRoot(h, d, f)
        PROVE  HolderInv'
    <2> DEFINE q == [NoReq EXCEPT !.phase = "proved", !.dev = d, !.root = f]
    <2>1. /\ q \in Req /\ q.phase = "proved" /\ q.root = f /\ q.dev = d /\ q.start = 0
          /\ req' = [req EXCEPT ![h] = q] /\ req[h].phase = "idle"
          /\ fingerprint' = f /\ fingerprint \in {None, f}
          /\ UNCHANGED <<dsVars, holder, holderLock, clock>>
      BY <1>0, <1>1 DEF ClaimRoot, NoReq, Req, HPhase
    <2>2. holder # None => fingerprint = f
      <3>1. holder # None => fingerprint \in Root
        BY <1>0 DEF HolderNamesTheRoot, HolderRow
      <3> QED BY <1>0, <2>1, <3>1
    <2> HIDE DEF q
    <2>3. HolderNamesTheRoot' /\ CoverageIsCommitted'
      BY <1>0, <2>1, <2>2 DEF dsVars, HolderNamesTheRoot, CoverageIsCommitted, Epoch
    <2>4. q.start <= clock
      BY <1>0, <2>1, LeaseBounds DEF Time
    <2>5. UNCHANGED <<group, commits, tx, published, clock, rowLock>>
      BY <2>1 DEF dsVars
    <2>6. rowLock # h /\ holderLock # h
      BY <1>0, <2>1
    <2> QED BY <1>0, <2>1, <2>3, <2>4, <2>5, <2>6, RequestMoves
  <1>2. CASE BeginClaim(h)
    <2> DEFINE q == [req[h] EXCEPT !.phase = "begun", !.start = clock]
    <2>1. /\ q \in Req /\ q.phase = "begun" /\ q.root = req[h].root /\ q.dev = req[h].dev /\ q.start = clock
          /\ req' = [req EXCEPT ![h] = q] /\ req[h].phase = "proved"
          /\ UNCHANGED <<dsVars, fingerprint, holder, holderLock, clock>>
      BY <1>0, <1>2 DEF BeginClaim, Req, HPhase
    <2>2. clock <= clock
      BY <1>0 DEF Time
    <2> HIDE DEF q
    <2> QED BY <1>0, <2>1, <2>2, RequestMoves
            DEF dsVars, HolderNamesTheRoot, CoverageIsCommitted, Epoch, Named
  <1>3. ASSUME NEW phase \in {"absent", "locked"}, req' = [req EXCEPT ![h].phase = phase],
               req[h].phase \in {"begun", "absent"},
               UNCHANGED <<dsVars, fingerprint, holder, clock>>,
               IF phase = "locked" THEN holderLock' = h /\ holderLock = Free /\ holder # None
               ELSE holderLock' = holderLock
        PROVE  HolderInv'
    <2> DEFINE q == [req[h] EXCEPT !.phase = phase]
    <2>1. /\ q \in Req /\ q.phase = phase /\ q.root = req[h].root /\ q.dev = req[h].dev /\ q.start = req[h].start
          /\ req' = [req EXCEPT ![h] = q]
      BY <1>0, <1>3 DEF Req, HPhase
    <2> HIDE DEF q
    <2> QED BY <1>0, <1>3, <2>1, RequestMoves
            DEF dsVars, HolderNamesTheRoot, CoverageIsCommitted, Epoch, Named
  <1>4. CASE ReadHolder(h)
    BY <1>3, <1>4 DEF ReadHolder
  <1>5. CASE LoseHolderGenesis(h)
    BY <1>3, <1>5 DEF LoseHolderGenesis
  <1> QED BY <1>1, <1>2, <1>4, <1>5

\* What ends a request: a lease granted or refused, coverage written or refused, an
\* abort.
LEMMA EndKeeps ==
  ASSUME HolderInv, NEW h \in Handler, End(h),
         UNCHANGED <<group, commits, tx, published, clock, fingerprint>>,
         holder' \in HolderRow \cup {None}, holder # None => holder' # None,
         HolderNamesTheRoot', CoverageIsCommitted',
         holderLock' = IF holderLock = h THEN Free ELSE holderLock,
         rowLock' = IF rowLock = h THEN Free ELSE rowLock
  PROVE  HolderInv'
  <1>1. /\ NoReq \in Req /\ NoReq.phase = "idle" /\ NoReq.start = 0
        /\ clock \in Time /\ fingerprint \in Root \cup {None}
    BY RowsAreNotNull DEF NoReq, HolderInv, LeaseTyped
  <1>2. NoReq.start <= clock
    BY <1>1, LeaseBounds DEF Time
  <1>3. req' = [req EXCEPT ![h] = NoReq]
    BY DEF End
  <1> QED BY <1>1, <1>2, <1>3, RequestMoves

\* What answers a request keeps the invariant: the rows it writes are typed, name the
\* root, and cover no epoch the group has not reached.
LEMMA AnswerKeeps ==
  ASSUME HolderInv, NEW h \in Handler,
         \/ \E lease \in 1..MaxLease : InsertHolder(h, lease) \/ GrantLease(h, lease)
         \/ HeldByOther(h) \/ RecordCoverage(h) \/ RefuseCoverage(h) \/ Abort(h)
  PROVE  HolderInv'
  <1>0. /\ req[h] \in Req /\ clock \in Time /\ Fenced(h) /\ Locked(h) /\ Named(h)
        /\ holder \in HolderRow \cup {None} /\ h # Free
        /\ HolderNamesTheRoot /\ CoverageIsCommitted
        /\ rowLock = h => req[h].phase = "fenced"
        /\ holderLock = h => req[h].phase = "locked"
        /\ \A row \in HolderRow : row # None
    BY RowsAreNotNull DEF HolderInv, LeaseTyped, LocksHaveOwners
  <1>e. Epoch \in Nat /\ 0 \in Epochs
    BY EpochType, EpochBound DEF HolderInv, IInv, Epochs
  <1>t. ASSUME NEW lease \in 1..MaxLease
        PROVE  req[h].start + lease \in 0..MaxTime+MaxLease
    <2>1. req[h].start \in 0..MaxTime
      BY <1>0 DEF Req, Time
    <2> QED BY <2>1, LeaseBounds
  <1>1. ASSUME NEW lease \in 1..MaxLease, InsertHolder(h, lease)
        PROVE  HolderInv'
    <2>1. /\ holder' = [dev |-> req[h].dev, covered |-> 0,
                        lease |-> req[h].start + lease, root |-> req[h].root]
          /\ req[h].phase = "absent" /\ End(h)
          /\ UNCHANGED <<dsVars, fingerprint, holderLock, clock>>
      BY <1>1 DEF InsertHolder
    <2>2. req[h].dev \in Device /\ req[h].root \in Root /\ req[h].root = fingerprint
      BY <1>0, <2>1 DEF Named
    <2>3. holder' \in HolderRow
      BY <1>e, <1>t, <2>1, <2>2 DEF HolderRow
    <2>4. HolderNamesTheRoot' /\ CoverageIsCommitted'
      BY <1>e, <2>1, <2>2 DEF HolderNamesTheRoot, CoverageIsCommitted, Epoch, dsVars
    <2> QED BY <1>0, <2>1, <2>3, <2>4, EndKeeps DEF dsVars
  <1>2. ASSUME NEW lease \in 1..MaxLease, GrantLease(h, lease)
        PROVE  HolderInv'
    <2>1. /\ holder' = [holder EXCEPT !.dev = req[h].dev, !.lease = req[h].start + lease,
                                      !.root = req[h].root]
          /\ req[h].phase = "locked" /\ End(h) /\ Unlock(h)
          /\ UNCHANGED <<dsVars, fingerprint, clock>>
      BY <1>2 DEF GrantLease
    <2>2. /\ req[h].dev \in Device /\ req[h].root \in Root /\ req[h].root = fingerprint
          /\ holder # None
      BY <1>0, <2>1 DEF Named, Locked
    <2>3. /\ holder' \in HolderRow /\ holder'.covered = holder.covered
          /\ holder'.root = req[h].root
      BY <1>0, <1>t, <2>1, <2>2 DEF HolderRow
    <2>4. HolderNamesTheRoot' /\ CoverageIsCommitted'
      BY <1>0, <2>1, <2>2, <2>3 DEF HolderNamesTheRoot, CoverageIsCommitted, Epoch, dsVars
    <2> QED BY <1>0, <2>1, <2>3, <2>4, EndKeeps DEF dsVars, Unlock
  <1>3. ASSUME End(h), UNCHANGED <<group, commits, tx, published, fingerprint, holder, clock>>,
               holderLock' = IF holderLock = h THEN Free ELSE holderLock,
               rowLock' = IF rowLock = h THEN Free ELSE rowLock
        PROVE  HolderInv'
    <2>1. HolderNamesTheRoot' /\ CoverageIsCommitted'
      BY <1>0, <1>3 DEF HolderNamesTheRoot, CoverageIsCommitted, Epoch
    <2> QED BY <1>0, <1>3, <2>1, EndKeeps
  <1>4. CASE HeldByOther(h)
    BY <1>0, <1>3, <1>4 DEF HeldByOther, Unlock, dsVars
  <1>5. CASE RefuseCoverage(h)
    BY <1>0, <1>3, <1>5 DEF RefuseCoverage, Fenced
  <1>6. CASE Abort(h)
    BY <1>3, <1>6 DEF Abort, Unlock
  <1>7. CASE RecordCoverage(h)
    <2>1. /\ holder' = [holder EXCEPT !.covered = req[h].epoch]
          /\ req[h].phase = "fenced" /\ End(h) /\ rowLock' = Free
          /\ req[h].epoch <= req[h].current /\ Holds(req[h].dev)
          /\ UNCHANGED <<group, commits, tx, published, fingerprint, holderLock, clock>>
      BY <1>7 DEF RecordCoverage
    <2>2. holder # None /\ rowLock = h /\ req[h].current = Epoch /\ req[h].epoch \in Epochs
      BY <1>0, <2>1 DEF Holds, Fenced, Req
    <2>3. /\ holder' \in HolderRow /\ holder'.covered = req[h].epoch
          /\ holder'.root = holder.root
      BY <1>0, <2>1, <2>2 DEF HolderRow
    <2>4. HolderNamesTheRoot' /\ CoverageIsCommitted'
      BY <1>0, <2>1, <2>2, <2>3 DEF HolderNamesTheRoot, CoverageIsCommitted, Epoch
    <2>5. holderLock # h
      BY <1>0, <2>1
    <2> QED BY <1>0, <2>1, <2>2, <2>3, <2>4, <2>5, EndKeeps
  <1> QED BY <1>1, <1>2, <1>4, <1>5, <1>6, <1>7

\* The fence of a coverage update.
LEMMA FenceKeeps ==
  ASSUME HolderInv, NEW h \in Handler, NEW d \in Device, NEW e \in Epochs, Fence(h, d, e)
  PROVE  HolderInv'
  <1> DEFINE q == [NoReq EXCEPT !.phase = "fenced", !.dev = d, !.epoch = e,
                                !.current = group.epoch]
  <1>0. /\ req[h] \in Req /\ NoReq \in Req /\ clock \in Time
        /\ fingerprint \in Root \cup {None} /\ holder \in HolderRow \cup {None}
        /\ HolderNamesTheRoot /\ CoverageIsCommitted
        /\ holderLock = h => req[h].phase = "locked"
    BY RowsAreNotNull DEF HolderInv, LeaseTyped, LocksHaveOwners
  <1>1. /\ req[h].phase = "idle" /\ group # NoGroup /\ rowLock = Free /\ rowLock' = h
        /\ req' = [req EXCEPT ![h] = q]
        /\ UNCHANGED <<group, commits, tx, published, fingerprint, holder, holderLock, clock>>
    BY DEF Fence
  <1>2. group.epoch = Epoch /\ Epoch \in Epochs
    BY <1>1, EpochType, EpochBound DEF HolderInv, IInv, Epoch
  <1>3. q \in Req /\ q.phase = "fenced" /\ q.start = 0 /\ q.current = Epoch
    BY <1>0, <1>2 DEF NoReq, Req, HPhase
  <1>4. q.start <= clock
    BY <1>0, <1>3, LeaseBounds DEF Time
  <1>5. HolderNamesTheRoot' /\ CoverageIsCommitted' /\ holderLock # h
    BY <1>0, <1>1 DEF HolderNamesTheRoot, CoverageIsCommitted, Epoch
  <1> HIDE DEF q
  <1> QED BY <1>0, <1>1, <1>3, <1>4, <1>5, RequestMoves

\* The holder gives its lease up.
LEMMA ReleaseKeeps ==
  ASSUME HolderInv, NEW d \in Device, Release(d)
  PROVE  HolderInv'
  <1>1. /\ holder # None /\ holder \in HolderRow /\ holder' = [holder EXCEPT !.lease = clock]
        /\ UNCHANGED <<dsVars, fingerprint, holderLock, req, clock>>
    BY DEF HolderInv, LeaseTyped, Release, Holds
  <1>2. clock \in 0..MaxTime+MaxLease
    BY LeaseBounds DEF HolderInv, LeaseTyped, Time
  <1>3. holder' \in HolderRow /\ holder'.covered = holder.covered /\ holder'.root = holder.root
    BY <1>1, <1>2 DEF HolderRow
  <1>4. IInv'
    BY <1>1, LockAway DEF HolderInv, IInv, TypeOK, dsVars
  <1>5. LeaseTyped' /\ LocksHaveOwners' /\ HolderNamesTheRoot' /\ CoverageIsCommitted'
    BY <1>1, <1>3 DEF HolderInv, LeaseTyped, LocksHaveOwners, HolderNamesTheRoot,
                      CoverageIsCommitted, Epoch, dsVars
  <1>6. ASSUME NEW h \in Handler PROVE Fenced(h)' /\ Locked(h)' /\ Named(h)'
    BY <1>1, <1>3, RowsAreNotNull DEF HolderInv, Fenced, Locked, Named, Epoch, dsVars
  <1> QED BY <1>4, <1>5, <1>6 DEF HolderInv

\* The clock only advances, so no open transaction began later than now.
LEMMA TickKeeps ==
  ASSUME HolderInv, Tick
  PROVE  HolderInv'
  <1>1. clock' \in Time /\ clock' = clock + 1 /\ clock \in Nat
    BY LeaseBounds DEF HolderInv, LeaseTyped, Tick, Time
  <1>2. IInv'
    BY LockAway DEF HolderInv, IInv, TypeOK, Tick, dsVars
  <1>3. LeaseTyped' /\ LocksHaveOwners' /\ HolderNamesTheRoot' /\ CoverageIsCommitted'
    BY <1>1 DEF HolderInv, LeaseTyped, LocksHaveOwners, HolderNamesTheRoot,
                CoverageIsCommitted, Epoch, Tick, dsVars
  <1>4. ASSUME NEW h \in Handler PROVE Fenced(h)' /\ Locked(h)' /\ Named(h)'
    <2>1. req[h].start \in Nat
      BY LeaseBounds DEF HolderInv, LeaseTyped, Req, Time
    <2> QED BY <1>1, <2>1 DEF HolderInv, Fenced, Locked, Named, Epoch, Tick, dsVars
  <1> QED BY <1>2, <1>3, <1>4 DEF HolderInv

\* The strengthened invariant is inductive.
LEMMA NextHolderInv == HolderInv /\ [AHNext]_ahVars => HolderInv'
  <1> SUFFICES ASSUME HolderInv, [AHNext]_ahVars PROVE HolderInv'
    OBVIOUS
  <1>1. CASE DSNext /\ UNCHANGED ahOnly
    BY <1>1, ServiceStep
  <1>2. ASSUME NEW h \in Handler, NEW d \in Device,
               \/ \E f \in Root : ClaimRoot(h, d, f)
               \/ \E e \in Epochs : Fence(h, d, e)
        PROVE  HolderInv'
    BY <1>2, ClaimKeeps, FenceKeeps
  <1>3. ASSUME NEW d \in Device, Release(d) PROVE HolderInv'
    BY <1>3, ReleaseKeeps
  <1>4. ASSUME NEW h \in Handler, RequestStep(h) PROVE HolderInv'
    BY <1>4, ClaimKeeps, AnswerKeeps DEF RequestStep
  <1>5. CASE Tick
    BY <1>5, TickKeeps
  <1>6. CASE UNCHANGED ahVars
    <2>1. UNCHANGED dsVars /\ UNCHANGED ahOnly
      BY <1>6 DEF ahVars
    <2>2. IInv'
      BY <2>1, LockAway DEF HolderInv, IInv, TypeOK, dsVars
    <2>3. LeaseTyped' /\ LocksHaveOwners' /\ HolderNamesTheRoot' /\ CoverageIsCommitted'
      BY <2>1 DEF HolderInv, LeaseTyped, LocksHaveOwners, HolderNamesTheRoot,
                  CoverageIsCommitted, Epoch, ahOnly, dsVars
    <2>4. \A h \in Handler : (Fenced(h) /\ Locked(h) /\ Named(h))'
      BY <2>1 DEF HolderInv, Fenced, Locked, Named, Epoch, ahOnly, dsVars
    <2> QED BY <2>2, <2>3, <2>4 DEF HolderInv
  <1> QED BY <1>1, <1>2, <1>3, <1>4, <1>5, <1>6 DEF AHNext

\* The role changes hands only in GrantLease, and there the row's lease had run out
\* when the claim's transaction began, which was no later than now.
LEMMA RoleStep ==
  ASSUME HolderInv, [AHNext]_ahVars, holder # None, holder'.dev # holder.dev
  PROVE  holder.lease <= clock
  <1>0. holder \in HolderRow
    BY DEF HolderInv, LeaseTyped
  <1>1. holder' # holder
    OBVIOUS
  <1>2. ASSUME NEW d \in Device, Release(d) PROVE FALSE
    BY <1>0, <1>2 DEF Release, HolderRow
  <1>3. ASSUME NEW h \in Handler, RecordCoverage(h) PROVE FALSE
    BY <1>0, <1>3 DEF RecordCoverage, HolderRow
  <1>4. PICK h \in Handler, lease \in 1..MaxLease : GrantLease(h, lease)
    BY <1>1, <1>2, <1>3
       DEF AHNext, ahVars, ahOnly, RequestStep, ClaimRoot, Fence, Tick, BeginClaim, ReadHolder,
           LoseHolderGenesis, HeldByOther, InsertHolder, RefuseCoverage, Abort
  <1>5. req[h] \in Req /\ Named(h)
    BY DEF HolderInv, LeaseTyped
  <1>6. /\ ~LeaseValid(h) \/ holder.dev = req[h].dev
        /\ holder' = [holder EXCEPT !.dev = req[h].dev, !.lease = req[h].start + lease,
                                    !.root = req[h].root]
    BY <1>4 DEF GrantLease
  <1>7. ~(holder.lease > req[h].start)
    BY <1>0, <1>6 DEF LeaseValid, HolderRow
  <1>8. req[h].start \in Nat /\ clock \in Nat /\ holder.lease \in Nat
    BY <1>0, <1>5, LeaseBounds DEF Req, Time, HolderInv, LeaseTyped, HolderRow
  <1> QED BY <1>5, <1>7, <1>8 DEF Named

\* Only an update of the coverage changes it, and the fence stands until it ends.
LEMMA CoverageStep ==
  ASSUME HolderInv, [AHNext]_ahVars, holder # None, holder'.covered # holder.covered
  PROVE  /\ holder'.covered <= Epoch
         /\ \E h \in Handler : /\ req[h].phase = "fenced" /\ req'[h] = NoReq
                               /\ req[h].dev = holder.dev
                               /\ req[h].current = Epoch
  <1>0. holder \in HolderRow
    BY DEF HolderInv, LeaseTyped
  <1>1. holder' # holder
    OBVIOUS
  <1>2. ASSUME NEW d \in Device, Release(d) PROVE FALSE
    BY <1>0, <1>2 DEF Release, HolderRow
  <1>3. ASSUME NEW h \in Handler, NEW lease, GrantLease(h, lease) PROVE FALSE
    <2>1. \E dev, until, root :
            holder' = [holder EXCEPT !.dev = dev, !.lease = until, !.root = root]
      BY <1>3 DEF GrantLease
    <2> QED BY <1>0, <2>1 DEF HolderRow
  <1>4. PICK h \in Handler : RecordCoverage(h)
    BY <1>1, <1>2, <1>3
       DEF AHNext, ahVars, ahOnly, RequestStep, ClaimRoot, Fence, Tick, BeginClaim, ReadHolder,
           LoseHolderGenesis, HeldByOther, InsertHolder, RefuseCoverage, Abort
  <1>5. /\ req[h].phase = "fenced" /\ req[h].epoch <= req[h].current /\ Holds(req[h].dev)
        /\ holder' = [holder EXCEPT !.covered = req[h].epoch] /\ End(h)
    BY <1>4 DEF RecordCoverage
  <1>6. req \in [Handler -> Req] /\ Fenced(h)
    BY DEF HolderInv, LeaseTyped
  <1>7. req[h].current = Epoch /\ req'[h] = NoReq /\ req[h].dev = holder.dev
    BY <1>5, <1>6 DEF Fenced, End, Holds
  <1>8. holder'.covered = req[h].epoch
    BY <1>0, <1>5 DEF HolderRow
  <1> QED BY <1>5, <1>7, <1>8

-----------------------------------------------------------------------------
\* In every reachable state of the composition the lease, its requests and the
\* Delivery Service satisfy the strengthened invariant.
THEOREM HolderSafety == AHSpec => []HolderInv
  <1> QED BY InitHolderInv, NextHolderInv, PTL DEF AHSpec

\* SI-7: whatever Commits and claims interleave with it, updateHolderCoverage
\* never records an epoch the group has not reached.
THEOREM CoverageIsCommittedHolds == AHSpec => []CoverageIsCommitted
  <1>1. HolderInv => CoverageIsCommitted
    BY DEF HolderInv
  <1> QED BY <1>1, HolderSafety, PTL

\* SI-7: the coverage changes only at the hand of the device that has the role by
\* then, and the epoch it was compared with is still the group's, although it was
\* read in an earlier statement (updateHolderCoverage locks the row of the group).
THEOREM CoverageIsFencedHolds == AHSpec => CoverageIsFenced
  <1>1. HolderInv /\ [AHNext]_ahVars
          => [holder # None /\ holder'.covered # holder.covered =>
                /\ holder'.covered <= Epoch
                /\ \E h \in Handler : /\ req[h].phase = "fenced" /\ req'[h] = NoReq
                                      /\ req[h].dev = holder.dev
                                      /\ req[h].current = Epoch]_ahVars
    BY CoverageStep
  <1> QED BY <1>1, HolderSafety, PTL DEF AHSpec, CoverageIsFenced

\* Racing first claims with different roots: the row names the stored fingerprint.
THEOREM HolderNamesTheRootHolds == AHSpec => []HolderNamesTheRoot
  <1>1. HolderInv => HolderNamesTheRoot
    BY DEF HolderInv
  <1> QED BY <1>1, HolderSafety, PTL

\* SI-6: claimOrRenewHolder takes the role from another device only after its lease.
THEOREM RoleChangesAfterExpiryHolds == AHSpec => RoleChangesAfterExpiry
  <1>1. HolderInv /\ [AHNext]_ahVars
          => [holder # None /\ holder'.dev # holder.dev => holder.lease <= clock]_ahVars
    BY RoleStep
  <1> QED BY <1>1, HolderSafety, PTL DEF AHSpec, RoleChangesAfterExpiry
=============================================================================
