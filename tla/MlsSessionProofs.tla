-------------------------- MODULE MlsSessionProofs --------------------------
(***************************************************************************)
(* Proofs about MlsSession, for every set of devices and accounts and any  *)
(* number of leaves, departures and faults.                                *)
(*                                                                         *)
(* A device may stand in three places: its session, its saved copy and a   *)
(* reconcile under way.  Each of them is a piece of the accepted chain     *)
(* with the device's leaf in its last tree (StateOK).  What makes that     *)
(* survive POST /commit, which compares nothing but epochs, is what is     *)
(* known of a Commit under way (OpOK): all but its last entry is on the    *)
(* chain, so an accepted one extends the chain it was built on; and the    *)
(* leaf of a join is in no tree until it is accepted, so a joining state   *)
(* has left no epoch whose key it could lack.  Everything said about the   *)
(* chain, the keys and the leaves is monotone (Grows), so a step is        *)
(* examined only at the device that takes it (Moves, Elsewhere).           *)
(***************************************************************************)
EXTENDS MlsSession, WellFoundedInduction, TLAPS

-----------------------------------------------------------------------------
\* What a device has in flight, and the shapes of the client's state.
Operation == [kind : {"none", "boot", "remove"}, leaf : Leaf \cup {None}, hist : Seq(Commit),
              built : Seq(Commit), answer : {"none", "ok", "conflict"}, dropped : BOOLEAN]

Types ==
  /\ log \in Seq(Commit)
  /\ sess \in [Device -> State \cup {None}] /\ saved \in [Device -> State \cup {None}]
  /\ op \in [Device -> Operation]
  /\ minted \in [Device -> 0..MaxLeaves]
  /\ taks = [d \in Device |-> taks[d]] /\ reading = [d \in Device |-> reading[d]]
  /\ unsaved = [d \in Device |-> unsaved[d]]

\* The chain up to some point.
OnChain(h) == Len(h) <= Len(log) /\ \A k \in 1..Len(h) : h[k] = log[k]

\* A leaf of the device was in the group in that epoch.
HasLeaf(d, e) == e \in 0..Len(log)-1 /\ \E l \in log[e+1].tree : l[1] = d

\* The keys of the epochs a leaf left on the way to the n-th Commit, when someone
\* else's Commit ended them: stored, or refused by the store.
Kept(d, leaf, n) ==
  \A e \in 0..n-2 : leaf \in log[e+1].tree /\ log[e+2].by # leaf =>
    e \in DOMAIN taks[d] \cup unsaved[d]

\* A state a device may stand in.
StateOK(d, s) ==
  /\ s.hist # <<>> /\ OnChain(s.hist)
  /\ s.leaf[1] = d /\ s.leaf \in log[Len(s.hist)].tree
  /\ Kept(d, s.leaf, Len(s.hist))

\* Where it stands: in memory, on disk, or in a reconcile under way.
StandsIn(d, s) ==
  \/ s = sess[d] \/ s = saved[d]
  \/ op[d].kind = "remove" /\ s.leaf = op[d].leaf /\ s.hist = op[d].hist

\* What a leaf has built on the chain: itself added, or others left out.
Extends(leaf, built) ==
  LET n == Len(built) IN
  /\ n - 1 <= Len(log) /\ \A k \in 1..n-1 : built[k] = log[k]
  /\ built[n].by = leaf /\ leaf \in built[n].tree
  /\ n = 1 => built[n].tree = {leaf}
  /\ n > 1 => \/ built[n].tree = built[n-1].tree \cup {leaf}
              \/ leaf \in built[n-1].tree /\ built[n].tree \subseteq built[n-1].tree

\* An operation: its leaf is the device's; while a leaf joins nobody else has put it
\* into the tree; what was accepted is on the chain.
OpOK(d, o) ==
  /\ o.kind = "none" => o.built = <<>>
  /\ o.built = <<>> => o.answer = "none"
  /\ o.kind # "none" => o.leaf \in Leaf /\ o.leaf[1] = d /\ o.leaf[2] <= minted[d]
  /\ o.built # <<>> => Extends(o.leaf, o.built)
  /\ o.answer = "ok" => OnChain(o.built)
  /\ o.kind = "boot" => \A k \in 1..Len(log) :
                          o.leaf \in log[k].tree => o.answer = "ok" /\ Len(o.built) <= k
  /\ o.kind = "remove" => o.built # <<>> /\ Len(o.built) = Len(o.hist) + 1

\* The leaves of the chain are leaves that were minted.
LeavesMinted == \A k \in 1..Len(log) : \A l \in log[k].tree : l[2] <= minted[l[1]]

StatesInv == \A d \in Device : \A s \in State : StandsIn(d, s) => StateOK(d, s)
OpsInv    == \A d \in Device : \A o \in Operation : o = op[d] => OpOK(d, o)
KeysInv   == \A d \in Device : \A e \in DOMAIN taks[d] : \A n \in {e, taks[d][e]} : HasLeaf(d, n)
ReadInv   == \A d \in Device : \A e \in {reading[d]} \ {None} : HasLeaf(d, e)

MSInv == /\ Types /\ AuthorsBelong /\ LeavesMinted
         /\ StatesInv /\ OpsInv /\ KeysInv /\ ReadInv

-----------------------------------------------------------------------------
\* Among naturals there is a least one.
LEMMA LeastNatural ==
  ASSUME NEW S, S \subseteq Nat, S # {}
  PROVE  \E m \in S : \A k \in S : m <= k
  <1> DEFINE Less == {ss \in Nat \X Nat : ss[1] < ss[2]}
  <1>1. IsWellFoundedOn(Less, Nat)
    <2>1. OpToRel(<, Nat) = Less
      BY Zenon DEF OpToRel
    <2> QED BY <2>1, NatLessThanWellFounded, Zenon
  <1>2. \A k, m \in Nat : <<k, m>> \in Less <=> k < m
    OBVIOUS
  <1> HIDE DEF Less
  <1>3. PICK m \in S : \A k \in S : ~ (<<k, m>> \in Less)
    BY <1>1, WFMin
  <1>4. \A k \in S : ~ (k < m)
    BY <1>2, <1>3, Zenon
  <1> QED BY <1>4

\* catchUp (mlsSession.ts): it ends at a Commit of the chain, and could process each
\* one it passed.
LEMMA CaughtUpReaches ==
  ASSUME NEW leaf, NEW hist \in Seq(Commit), log \in Seq(Commit), Len(hist) <= Len(log)
  PROVE  \E n \in Len(hist)..Len(log) :
           /\ CaughtUp(leaf, hist) = SubSeq(log, 1, n)
           /\ \A k \in Len(hist)+1..n : CanProcess(leaf, log[k])
  <1> DEFINE Reaches(n) == \A k \in Len(hist)+1..n : CanProcess(leaf, log[k])
             Stops(n) == Reaches(n) /\ \A m \in n+1..Len(log) : ~Reaches(m)
             stop == CHOOSE n \in Len(hist)..Len(log) : Stops(n)
             Bad == {k \in Len(hist)+1..Len(log) : ~CanProcess(leaf, log[k])}
  <1>0. Len(hist) \in Nat /\ Len(log) \in Nat
    OBVIOUS
  <1>1. \E n \in Len(hist)..Len(log) : Stops(n)
    <2>1. CASE Bad = {}
      <3>1. Stops(Len(log))
        BY <1>0, <2>1
      <3> QED BY <1>0, <3>1
    <2>2. CASE Bad # {}
      <3>1. Bad \subseteq Nat
        BY <1>0
      <3>2. PICK b \in Bad : \A k \in Bad : b <= k
        BY <2>2, <3>1, LeastNatural
      <3>3. b \in Len(hist)+1..Len(log) /\ ~CanProcess(leaf, log[b])
        OBVIOUS
      <3>4. Reaches(b - 1)
        BY <1>0, <3>2, <3>3
      <3>5. \A m \in b..Len(log) : ~Reaches(m)
        BY <1>0, <3>3
      <3>6. b - 1 \in Len(hist)..Len(log) /\ Stops(b - 1)
        BY <1>0, <3>3, <3>4, <3>5
      <3> QED BY <3>6
    <2> QED BY <2>1, <2>2
  <1> HIDE DEF Stops
  <1>2. stop \in Len(hist)..Len(log) /\ Stops(stop)
    BY <1>1
  <1>3. CaughtUp(leaf, hist) = SubSeq(log, 1, stop)
    BY DEF CaughtUp, Stops
  <1> QED BY <1>2, <1>3 DEF Stops

-----------------------------------------------------------------------------
\* What every step keeps: the chain, the keys and the leaves only become more.
Grows ==
  /\ Types /\ Types'
  /\ Len(log) <= Len(log') /\ \A k \in 1..Len(log) : log'[k] = log[k]
  /\ \A d \in Device :
       /\ minted[d] <= minted'[d]
       /\ DOMAIN taks[d] \cup unsaved[d] \subseteq DOMAIN taks'[d] \cup unsaved'[d]

\* The chain up to some point stays that.
LEMMA OnChainStays ==
  ASSUME Grows, NEW h \in Seq(Commit), OnChain(h)
  PROVE  OnChain(h)'
  BY DEF Grows, Types, OnChain

\* A leaf that was in an epoch is for good.
LEMMA HasLeafStays ==
  ASSUME Grows, NEW d \in Device, NEW e, HasLeaf(d, e)
  PROVE  HasLeaf(d, e)'
  <1>1. e \in 0..Len(log)-1 /\ e + 1 \in 1..Len(log)
    BY DEF Grows, Types, HasLeaf
  <1>2. log'[e+1] = log[e+1] /\ e \in 0..Len(log')-1
    BY <1>1 DEF Grows, Types
  <1> QED BY <1>2 DEF HasLeaf

\* A state a device may stand in stays one.
LEMMA StateStays ==
  ASSUME Grows, NEW d \in Device, NEW s \in State, StateOK(d, s)
  PROVE  StateOK(d, s)'
  <1>1. s.hist \in Seq(Commit) /\ s.hist # <<>> /\ OnChain(s.hist)
    BY DEF State, StateOK
  <1>2. Len(s.hist) \in 1..Len(log)
    BY <1>1 DEF OnChain, Grows, Types
  <1>3. OnChain(s.hist)'
    BY <1>1, OnChainStays
  <1>4. s.leaf \in log'[Len(s.hist)].tree /\ s.leaf[1] = d
    BY <1>2 DEF StateOK, Grows
  <1>5. Kept(d, s.leaf, Len(s.hist))'
    <2> SUFFICES ASSUME NEW e \in 0..Len(s.hist)-2,
                        s.leaf \in log'[e+1].tree, log'[e+2].by # s.leaf
                 PROVE  e \in DOMAIN taks'[d] \cup unsaved'[d]
      BY DEF Kept
    <2>1. e + 1 \in 1..Len(log) /\ e + 2 \in 1..Len(log)
      BY <1>2 DEF Grows, Types
    <2>2. log'[e+1] = log[e+1] /\ log'[e+2] = log[e+2]
      BY <2>1 DEF Grows
    <2> QED BY <2>2 DEF StateOK, Kept, Grows
  <1> QED BY <1>1, <1>3, <1>4, <1>5 DEF StateOK

\* What a leaf has built on the chain is so still.
LEMMA ExtendsStays ==
  ASSUME Grows, NEW leaf, NEW built \in Seq(Commit), Extends(leaf, built)
  PROVE  Extends(leaf, built)'
  <1>1. Len(log) \in Nat /\ Len(log') \in Nat /\ Len(built) \in Nat
    BY DEF Grows, Types
  <1> QED BY <1>1 DEF Extends, Grows

\* An operation is as it was, as long as no Commit is accepted.
LEMMA OpStays ==
  ASSUME Grows, log' = log, NEW d \in Device, NEW o \in Operation, OpOK(d, o)
  PROVE  OpOK(d, o)'
  <1>1. o.built \in Seq(Commit)
    BY DEF Operation
  <1>2. o.built # <<>> => Extends(o.leaf, o.built)'
    BY <1>1, ExtendsStays DEF OpOK
  <1>3. o.answer = "ok" => OnChain(o.built)'
    BY <1>1, OnChainStays DEF OpOK
  <1>4. o.kind # "none" => o.leaf \in Leaf /\ o.leaf[1] = d /\ o.leaf[2] <= minted'[d]
    <2>1. minted[d] <= minted'[d] /\ minted[d] \in Nat /\ minted'[d] \in Nat
      BY Bounds DEF Grows, Types
    <2>2. ASSUME o.leaf \in Leaf PROVE o.leaf[2] \in Nat
      BY <2>2, Bounds DEF Leaf
    <2> QED BY <2>1, <2>2 DEF OpOK
  <1> QED BY <1>2, <1>3, <1>4 DEF OpOK

\* A step that accepts no Commit keeps what is said of the states and the operations
\* when it is so for the ones it makes.
LEMMA SameChain ==
  ASSUME MSInv, Grows, log' = log,
         \A d \in Device : \A s \in State : StandsIn(d, s)' => StandsIn(d, s) \/ StateOK(d, s)',
         \A d \in Device : \A o \in Operation : o = op'[d] => o = op[d] \/ OpOK(d, o)'
  PROVE  AuthorsBelong' /\ LeavesMinted' /\ StatesInv' /\ OpsInv'
  <1>1. StatesInv'
    BY StateStays DEF MSInv, StatesInv
  <1>2. OpsInv'
    BY OpStays DEF MSInv, OpsInv
  <1>3. LeavesMinted'
    <2> SUFFICES ASSUME NEW k \in 1..Len(log'), NEW l \in log'[k].tree
                 PROVE  l[2] <= minted'[l[1]]
      BY DEF LeavesMinted
    <2>0. k \in 1..Len(log) /\ l \in log[k].tree
      OBVIOUS
    <2>1. l \in Leaf
      <3>1. log \in Seq(Commit)
        BY DEF MSInv, Types
      <3>2. log[k] \in Commit
        BY <2>0, <3>1
      <3> QED BY <2>0, <3>2 DEF Commit
    <2>2. l[1] \in Device /\ l[2] \in Nat
      BY <2>1, Bounds DEF Leaf
    <2>3. l[2] <= minted[l[1]] /\ minted[l[1]] <= minted'[l[1]]
      BY <2>0, <2>2 DEF MSInv, LeavesMinted, Grows
    <2>4. minted[l[1]] \in Nat /\ minted'[l[1]] \in Nat
      BY <2>2, Bounds DEF Grows, Types
    <2> QED BY <2>2, <2>3, <2>4
  <1>4. AuthorsBelong'
    BY DEF MSInv, AuthorsBelong
  <1> QED BY <1>1, <1>2, <1>3, <1>4

\* A step that stores and reads no key keeps what is said of the keys.
LEMMA SameKeys ==
  ASSUME MSInv, Grows, UNCHANGED <<taks, unsaved>>,
         \A d \in Device : reading'[d] \in {reading[d], None}
  PROVE  KeysInv' /\ ReadInv'
  BY HasLeafStays DEF MSInv, KeysInv, ReadInv

-----------------------------------------------------------------------------
\* catchUp (mlsSession.ts) ends on the chain, with the leaf in every tree on the way.
LEMMA CaughtUpStands ==
  ASSUME Types, NEW d \in Device, NEW s \in State, StateOK(d, s),
         NEW to, to = CaughtUp(s.leaf, s.hist)
  PROVE  /\ to \in Seq(Commit) /\ to # <<>> /\ OnChain(to)
         /\ Len(s.hist) \in 1..Len(to) /\ Len(to) \in 1..Len(log)
         /\ \A k \in Len(s.hist)..Len(to) : s.leaf \in log[k].tree
  <1>1. s.hist \in Seq(Commit) /\ Len(s.hist) <= Len(log) /\ s.hist # <<>>
    BY DEF State, StateOK, OnChain
  <1>2. Len(s.hist) \in 1..Len(log) /\ log \in Seq(Commit)
    BY <1>1 DEF Types
  <1>3. PICK n \in Len(s.hist)..Len(log) :
          /\ to = SubSeq(log, 1, n)
          /\ \A k \in Len(s.hist)+1..n : CanProcess(s.leaf, log[k])
    BY <1>1, <1>2, CaughtUpReaches
  <1>4. to \in Seq(Commit) /\ Len(to) = n /\ \A k \in 1..n : to[k] = log[k]
    BY <1>2, <1>3
  <1>5. \A k \in Len(s.hist)..Len(to) : s.leaf \in log[k].tree
    <2> SUFFICES ASSUME NEW k \in Len(s.hist)..n PROVE s.leaf \in log[k].tree
      BY <1>4
    <2>1. CASE k = Len(s.hist)
      BY <2>1 DEF StateOK
    <2>2. CASE k # Len(s.hist)
      <3>1. k \in Len(s.hist)+1..n
        BY <1>2, <2>2
      <3> QED BY <1>3, <3>1 DEF CanProcess
    <2> QED BY <2>1, <2>2
  <1> QED BY <1>2, <1>3, <1>4, <1>5 DEF OnChain

\* The epoch listener (takSession.ts) adds the keys of the epochs it is told of, but for
\* those the store refuses, and leaves every other key and device alone.
LEMMA ListenedAt ==
  ASSUME Types, NEW d \in Device, NEW from, NEW to, NEW lost, Listened(d, from, to, lost)
  PROVE  /\ taks' = [e \in Device |-> taks'[e]] /\ unsaved' = [e \in Device |-> unsaved'[e]]
         /\ \A e \in Device \ {d} : taks'[e] = taks[e] /\ unsaved'[e] = unsaved[e]
         /\ DOMAIN taks[d] \subseteq DOMAIN taks'[d]
         /\ DOMAIN taks'[d] \subseteq DOMAIN taks[d] \cup Announced(from, to)
         /\ \A e \in unsaved[d] \cup Announced(from, to) : e \in DOMAIN taks'[d] \cup unsaved'[d]
         /\ \A e \in DOMAIN taks'[d] :
              taks'[d][e] = IF e \in DOMAIN taks[d] THEN taks[d][e] ELSE e
  <1>1. PICK T : T = DOMAIN taks[d] \cup (Announced(from, to) \ lost)
    OBVIOUS
  <1>2. taks' = [taks EXCEPT ![d] = [e \in T |-> IF e \in DOMAIN taks[d] THEN taks[d][e] ELSE e]]
    BY <1>1 DEF Listened
  <1>3. unsaved' = [unsaved EXCEPT ![d] = (unsaved[d] \ Announced(from, to)) \cup lost]
    BY DEF Listened
  <1>4. /\ taks' = [e \in Device |-> taks'[e]] /\ \A e \in Device \ {d} : taks'[e] = taks[e]
        /\ DOMAIN taks'[d] = T
        /\ \A e \in T : taks'[d][e] = IF e \in DOMAIN taks[d] THEN taks[d][e] ELSE e
    BY <1>2 DEF Types
  <1>5. /\ unsaved' = [e \in Device |-> unsaved'[e]]
        /\ \A e \in Device \ {d} : unsaved'[e] = unsaved[e]
        /\ unsaved'[d] = (unsaved[d] \ Announced(from, to)) \cup lost
    BY <1>3 DEF Types
  <1> QED BY <1>1, <1>4, <1>5

\* Catching up with the listener: the keys stored are of epochs the leaf stood in, and
\* the state reached is one the device may stand in.
LEMMA Travels ==
  ASSUME MSInv, NEW d \in Device, NEW s \in State, StateOK(d, s),
         NEW to, to = CaughtUp(s.leaf, s.hist), log' = log,
         NEW lost, Listened(d, s.hist, to, lost)
  PROVE  /\ taks' = [e \in Device |-> taks'[e]] /\ unsaved' = [e \in Device |-> unsaved'[e]]
         /\ \A e \in Device :
              DOMAIN taks[e] \cup unsaved[e] \subseteq DOMAIN taks'[e] \cup unsaved'[e]
         /\ KeysInv'
         /\ \A t \in State : t.leaf = s.leaf /\ t.hist = to => StateOK(d, t)'
  <1>1. Types
    BY DEF MSInv
  <1>2. /\ to \in Seq(Commit) /\ to # <<>> /\ OnChain(to)
        /\ Len(s.hist) \in 1..Len(to) /\ Len(to) \in 1..Len(log)
        /\ \A k \in Len(s.hist)..Len(to) : s.leaf \in log[k].tree
    BY <1>1, CaughtUpStands
  <1>3. /\ taks' = [e \in Device |-> taks'[e]] /\ unsaved' = [e \in Device |-> unsaved'[e]]
        /\ \A e \in Device \ {d} : taks'[e] = taks[e] /\ unsaved'[e] = unsaved[e]
        /\ DOMAIN taks[d] \subseteq DOMAIN taks'[d]
        /\ DOMAIN taks'[d] \subseteq DOMAIN taks[d] \cup Announced(s.hist, to)
        /\ \A e \in unsaved[d] \cup Announced(s.hist, to) :
             e \in DOMAIN taks'[d] \cup unsaved'[d]
        /\ \A e \in DOMAIN taks'[d] :
             taks'[d][e] = IF e \in DOMAIN taks[d] THEN taks[d][e] ELSE e
    BY <1>1, ListenedAt
  <1>4. Len(s.hist) \in Nat /\ Len(to) \in Nat /\ Len(log) \in Nat
    BY <1>1, <1>2 DEF Types, State
  <1>5. \A e \in Announced(s.hist, to) : e + 1 \in Len(s.hist)..Len(to) /\ e \in 0..Len(log)-1
    BY <1>2, <1>4 DEF Announced, EpochOf
  <1>6. \A e \in Announced(s.hist, to) : HasLeaf(d, e)
    <2>1. s.leaf[1] = d
      BY DEF StateOK
    <2> QED BY <1>2, <1>5, <2>1 DEF HasLeaf
  <1>7. KeysInv'
    <2> SUFFICES ASSUME NEW e \in Device, NEW k \in DOMAIN taks'[e], NEW n \in {k, taks'[e][k]}
                 PROVE  HasLeaf(e, n)'
      BY DEF KeysInv
    <2>1. HasLeaf(e, n)
      <3>1. CASE e # d
        BY <1>3, <3>1 DEF MSInv, KeysInv
      <3>2. CASE e = d /\ k \in DOMAIN taks[d]
        BY <1>3, <3>2 DEF MSInv, KeysInv
      <3>3. CASE e = d /\ k \notin DOMAIN taks[d]
        <4>1. k \in Announced(s.hist, to) /\ n = k
          BY <1>3, <3>3
        <4> QED BY <1>6, <3>3, <4>1
      <3> QED BY <3>1, <3>2, <3>3
    <2> QED BY <2>1 DEF HasLeaf
  <1>8. \A t \in State : t.leaf = s.leaf /\ t.hist = to => StateOK(d, t)'
    <2> SUFFICES ASSUME NEW t \in State, t.leaf = s.leaf, t.hist = to PROVE StateOK(d, t)'
      OBVIOUS
    <2>1. OnChain(t.hist)' /\ t.hist # <<>>
      BY <1>2 DEF OnChain
    <2>2. t.leaf[1] = d /\ t.leaf \in log'[Len(t.hist)].tree
      <3>1. Len(to) \in Len(s.hist)..Len(to)
        BY <1>2, <1>4
      <3> QED BY <1>2, <3>1 DEF StateOK
    <2>3. Kept(d, t.leaf, Len(t.hist))'
      <3> SUFFICES ASSUME NEW e \in 0..Len(to)-2, s.leaf \in log[e+1].tree, log[e+2].by # s.leaf
                   PROVE  e \in DOMAIN taks'[d] \cup unsaved'[d]
        BY DEF Kept
      <3>1. CASE e \in 0..Len(s.hist)-2
        BY <1>3, <3>1 DEF StateOK, Kept
      <3>2. CASE e \notin 0..Len(s.hist)-2
        <4>1. e \in Announced(s.hist, to)
          BY <1>2, <1>4, <3>2 DEF Announced, EpochOf
        <4> QED BY <1>3, <4>1
      <3> QED BY <3>1, <3>2
    <2> QED BY <2>1, <2>2, <2>3 DEF StateOK
  <1> QED BY <1>3, <1>7, <1>8

-----------------------------------------------------------------------------
\* A step of one device that accepts no Commit: it is enough to look at the operation
\* and the states it leaves that device with.
LEMMA Moves ==
  ASSUME MSInv, Grows, log' = log, NEW d \in Device, NEW o \in Operation,
         op' = [op EXCEPT ![d] = o], OpOK(d, o)',
         \A e \in Device \ {d} : sess'[e] = sess[e] /\ saved'[e] = saved[e],
         \A s \in State : (s = sess'[d] \/ s = saved'[d]) => StandsIn(d, s) \/ StateOK(d, s)',
         o.kind = "remove" =>
           \A s \in State : s.leaf = o.leaf /\ s.hist = o.hist => StandsIn(d, s) \/ StateOK(d, s)'
  PROVE  AuthorsBelong' /\ LeavesMinted' /\ StatesInv' /\ OpsInv'
  <1>1. op'[d] = o /\ \A e \in Device \ {d} : op'[e] = op[e]
    BY DEF Grows, Types
  <1>2. \A e \in Device : \A s \in State : StandsIn(e, s)' => StandsIn(e, s) \/ StateOK(e, s)'
    <2> SUFFICES ASSUME NEW e \in Device, NEW s \in State, StandsIn(e, s)'
                 PROVE  StandsIn(e, s) \/ StateOK(e, s)'
      OBVIOUS
    <2>1. CASE e = d
      BY <1>1, <2>1 DEF StandsIn
    <2>2. CASE e # d
      BY <1>1, <2>2 DEF StandsIn
    <2> QED BY <2>1, <2>2
  <1>3. \A e \in Device : \A p \in Operation : p = op'[e] => p = op[e] \/ OpOK(e, p)'
    BY <1>1
  <1> QED BY <1>2, <1>3, SameChain

\* A step that leaves the sessions, the saved copies and the operations alone.
LEMMA Elsewhere ==
  ASSUME MSInv, Grows, UNCHANGED <<log, sess, saved, op>>
  PROVE  AuthorsBelong' /\ LeavesMinted' /\ StatesInv' /\ OpsInv'
  <1>1. \A e \in Device : \A s \in State : StandsIn(e, s)' => StandsIn(e, s)
    BY DEF StandsIn
  <1> QED BY <1>1, SameChain

\* Nothing under way is an operation to have.
LEMMA NoOpOK == ASSUME NEW d \in Device PROVE NoOp \in Operation /\ OpOK(d, NoOp)'
  BY DEF NoOp, Operation, OpOK

\* bootstrap: a saved state is restored.
LEMMA RestoreKept == ASSUME MSInv, NEW d \in Device, Restore(d) PROVE MSInv'
  <1>1. Types' /\ Grows
    BY DEF Restore, MSInv, Types, Grows
  <1>2. PICK o : o = op[d]
    OBVIOUS
  <1>3. o \in Operation /\ op' = [op EXCEPT ![d] = o] /\ OpOK(d, o)'
    <2>1. o \in Operation /\ OpOK(d, o)
      BY <1>2 DEF MSInv, OpsInv, Types
    <2> QED BY <1>1, <1>2, <2>1, OpStays DEF Restore, MSInv, Types
  <1>4. /\ \A e \in Device \ {d} : sess'[e] = sess[e] /\ saved'[e] = saved[e]
        /\ \A s \in State : (s = sess'[d] \/ s = saved'[d]) => StandsIn(d, s)
        /\ o.kind = "remove" => \A s \in State : s.leaf = o.leaf /\ s.hist = o.hist => StandsIn(d, s)
    BY <1>2 DEF Restore, MSInv, Types, StandsIn
  <1>5. log' = log /\ UNCHANGED <<taks, unsaved, reading>>
    BY DEF Restore
  <1>6. AuthorsBelong' /\ LeavesMinted' /\ StatesInv' /\ OpsInv'
    BY <1>1, <1>3, <1>4, <1>5, Moves
  <1> QED BY <1>1, <1>5, <1>6, SameKeys DEF MSInv

\* bootstrap: a new leaf is in no tree of the chain.
LEMMA MintLeafKept == ASSUME MSInv, NEW d \in Device, MintLeaf(d) PROVE MSInv'
  <1>1. PICK o : o = Begun(d, "boot", <<d, minted[d] + 1>>, <<>>, <<>>)
    OBVIOUS
  <1>2. op' = [op EXCEPT ![d] = o] /\ minted' = [minted EXCEPT ![d] = @ + 1]
    BY <1>1 DEF MintLeaf
  <1>3. /\ minted[d] \in Nat /\ minted[d] + 1 \in 1..MaxLeaves
        /\ <<d, minted[d] + 1>> \in Leaf
    BY Bounds DEF MintLeaf, MSInv, Types, Leaf
  <1>4. /\ o.kind = "boot" /\ o.leaf = <<d, minted[d] + 1>> /\ o.built = <<>>
        /\ o.answer = "none" /\ o \in Operation
    <2>1. op[d].dropped \in BOOLEAN
      BY DEF MSInv, Types, Operation
    <2> QED BY <1>1, <1>3, <2>1 DEF Begun, Operation
  <1>5. Types' /\ Grows
    <2>1. minted' \in [Device -> 0..MaxLeaves] /\ \A e \in Device : minted[e] <= minted'[e]
      BY <1>2, <1>3, Bounds DEF MSInv, Types
    <2> QED BY <1>2, <1>4, <2>1 DEF MintLeaf, MSInv, Types, Grows
  <1>6. \A k \in 1..Len(log) : o.leaf \notin log[k].tree
    BY <1>3, <1>4 DEF MSInv, LeavesMinted
  <1>7. OpOK(d, o)'
    <2>1. log' = log /\ minted'[d] = minted[d] + 1
      BY <1>2, <1>3 DEF MintLeaf, MSInv, Types
    <2>2. o.leaf \in Leaf /\ o.leaf[1] = d /\ o.leaf[2] <= minted'[d]
      BY <1>3, <1>4, <2>1
    <2> QED BY <1>4, <1>6, <2>1, <2>2 DEF OpOK
  <1>8. /\ UNCHANGED <<log, sess, saved, taks, unsaved, reading>>
        /\ \A s \in State : (s = sess'[d] \/ s = saved'[d]) => StandsIn(d, s)
    BY DEF MintLeaf, StandsIn
  <1>9. AuthorsBelong' /\ LeavesMinted' /\ StatesInv' /\ OpsInv'
    BY <1>2, <1>4, <1>5, <1>7, <1>8, Moves
  <1> QED BY <1>5, <1>8, <1>9, SameKeys DEF MSInv

\* bootstrap: the genesis, or a Commit that adds the leaf to the tree as it is.
LEMMA BuildJoinKept == ASSUME MSInv, NEW d \in Device, BuildJoin(d) PROVE MSInv'
  <1> DEFINE leaf == op[d].leaf
             tree == IF log = <<>> THEN {leaf} ELSE Tree(log) \cup {leaf}
             c == [by |-> leaf, tree |-> tree]
  <1>1. op[d] \in Operation /\ OpOK(d, op[d]) /\ log \in Seq(Commit)
    BY DEF MSInv, OpsInv, Types
  <1>2. leaf \in Leaf /\ leaf[1] = d /\ leaf[2] <= minted[d] /\ op[d].answer = "none"
    <2>1. op[d].kind = "boot" /\ op[d].built = <<>>
      BY DEF BuildJoin
    <2>2. op[d].answer = "none"
      BY <1>1, <2>1 DEF OpOK
    <2> QED BY <1>1, <2>1, <2>2 DEF OpOK
  <1>3. c \in Commit
    <2>1. log # <<>> => log[Len(log)] \in Commit
      BY <1>1
    <2> QED BY <1>2, <2>1 DEF Commit, Tree
  <1>4. PICK o : o = [op[d] EXCEPT !.built = Append(log, c)]
    OBVIOUS
  <1>4a. Append(log, c) \in Seq(Commit) /\ op' = [op EXCEPT ![d] = o]
    BY <1>1, <1>3, <1>4 DEF BuildJoin
  <1> HIDE DEF c
  <1>5. /\ op' = [op EXCEPT ![d] = o] /\ o \in Operation
        /\ o.kind = "boot" /\ o.leaf = leaf /\ o.built = Append(log, c) /\ o.answer = "none"
    <2>1. PICK b \in Seq(Commit) : b = Append(log, c)
      BY <1>4a
    <2>2. o = [op[d] EXCEPT !.built = b] /\ op[d].kind = "boot"
      BY <1>4, <2>1 DEF BuildJoin
    <2>3. /\ o \in Operation /\ o.kind = op[d].kind /\ o.leaf = op[d].leaf /\ o.built = b
          /\ o.answer = op[d].answer
      BY <1>1, <2>2 DEF Operation
    <2> QED BY <1>2, <1>4a, <2>1, <2>2, <2>3
  <1>6. Types' /\ Grows /\ UNCHANGED <<log, sess, saved, minted, taks, unsaved, reading>>
    <2>1. UNCHANGED <<log, sess, saved, minted, taks, unsaved, reading>> /\ Types
      BY DEF BuildJoin, MSInv
    <2>2. Types'
      BY <1>5, <2>1 DEF Types
    <2> QED BY <2>1, <2>2, Bounds DEF Types, Grows
  <1>7. Extends(leaf, Append(log, c))
    <2>1. /\ Len(Append(log, c)) = Len(log) + 1 /\ Append(log, c)[Len(log) + 1] = c
          /\ \A k \in 1..Len(log) : Append(log, c)[k] = log[k]
      BY <1>1, <1>3
    <2>2. c.by = leaf /\ leaf \in c.tree /\ Len(log) \in Nat /\ (log = <<>> <=> Len(log) = 0)
      BY <1>1 DEF c
    <2>3. /\ log = <<>> => c.tree = {leaf}
          /\ log # <<>> => c.tree = log[Len(log)].tree \cup {leaf}
      BY DEF c, Tree
    <2> QED BY <2>1, <2>2, <2>3 DEF Extends
  <1>8. OpOK(d, o)'
    <2>1. Extends(leaf, o.built)'
      BY <1>5, <1>6, <1>7 DEF Extends
    <2>2. \A k \in 1..Len(log') : o.leaf \notin log'[k].tree
      BY <1>1, <1>2, <1>5, <1>6 DEF OpOK, BuildJoin
    <2> QED BY <1>2, <1>5, <1>6, <2>1, <2>2 DEF OpOK
  <1>9. \A s \in State : (s = sess'[d] \/ s = saved'[d]) => StandsIn(d, s)
    BY <1>6 DEF StandsIn
  <1>10. AuthorsBelong' /\ LeavesMinted' /\ StatesInv' /\ OpsInv'
    BY <1>5, <1>6, <1>8, <1>9, Moves
  <1> QED BY <1>6, <1>10, SameKeys DEF MSInv

\* catchUp: what was reached stays in memory, and on disk when it is all of the chain.
LEMMA CatchUpKept == ASSUME MSInv, NEW d \in Device, CatchUp(d) PROVE MSInv'
  <1>1. PICK s \in State : s = sess[d]
    BY DEF CatchUp, MSInv, Types
  <1>2. StateOK(d, s) /\ Types
    BY <1>1 DEF MSInv, StatesInv, StandsIn
  <1>3. PICK to : to = CaughtUp(s.leaf, s.hist)
    OBVIOUS
  <1>4. to \in Seq(Commit)
    BY <1>2, <1>3, CaughtUpStands
  <1>5. PICK t : t = [s EXCEPT !.hist = to]
    OBVIOUS
  <1>6. t \in State /\ t.leaf = s.leaf /\ t.hist = to
    BY <1>4, <1>5 DEF State
  <1>7. PICK lost : Listened(d, s.hist, to, lost)
    BY <1>1, <1>3 DEF CatchUp
  <1>7a. /\ log' = log
        /\ sess' = [sess EXCEPT ![d] = t]
        /\ saved' \in {saved, [saved EXCEPT ![d] = t]}
        /\ UNCHANGED <<op, minted, reading>>
    BY <1>1, <1>3, <1>5 DEF CatchUp, Persist
  <1>8. /\ taks' = [e \in Device |-> taks'[e]] /\ unsaved' = [e \in Device |-> unsaved'[e]]
        /\ \A e \in Device :
             DOMAIN taks[e] \cup unsaved[e] \subseteq DOMAIN taks'[e] \cup unsaved'[e]
        /\ KeysInv' /\ StateOK(d, t)'
    BY <1>2, <1>3, <1>6, <1>7, <1>7a, Travels
  <1>9. Types'
    BY <1>2, <1>6, <1>7a, <1>8 DEF Types
  <1>10. Grows
    BY <1>2, <1>7a, <1>8, <1>9, Bounds DEF Grows, Types
  <1>11. /\ \A e \in Device \ {d} : sess'[e] = sess[e] /\ saved'[e] = saved[e]
         /\ \A r \in State : (r = sess'[d] \/ r = saved'[d]) => r = saved[d] \/ r = t
    BY <1>2, <1>7a DEF Types
  <1>12. \A r \in State : (r = sess'[d] \/ r = saved'[d]) => StandsIn(d, r) \/ StateOK(d, r)'
    BY <1>8, <1>11 DEF StandsIn
  <1>13. PICK o \in Operation : o = op[d]
    BY <1>2 DEF Types
  <1>14. op' = [op EXCEPT ![d] = o] /\ OpOK(d, o)'
    BY <1>2, <1>7a, <1>10, <1>13, OpStays DEF MSInv, OpsInv, Types
  <1>15. o.kind = "remove" => \A r \in State : r.leaf = o.leaf /\ r.hist = o.hist => StandsIn(d, r)
    BY <1>13 DEF StandsIn
  <1>16. AuthorsBelong' /\ LeavesMinted' /\ StatesInv' /\ OpsInv'
    BY <1>7a, <1>10, <1>11, <1>12, <1>14, <1>15, Moves
  <1>17. ReadInv'
    BY <1>7a, <1>10, HasLeafStays DEF MSInv, ReadInv
  <1> QED BY <1>8, <1>9, <1>16, <1>17 DEF MSInv

\* reconcileMembership: from wherever the device stands, it catches up and builds on the
\* whole chain a Commit that leaves others out and keeps its own leaf.
LEMMA ReconcileKept ==
  ASSUME MSInv, NEW d \in Device, NEW s \in State, StateOK(d, s), Reconcile(d, s.leaf, s.hist)
  PROVE  MSInv'
  <1> DEFINE strays == Strays(d, Tree(log))
             c == [by |-> s.leaf, tree |-> Tree(log) \ strays]
  <1>1. Types /\ log \in Seq(Commit)
    BY DEF MSInv, Types
  <1>2. PICK to : to = CaughtUp(s.leaf, s.hist)
    OBVIOUS
  <1>3. to = log /\ log' = log
    BY <1>2 DEF Reconcile
  <1>3a. PICK lost : Listened(d, s.hist, to, lost)
    BY <1>2 DEF Reconcile
  <1>4. log # <<>> /\ s.leaf \in Tree(log) /\ Len(log) \in Nat \ {0}
    <2>1. to # <<>> /\ Len(s.hist) \in 1..Len(to) /\ Len(to) \in 1..Len(log)
          /\ \A k \in Len(s.hist)..Len(to) : s.leaf \in log[k].tree
      BY <1>1, <1>2, CaughtUpStands
    <2>2. Len(to) \in Len(s.hist)..Len(to)
      BY <2>1
    <2> QED BY <1>1, <1>3, <2>1, <2>2 DEF Tree
  <1>5. PICK t : t = [leaf |-> s.leaf, hist |-> to]
    OBVIOUS
  <1>6. t \in State /\ t.leaf = s.leaf /\ t.hist = to
    BY <1>1, <1>3, <1>5 DEF State
  <1>7. /\ taks' = [e \in Device |-> taks'[e]] /\ unsaved' = [e \in Device |-> unsaved'[e]]
        /\ \A e \in Device :
             DOMAIN taks[e] \cup unsaved[e] \subseteq DOMAIN taks'[e] \cup unsaved'[e]
        /\ KeysInv'
        /\ \A r \in State : r.leaf = s.leaf /\ r.hist = to => StateOK(d, r)'
    BY <1>2, <1>3, <1>3a, Travels
  <1>8. c \in Commit /\ Append(log, c) \in Seq(Commit)
    <2>1. log[Len(log)] \in Commit /\ s.leaf \in Leaf
      BY <1>1, <1>4 DEF State
    <2>2. c \in Commit
      BY <2>1 DEF Commit, Tree
    <2> QED BY <1>1, <2>2
  <1>9. PICK o : o = IF strays = {} THEN NoOp ELSE Begun(d, "remove", s.leaf, to, Append(to, c))
    OBVIOUS
  <1>10. op' = [op EXCEPT ![d] = o] /\ sess' = [sess EXCEPT ![d] = IF @ = None THEN None ELSE t]
    BY <1>2, <1>3, <1>5, <1>9 DEF Reconcile
  <1>11. s.leaf \in c.tree /\ c.tree \subseteq Tree(log) /\ c.by = s.leaf
    BY <1>4 DEF Strays, StateOK
  <1> HIDE DEF c
  <1>12. \/ o = NoOp
         \/ /\ o \in Operation /\ o.kind = "remove" /\ o.leaf = s.leaf /\ o.hist = to
            /\ o.built = Append(log, c) /\ o.answer = "none"
    <2>1. CASE strays = {}
      BY <1>9, <2>1
    <2>2. CASE strays # {}
      <3>1. PICK b \in Seq(Commit) : b = Append(log, c)
        BY <1>8
      <3>2. op[d].dropped \in BOOLEAN
        BY <1>1 DEF Types, Operation
      <3>3. o = [kind |-> "remove", leaf |-> s.leaf, hist |-> to, built |-> b,
                 answer |-> "none", dropped |-> op[d].dropped]
        BY <1>3, <1>9, <2>2, <3>1 DEF Begun
      <3>4. s.leaf \in Leaf /\ to \in Seq(Commit)
        BY <1>1, <1>3 DEF State
      <3>5. o \in Operation
        BY <3>2, <3>3, <3>4 DEF Operation
      <3> QED BY <3>1, <3>3, <3>5
    <2> QED BY <2>1, <2>2
  <1>13. o \in Operation
    BY <1>12, NoOpOK
  <1>14. UNCHANGED <<log, saved, minted, reading>>
    BY DEF Reconcile
  <1>15. Types'
    <2>1. sess' \in [Device -> State \cup {None}]
      BY <1>1, <1>6, <1>10 DEF Types
    <2> QED BY <1>1, <1>7, <1>10, <1>13, <1>14, <2>1 DEF Types
  <1>16. Grows
    BY <1>1, <1>7, <1>14, <1>15, Bounds DEF Grows, Types
  <1>17. OpOK(d, o)'
    <2>1. CASE o = NoOp
      BY <2>1, NoOpOK
    <2>2. CASE o # NoOp
      <3>1. /\ Len(Append(log, c)) = Len(log) + 1 /\ Append(log, c)[Len(log) + 1] = c
            /\ \A k \in 1..Len(log) : Append(log, c)[k] = log[k]
        BY <1>1, <1>8
      <3>2. s.leaf \in Leaf /\ s.leaf[1] = d /\ s.leaf[2] <= minted[d]
        BY <1>4 DEF State, StateOK, Tree, MSInv, LeavesMinted
      <3>3. Extends(s.leaf, Append(log, c))
        BY <1>4, <1>11, <3>1 DEF Extends, Tree
      <3>4. Extends(o.leaf, o.built)'
        BY <1>12, <1>14, <2>2, <3>3 DEF Extends
      <3>5. o.built # <<>> /\ Len(o.built) = Len(o.hist) + 1
        BY <1>3, <1>4, <1>12, <2>2, <3>1
      <3> QED BY <1>12, <1>14, <2>2, <3>2, <3>4, <3>5 DEF OpOK
    <2> QED BY <2>1, <2>2
  <1>18. \A r \in State : (r = sess'[d] \/ r = saved'[d]) => StandsIn(d, r) \/ StateOK(d, r)'
    <2>1. StateOK(d, t)'
      BY <1>6, <1>7
    <2>2. sess'[d] \in {sess[d], t} /\ saved'[d] = saved[d]
      BY <1>1, <1>10, <1>14 DEF Types
    <2> QED BY <2>1, <2>2 DEF StandsIn
  <1>19. o.kind = "remove" =>
           \A r \in State : r.leaf = o.leaf /\ r.hist = o.hist => StandsIn(d, r) \/ StateOK(d, r)'
    <2>1. NoOp.kind # "remove"
      BY DEF NoOp
    <2> QED BY <1>7, <1>12, <2>1
  <1>20. \A e \in Device \ {d} : sess'[e] = sess[e] /\ saved'[e] = saved[e]
    BY <1>1, <1>10, <1>14 DEF Types
  <1>21. AuthorsBelong' /\ LeavesMinted' /\ StatesInv' /\ OpsInv'
    BY <1>10, <1>13, <1>14, <1>16, <1>17, <1>18, <1>19, <1>20, Moves
  <1>22. ReadInv'
    BY <1>14, <1>16, HasLeafStays DEF MSInv, ReadInv
  <1> QED BY <1>7, <1>15, <1>21, <1>22 DEF MSInv

\* The first try starts from the session, the retry from where the conflict was found.
LEMMA ReconcilesKept ==
  ASSUME MSInv, NEW d \in Device, StartReconcile(d) \/ RetryReconcile(d) PROVE MSInv'
  <1>1. CASE StartReconcile(d)
    <2>1. PICK s \in State : s = sess[d]
      BY <1>1 DEF StartReconcile, MSInv, Types
    <2>2. StateOK(d, s)
      BY <2>1 DEF MSInv, StatesInv, StandsIn
    <2> QED BY <1>1, <2>1, <2>2, ReconcileKept DEF StartReconcile
  <1>2. CASE RetryReconcile(d)
    <2>1. op[d] \in Operation /\ op[d].kind = "remove" /\ OpOK(d, op[d])
      BY <1>2 DEF RetryReconcile, MSInv, Types, OpsInv
    <2>2. PICK s : s = [leaf |-> op[d].leaf, hist |-> op[d].hist]
      OBVIOUS
    <2>3. s \in State /\ s.leaf = op[d].leaf /\ s.hist = op[d].hist
      BY <2>1, <2>2 DEF State, Operation, OpOK
    <2>4. StateOK(d, s)
      BY <2>1, <2>3 DEF MSInv, StatesInv, StandsIn
    <2> QED BY <1>2, <2>3, <2>4, ReconcileKept DEF RetryReconcile
  <1> QED BY <1>1, <1>2

-----------------------------------------------------------------------------
\* The Delivery Service's answer changes nothing else about an operation.
LEMMA AnswerIs ==
  ASSUME NEW o \in Operation, NEW a \in {"none", "ok", "conflict"}, NEW p,
         p = [o EXCEPT !.answer = a]
  PROVE  /\ p \in Operation /\ p.answer = a /\ p.kind = o.kind /\ p.leaf = o.leaf
         /\ p.hist = o.hist /\ p.built = o.built
  BY DEF Operation

\* A Commit that is refused changes the answer only.
LEMMA ConflictKept ==
  ASSUME MSInv, NEW d \in Device, Post(d), Len(op[d].built) # Len(log) + 1
  PROVE  MSInv'
  <1>1. PICK o \in Operation : o = op[d]
    BY DEF MSInv, Types
  <1>2. OpOK(d, o) /\ o.answer = "none" /\ Types
    BY <1>1 DEF MSInv, OpsInv, Post
  <1>3. PICK p : p = [o EXCEPT !.answer = "conflict"]
    OBVIOUS
  <1>4. /\ p \in Operation /\ p.answer = "conflict" /\ p.kind = o.kind /\ p.leaf = o.leaf
        /\ p.hist = o.hist /\ p.built = o.built
    BY <1>3, AnswerIs
  <1>5. /\ op' = [op EXCEPT ![d] = p] /\ o.built # <<>>
        /\ UNCHANGED <<log, sess, saved, minted, taks, unsaved, reading>>
    BY <1>1, <1>3 DEF Post
  <1>6. Types' /\ Grows
    <2>1. Types'
      BY <1>2, <1>4, <1>5 DEF Types
    <2> QED BY <1>2, <1>5, <2>1, Bounds DEF Types, Grows
  <1>7. OpOK(d, o)'
    BY <1>2, <1>5, <1>6, OpStays
  <1>8. OpOK(d, p)'
    BY <1>2, <1>4, <1>5, <1>7 DEF OpOK
  <1>9. /\ \A s \in State : (s = sess'[d] \/ s = saved'[d]) => StandsIn(d, s)
        /\ p.kind = "remove" => \A s \in State : s.leaf = p.leaf /\ s.hist = p.hist => StandsIn(d, s)
    BY <1>1, <1>4, <1>5 DEF StandsIn
  <1>10. AuthorsBelong' /\ LeavesMinted' /\ StatesInv' /\ OpsInv'
    BY <1>4, <1>5, <1>6, <1>8, <1>9, Moves
  <1> QED BY <1>5, <1>6, <1>10, SameKeys DEF MSInv

\* A Commit that is accepted was built on the whole chain: it becomes its next one, and
\* what it brings into the tree is its own leaf or nothing.
LEMMA AcceptedKept ==
  ASSUME MSInv, NEW d \in Device, Post(d), Len(op[d].built) = Len(log) + 1
  PROVE  MSInv'
  <1>1. PICK o \in Operation : o = op[d]
    BY DEF MSInv, Types
  <1>2. OpOK(d, o) /\ Types /\ log \in Seq(Commit) /\ Len(log) \in Nat
    BY <1>1 DEF MSInv, OpsInv, Types
  <1>3. PICK p : p = [o EXCEPT !.answer = "ok"]
    OBVIOUS
  <1>4. /\ p \in Operation /\ p.answer = "ok" /\ p.kind = o.kind /\ p.leaf = o.leaf
        /\ p.hist = o.hist /\ p.built = o.built
    BY <1>3, AnswerIs
  <1>5. PICK n : n = Len(log) + 1
    OBVIOUS
  <1>6. PICK c : c = o.built[n]
    OBVIOUS
  <1>7. /\ op' = [op EXCEPT ![d] = p] /\ o.built # <<>> /\ Len(o.built) = n
        /\ UNCHANGED <<sess, saved, minted, taks, unsaved, reading>> /\ log' = Append(log, c)
    BY <1>1, <1>3, <1>5, <1>6 DEF Post
  <1>8. c \in Commit /\ o.built \in Seq(Commit)
    BY <1>2, <1>5, <1>6, <1>7 DEF Operation
  <1>9. /\ log' \in Seq(Commit) /\ Len(log') = n /\ log'[n] = c
        /\ \A k \in 1..Len(log) : log'[k] = log[k]
    BY <1>2, <1>5, <1>7, <1>8
  <1>10. Types' /\ Grows
    <2>1. Types'
      BY <1>2, <1>4, <1>7, <1>9 DEF Types
    <2> QED BY <1>2, <1>5, <1>7, <1>9, <2>1, Bounds DEF Types, Grows
  <1>11. Extends(o.leaf, o.built) /\ o.kind # "none" /\ o.leaf \in Leaf
    BY <1>2, <1>7 DEF OpOK
  <1>12. /\ c.by = o.leaf /\ o.leaf \in c.tree
         /\ n = 1 => c.tree = {o.leaf}
         /\ n > 1 => \/ c.tree = log[n-1].tree \cup {o.leaf}
                     \/ o.leaf \in log[n-1].tree /\ c.tree \subseteq log[n-1].tree
    <2>1. \A k \in 1..n-1 : o.built[k] = log[k]
      BY <1>7, <1>11 DEF Extends
    <2>2. n > 1 => o.built[n-1] = log[n-1]
      BY <1>2, <1>5, <2>1
    <2> QED BY <1>6, <1>7, <1>11, <2>2 DEF Extends
  <1>13. \A l \in c.tree : l = o.leaf \/ (n > 1 /\ l \in log[n-1].tree)
    BY <1>2, <1>5, <1>12
  <1>14. AuthorsBelong'
    <2> SUFFICES ASSUME NEW k \in 1..n
                 PROVE  /\ log'[k].by \in log'[k].tree
                        /\ k > 1 /\ log'[k].by \notin log'[k-1].tree =>
                             log'[k].tree = log'[k-1].tree \cup {log'[k].by}
      BY <1>9 DEF AuthorsBelong
    <2>1. CASE k \in 1..Len(log)
      <3>1. log'[k] = log[k] /\ (k > 1 => log'[k-1] = log[k-1])
        BY <1>2, <1>9, <2>1
      <3> QED BY <1>2, <2>1, <3>1 DEF MSInv, AuthorsBelong
    <2>2. CASE k = n
      <3>1. n > 1 => log'[n-1] = log[n-1]
        BY <1>2, <1>5, <1>9
      <3> QED BY <1>9, <1>12, <2>2, <3>1
    <2> QED BY <1>2, <1>5, <2>1, <2>2
  <1>15. LeavesMinted'
    <2> SUFFICES ASSUME NEW k \in 1..n, NEW l \in log'[k].tree PROVE l[2] <= minted[l[1]]
      BY <1>7, <1>9 DEF LeavesMinted
    <2>1. CASE k \in 1..Len(log)
      BY <1>9, <2>1 DEF MSInv, LeavesMinted
    <2>2. CASE k = n
      <3>1. o.leaf[1] = d /\ o.leaf[2] <= minted[d]
        BY <1>2, <1>11 DEF OpOK
      <3>2. n > 1 => n - 1 \in 1..Len(log)
        BY <1>2, <1>5
      <3> QED BY <1>9, <1>13, <2>2, <3>1, <3>2 DEF MSInv, LeavesMinted
    <2> QED BY <1>2, <1>5, <2>1, <2>2
  <1>16. StatesInv'
    <2> SUFFICES ASSUME NEW e \in Device, NEW s \in State, StandsIn(e, s)' PROVE StateOK(e, s)'
      BY DEF StatesInv
    <2>1. StandsIn(e, s)
      BY <1>1, <1>2, <1>4, <1>7 DEF StandsIn, Types
    <2> QED BY <1>10, <2>1, StateStays DEF MSInv, StatesInv
  <1>17. OpsInv'
    <2> SUFFICES ASSUME NEW e \in Device, NEW q \in Operation, q = op'[e] PROVE OpOK(e, q)'
      BY DEF OpsInv
    <2>1. CASE e = d
      <3>1. q = p
        BY <1>2, <1>7, <2>1 DEF Types
      <3>2. OnChain(o.built)' /\ Extends(o.leaf, o.built)'
        <4>1. \A k \in 1..n : o.built[k] = log'[k]
          BY <1>2, <1>5, <1>6, <1>7, <1>9, <1>11 DEF Extends
        <4>2. OnChain(o.built)'
          BY <1>2, <1>5, <1>7, <1>9, <4>1 DEF OnChain
        <4> QED BY <1>8, <1>10, <1>11, <4>2, ExtendsStays
      <3>3. o.kind = "boot" => \A k \in 1..Len(log') : o.leaf \in log'[k].tree => Len(o.built) <= k
        <4> SUFFICES ASSUME o.kind = "boot", NEW k \in 1..n, o.leaf \in log'[k].tree PROVE n <= k
          BY <1>7, <1>9
        <4>1. CASE k \in 1..Len(log)
          BY <1>2, <1>7, <1>9, <4>1 DEF OpOK
        <4> QED BY <1>2, <1>5, <4>1
      <3> QED BY <1>2, <1>4, <1>7, <2>1, <3>1, <3>2, <3>3 DEF OpOK
    <2>2. CASE e # d
      <3>1. q = op[e] /\ OpOK(e, q)
        BY <1>2, <1>7, <2>2 DEF MSInv, OpsInv, Types
      <3>2. q.built \in Seq(Commit)
        BY DEF Operation
      <3>3. q.built # <<>> => Extends(q.leaf, q.built)'
        BY <1>10, <3>1, <3>2, ExtendsStays DEF OpOK
      <3>4. q.answer = "ok" => OnChain(q.built)'
        BY <1>10, <3>1, <3>2, OnChainStays DEF OpOK
      <3>5. q.kind = "boot" => \A k \in 1..Len(log') :
              q.leaf \in log'[k].tree => q.answer = "ok" /\ Len(q.built) <= k
        <4> SUFFICES ASSUME q.kind = "boot", NEW k \in 1..n, q.leaf \in log'[k].tree
                     PROVE  q.answer = "ok" /\ Len(q.built) <= k
          BY <1>9
        <4>1. CASE k \in 1..Len(log)
          BY <1>9, <3>1, <4>1 DEF OpOK
        <4>2. CASE k = n
          <5>1. q.leaf # o.leaf
            BY <1>2, <1>11, <2>2, <3>1 DEF OpOK
          <5>2. n - 1 \in 1..Len(log) /\ q.leaf \in log[n-1].tree
            BY <1>2, <1>5, <1>9, <1>13, <4>2, <5>1
          <5>3. q.answer = "ok" /\ Len(q.built) <= n - 1
            BY <3>1, <5>2 DEF OpOK
          <5>4. Len(q.built) \in Nat
            BY <3>2
          <5> QED BY <1>2, <1>5, <4>2, <5>3, <5>4
        <4> QED BY <1>2, <1>5, <4>1, <4>2
      <3> QED BY <1>7, <3>1, <3>3, <3>4, <3>5 DEF OpOK
    <2> QED BY <2>1, <2>2
  <1> QED BY <1>7, <1>10, <1>14, <1>15, <1>16, <1>17, SameKeys DEF MSInv

\* res.ok: what was built is on the chain by now, and the epochs its leaf left behind
\* have their keys: a joining leaf has left none, a reconcile's left one by itself.
LEMMA AdoptKept == ASSUME MSInv, NEW d \in Device, Adopt(d) PROVE MSInv'
  <1>1. PICK o \in Operation : o = op[d]
    BY DEF MSInv, Types
  <1>2. OpOK(d, o) /\ Types /\ o.answer = "ok" /\ log \in Seq(Commit)
    BY <1>1 DEF MSInv, OpsInv, Adopt, Types
  <1>3. /\ o.built \in Seq(Commit) /\ o.built # <<>> /\ OnChain(o.built)
        /\ Extends(o.leaf, o.built) /\ o.leaf \in Leaf /\ o.leaf[1] = d
        /\ o.kind \in {"boot", "remove"}
    BY <1>2 DEF OpOK, Operation
  <1>4. Len(o.built) \in 1..Len(log)
    BY <1>2, <1>3 DEF OnChain
  <1>5. PICK t : t = [leaf |-> o.leaf, hist |-> o.built]
    OBVIOUS
  <1>6. t \in State /\ t.leaf = o.leaf /\ t.hist = o.built
    BY <1>3, <1>5 DEF State
  <1>7. /\ op' = [op EXCEPT ![d] = NoOp]
        /\ sess' = [sess EXCEPT ![d] = IF op[d].dropped THEN @ ELSE t]
        /\ saved' \in {saved, [saved EXCEPT ![d] = t]}
        /\ UNCHANGED <<log, minted, taks, unsaved, reading>>
    BY <1>1, <1>5 DEF Adopt, Persist
  <1>8. Types' /\ Grows
    <2>1. sess' \in [Device -> State \cup {None}] /\ saved' \in [Device -> State \cup {None}]
      BY <1>2, <1>6, <1>7 DEF Types
    <2>2. Types'
      BY <1>2, <1>7, <2>1, NoOpOK DEF Types
    <2> QED BY <1>2, <1>7, <2>2, Bounds DEF Types, Grows
  <1>9. StateOK(d, t)
    <2>1. t.leaf \in log[Len(t.hist)].tree
      BY <1>3, <1>4, <1>6 DEF Extends, OnChain
    <2>2. Kept(d, t.leaf, Len(t.hist))
      <3> SUFFICES ASSUME NEW e \in 0..Len(o.built)-2,
                          o.leaf \in log[e+1].tree, log[e+2].by # o.leaf
                   PROVE  e \in DOMAIN taks[d] \cup unsaved[d]
        BY <1>6 DEF Kept
      <3>1. e + 1 \in 1..Len(log) /\ e + 1 < Len(o.built)
        BY <1>4
      <3>2. o.kind # "boot"
        BY <1>2, <1>4, <3>1 DEF OpOK
      <3>3. o.kind = "remove" /\ Len(o.built) = Len(o.hist) + 1 /\ Len(o.hist) \in Nat
        BY <1>2, <1>3, <3>2 DEF OpOK, Operation
      <3>4. log[Len(o.built)].by = o.leaf
        BY <1>3, <1>4 DEF Extends, OnChain
      <3>5. e \in 0..Len(o.hist)-2
        BY <1>4, <3>3, <3>4
      <3>6. PICK r : r = [leaf |-> o.leaf, hist |-> o.hist]
        OBVIOUS
      <3>7. r \in State /\ r.leaf = o.leaf /\ r.hist = o.hist
        BY <1>3, <3>6 DEF State, Operation
      <3>8. Kept(d, o.leaf, Len(o.hist))
        BY <1>1, <3>3, <3>7 DEF MSInv, StatesInv, StandsIn, StateOK
      <3> QED BY <3>5, <3>8 DEF Kept
    <2> QED BY <1>3, <1>6, <2>1, <2>2 DEF StateOK
  <1>10. StateOK(d, t)'
    BY <1>6, <1>8, <1>9, StateStays
  <1>11. \A s \in State : (s = sess'[d] \/ s = saved'[d]) => StandsIn(d, s) \/ StateOK(d, s)'
    <2>1. sess'[d] \in {sess[d], t} /\ saved'[d] \in {saved[d], t}
      BY <1>2, <1>7 DEF Types
    <2> QED BY <1>10, <2>1 DEF StandsIn
  <1>12. \A e \in Device \ {d} : sess'[e] = sess[e] /\ saved'[e] = saved[e]
    BY <1>2, <1>7 DEF Types
  <1>13. NoOp.kind # "remove"
    BY DEF NoOp
  <1>14. AuthorsBelong' /\ LeavesMinted' /\ StatesInv' /\ OpsInv'
    BY <1>7, <1>8, <1>11, <1>12, <1>13, NoOpOK, Moves
  <1> QED BY <1>7, <1>8, <1>14, SameKeys DEF MSInv

\* After a conflict a joining leaf starts over, in no tree still.
LEMMA RetryBootKept == ASSUME MSInv, NEW d \in Device, RetryBoot(d) PROVE MSInv'
  <1>1. PICK o : o = Begun(d, "boot", op[d].leaf, <<>>, <<>>)
    OBVIOUS
  <1>2. op[d] \in Operation /\ OpOK(d, op[d]) /\ Types
    BY DEF MSInv, OpsInv, Types
  <1>3. op[d].kind = "boot" /\ op[d].answer = "conflict" /\ op' = [op EXCEPT ![d] = o]
    BY <1>1 DEF RetryBoot
  <1>4. op[d].leaf \in Leaf /\ op[d].leaf[1] = d /\ op[d].leaf[2] <= minted[d]
    BY <1>2, <1>3 DEF OpOK
  <1>5. /\ o.kind = "boot" /\ o.leaf = op[d].leaf /\ o.built = <<>>
        /\ o.answer = "none" /\ o \in Operation
    <2>1. op[d].dropped \in BOOLEAN
      BY <1>2 DEF Operation
    <2> QED BY <1>1, <1>4, <2>1 DEF Begun, Operation
  <1>6. UNCHANGED <<log, sess, saved, minted, taks, unsaved, reading>>
    BY DEF RetryBoot
  <1>7. Types' /\ Grows
    <2>1. Types'
      BY <1>2, <1>3, <1>5, <1>6 DEF Types
    <2> QED BY <1>2, <1>6, <2>1, Bounds DEF Types, Grows
  <1>8. \A k \in 1..Len(log) : o.leaf \notin log[k].tree
    BY <1>2, <1>3, <1>5 DEF OpOK
  <1>9. OpOK(d, o)'
    BY <1>4, <1>5, <1>6, <1>8 DEF OpOK
  <1>10. \A s \in State : (s = sess'[d] \/ s = saved'[d]) => StandsIn(d, s)
    BY <1>6 DEF StandsIn
  <1>11. AuthorsBelong' /\ LeavesMinted' /\ StatesInv' /\ OpsInv'
    BY <1>3, <1>5, <1>6, <1>7, <1>9, <1>10, Moves
  <1> QED BY <1>6, <1>7, <1>11, SameKeys DEF MSInv

\* An operation that ends without an adopted state, a restart, and forgetTopic: what a
\* device stands in afterwards it stood in before.
LEMMA EndedKept ==
  ASSUME MSInv, NEW d \in Device, Refused(d) \/ LoseAnswer(d) \/ Restart(d) PROVE MSInv'
  <1>1. Types
    BY DEF MSInv
  <1>2. /\ op' = [op EXCEPT ![d] = NoOp] /\ sess' \in {sess, [sess EXCEPT ![d] = None]}
        /\ UNCHANGED <<log, saved, minted, taks, unsaved>>
        /\ reading' \in {reading, [reading EXCEPT ![d] = None]}
    BY DEF Refused, LoseAnswer, Restart
  <1>3. Types' /\ Grows
    <2>1. sess' \in [Device -> State \cup {None}] /\ reading' = [e \in Device |-> reading'[e]]
      BY <1>1, <1>2 DEF Types
    <2>2. Types'
      BY <1>1, <1>2, <2>1, NoOpOK DEF Types
    <2> QED BY <1>1, <1>2, <2>2, Bounds DEF Types, Grows
  <1>4. \A s \in State : (s = sess'[d] \/ s = saved'[d]) => StandsIn(d, s)
    BY <1>1, <1>2, NoneIsNoState DEF StandsIn, Types
  <1>5. \A e \in Device \ {d} : sess'[e] = sess[e] /\ saved'[e] = saved[e]
    BY <1>1, <1>2 DEF Types
  <1>6. NoOp.kind # "remove"
    BY DEF NoOp
  <1>7. AuthorsBelong' /\ LeavesMinted' /\ StatesInv' /\ OpsInv'
    BY <1>2, <1>3, <1>4, <1>5, <1>6, NoOpOK, Moves
  <1>8. \A e \in Device : reading'[e] \in {reading[e], None}
    BY <1>1, <1>2 DEF Types
  <1> QED BY <1>2, <1>3, <1>7, <1>8, SameKeys DEF MSInv

\* forgetTopic leaves an operation under way, which it marks.
LEMMA ForgetKept == ASSUME MSInv, NEW d \in Device, ForgetTopic(d) PROVE MSInv'
  <1>1. Types
    BY DEF MSInv
  <1>2. PICK o \in Operation : o = op[d]
    BY <1>1 DEF Types
  <1>3. PICK b \in BOOLEAN : b = ~Idle(d)
    OBVIOUS
  <1>4. PICK p : p = [o EXCEPT !.dropped = b]
    OBVIOUS
  <1>5. /\ p \in Operation /\ p.kind = o.kind /\ p.leaf = o.leaf
        /\ p.hist = o.hist /\ p.built = o.built /\ p.answer = o.answer
    BY <1>3, <1>4 DEF Operation
  <1>6. /\ op' = [op EXCEPT ![d] = p]
        /\ sess' = [sess EXCEPT ![d] = None] /\ saved' = [saved EXCEPT ![d] = None]
        /\ UNCHANGED <<log, minted, taks, unsaved, reading>>
    BY <1>2, <1>3, <1>4 DEF ForgetTopic
  <1>7. Types' /\ Grows
    <2>1. sess' \in [Device -> State \cup {None}] /\ saved' \in [Device -> State \cup {None}]
      BY <1>1, <1>6 DEF Types
    <2>2. Types'
      BY <1>1, <1>5, <1>6, <2>1 DEF Types
    <2> QED BY <1>1, <1>6, <2>2, Bounds DEF Types, Grows
  <1>8. OpOK(d, p)'
    <2>1. OpOK(d, o)
      BY <1>2 DEF MSInv, OpsInv
    <2>2. OpOK(d, o)'
      BY <1>6, <1>7, <2>1, OpStays
    <2> QED BY <1>5, <2>2 DEF OpOK
  <1>9. /\ \A s \in State : (s = sess'[d] \/ s = saved'[d]) => StandsIn(d, s)
        /\ p.kind = "remove" => \A s \in State : s.leaf = p.leaf /\ s.hist = p.hist => StandsIn(d, s)
    BY <1>1, <1>2, <1>5, <1>6, NoneIsNoState DEF StandsIn, Types
  <1>10. \A e \in Device \ {d} : sess'[e] = sess[e] /\ saved'[e] = saved[e]
    BY <1>1, <1>6 DEF Types
  <1>11. AuthorsBelong' /\ LeavesMinted' /\ StatesInv' /\ OpsInv'
    BY <1>5, <1>6, <1>7, <1>8, <1>9, <1>10, Moves
  <1> QED BY <1>6, <1>7, <1>11, SameKeys DEF MSInv

\* currentArchiveKey: the epoch read is one the state stands in, and so is the one whose
\* key is stored, though it need not be the same.
LEMMA DeriveKept ==
  ASSUME MSInv, NEW d \in Device, ReadEpoch(d) \/ DeriveKey(d) PROVE MSInv'
  <1>1. Types /\ UNCHANGED <<log, sess, saved, op, minted>>
    BY DEF MSInv, ReadEpoch, DeriveKey
  <1>2. PICK s \in State : s = sess[d]
    BY <1>1 DEF ReadEpoch, DeriveKey, Types
  <1>3. PICK n : n = EpochOf(s.hist)
    OBVIOUS
  <1>4. HasLeaf(d, n)
    <2>1. StateOK(d, s)
      BY <1>2 DEF MSInv, StatesInv, StandsIn
    <2>2. s.hist \in Seq(Commit) /\ s.hist # <<>> /\ Len(s.hist) <= Len(log) /\ Len(log) \in Nat
      BY <1>1, <2>1 DEF StateOK, OnChain, State, Types
    <2>3. n \in 0..Len(log)-1 /\ n + 1 = Len(s.hist)
      BY <1>3, <2>2 DEF EpochOf
    <2> QED BY <2>1, <2>3 DEF HasLeaf, StateOK
  <1>5. CASE ReadEpoch(d)
    <2>1. reading' = [reading EXCEPT ![d] = n] /\ UNCHANGED <<taks, unsaved>>
      BY <1>2, <1>3, <1>5 DEF ReadEpoch
    <2>2. Types' /\ Grows
      <3>1. reading' = [k \in Device |-> reading'[k]]
        BY <1>1, <2>1 DEF Types
      <3>2. Types'
        BY <1>1, <2>1, <3>1 DEF Types
      <3> QED BY <1>1, <2>1, <3>2, Bounds DEF Types, Grows
    <2>3. HasLeaf(d, n)' /\ \A e \in Device \ {d} : reading'[e] = reading[e]
      BY <1>1, <1>4, <2>1 DEF HasLeaf, Types
    <2>4. ReadInv'
      <3> SUFFICES ASSUME NEW e \in Device, NEW k \in {reading'[e]} \ {None} PROVE HasLeaf(e, k)'
        BY DEF ReadInv
      <3>1. CASE e = d
        BY <1>1, <2>1, <2>3, <3>1 DEF Types
      <3>2. CASE e # d
        BY <2>2, <2>3, <3>2, HasLeafStays DEF MSInv, ReadInv
      <3> QED BY <3>1, <3>2
    <2>5. KeysInv'
      BY <2>1, <2>2, HasLeafStays DEF MSInv, KeysInv
    <2> QED BY <1>1, <2>2, <2>4, <2>5, Elsewhere DEF MSInv
  <1>6. CASE DeriveKey(d)
    <2>1. PICK e : e = reading[d] /\ e # None
      BY <1>6 DEF DeriveKey
    <2>2. HasLeaf(d, e)
      BY <2>1 DEF MSInv, ReadInv
    <2>3. \/ taks' = [taks EXCEPT ![d] =
                    [k \in DOMAIN taks[d] \cup {e} |-> IF k = e THEN n ELSE taks[d][k]]]
          \/ taks' = taks
      BY <1>2, <1>3, <1>6, <2>1 DEF DeriveKey
    <2>4. /\ taks' = [k \in Device |-> taks'[k]] /\ unsaved' = unsaved
          /\ \A k \in Device \ {d} : taks'[k] = taks[k]
          /\ DOMAIN taks[d] \subseteq DOMAIN taks'[d]
          /\ \A k \in DOMAIN taks'[d] :
               \/ k = e /\ taks'[d][k] = n
               \/ k \in DOMAIN taks[d] /\ taks'[d][k] = taks[d][k]
      <3>1. unsaved' = unsaved
        BY <1>6 DEF DeriveKey
      <3>2. CASE taks' = taks
        BY <1>1, <3>1, <3>2 DEF Types
      <3>3. CASE taks' = [taks EXCEPT ![d] =
                    [k \in DOMAIN taks[d] \cup {e} |-> IF k = e THEN n ELSE taks[d][k]]]
        BY <1>1, <3>1, <3>3 DEF Types
      <3> QED BY <2>3, <3>2, <3>3
    <2>5. reading' = [reading EXCEPT ![d] = None]
      BY <1>6 DEF DeriveKey
    <2>6. Types' /\ Grows
      <3>1. reading' = [k \in Device |-> reading'[k]]
        BY <1>1, <2>5 DEF Types
      <3>2. Types'
        BY <1>1, <2>4, <3>1 DEF Types
      <3>3. \A k \in Device :
              DOMAIN taks[k] \cup unsaved[k] \subseteq DOMAIN taks'[k] \cup unsaved'[k]
        BY <2>4
      <3> QED BY <1>1, <3>2, <3>3, Bounds DEF Types, Grows
    <2>7. \A k \in Device : reading'[k] \in {reading[k], None}
      BY <1>1, <2>5 DEF Types
    <2>8. ReadInv'
      BY <2>6, <2>7, HasLeafStays DEF MSInv, ReadInv
    <2>9. KeysInv'
      <3> SUFFICES ASSUME NEW f \in Device, NEW k \in DOMAIN taks'[f], NEW m \in {k, taks'[f][k]}
                   PROVE  HasLeaf(f, m)'
        BY DEF KeysInv
      <3>1. HasLeaf(f, m)
        <4>1. CASE f = d
          BY <1>4, <2>2, <2>4, <4>1 DEF MSInv, KeysInv
        <4>2. CASE f # d
          BY <2>4, <4>2 DEF MSInv, KeysInv
        <4> QED BY <4>1, <4>2
      <3> QED BY <2>6, <3>1, HasLeafStays
    <2> QED BY <1>1, <2>6, <2>8, <2>9, Elsewhere DEF MSInv
  <1> QED BY <1>5, <1>6

\* What goes on in the membership table touches no device's keys.
LEMMA OutsideKept ==
  ASSUME MSInv, UNCHANGED <<log, sess, saved, op, minted, taks, unsaved, reading>> PROVE MSInv'
  <1>1. Types' /\ Grows
    BY Bounds DEF MSInv, Types, Grows
  <1> QED BY <1>1, Elsewhere, SameKeys DEF MSInv

-----------------------------------------------------------------------------
\* No chain and no session, at first.
LEMMA InitMS == MSInit => MSInv
  <1> SUFFICES ASSUME MSInit PROVE MSInv
    OBVIOUS
  <1>1. log = <<>> /\ Len(log) = 0
    BY DEF MSInit
  <1>2. Types
    <2>1. op \in [Device -> Operation] /\ minted \in [Device -> 0..MaxLeaves]
      BY Bounds, NoOpOK DEF MSInit
    <2> QED BY <2>1 DEF MSInit, Types
  <1>3. AuthorsBelong /\ LeavesMinted
    BY <1>1 DEF AuthorsBelong, LeavesMinted
  <1>4. StatesInv
    BY NoneIsNoState DEF MSInit, StatesInv, StandsIn, NoOp
  <1>5. OpsInv
    BY DEF MSInit, OpsInv, OpOK, NoOp
  <1>6. KeysInv /\ ReadInv
    BY DEF MSInit, KeysInv, ReadInv
  <1> QED BY <1>2, <1>3, <1>4, <1>5, <1>6 DEF MSInv

\* The invariant of the client, over every history of the chain: every state on the
\* chain, every Commit under way built on it, every key of an epoch the device was in.
THEOREM MSInvHolds == MSSpec => []MSInv
  <1>1. MSInit => MSInv
    BY InitMS
  <1>2. MSInv /\ [MSNext]_msVars => MSInv'
    <2> SUFFICES ASSUME MSInv, [MSNext]_msVars PROVE MSInv'
      OBVIOUS
    <2>1. ASSUME NEW d \in Device, Opens(d) PROVE MSInv'
      BY <2>1, RestoreKept, MintLeafKept DEF Opens
    <2>2. ASSUME NEW d \in Device, BuildJoin(d) \/ CatchUp(d) PROVE MSInv'
      BY <2>2, BuildJoinKept, CatchUpKept
    <2>3. ASSUME NEW d \in Device, ReadEpoch(d) \/ DeriveKey(d) PROVE MSInv'
      BY <2>3, DeriveKept
    <2>4. ASSUME NEW d \in Device, Post(d) PROVE MSInv'
      BY <2>4, ConflictKept, AcceptedKept
    <2>5. ASSUME NEW d \in Device, Answered(d) \/ StartReconcile(d) PROVE MSInv'
      BY <2>5, AdoptKept, RetryBootKept, ReconcilesKept, EndedKept DEF Answered
    <2>6. ASSUME NEW d \in Device, LoseAnswer(d) \/ Restart(d) \/ ForgetTopic(d) PROVE MSInv'
      BY <2>6, EndedKept, ForgetKept
    <2>7. ASSUME NEW d \in Device, FetchRoster(d) \/ LeaveTopic(d) PROVE MSInv'
      BY <2>7, OutsideKept DEF FetchRoster, LeaveTopic
    <2>8. ASSUME NEW a \in Account, Kick(a) \/ JoinTopic(a) PROVE MSInv'
      BY <2>8, OutsideKept DEF Kick, JoinTopic
    <2>9. CASE UNCHANGED msVars
      BY <2>9, OutsideKept DEF msVars
    <2> QED BY <2>1, <2>2, <2>3, <2>4, <2>5, <2>6, <2>7, <2>8, <2>9 DEF MSNext
  <1> QED BY <1>1, <1>2, PTL DEF MSSpec

\* Adoption and catch-up (mlsSession.ts): no device stands on a branch the server
\* refused, so two that are at one epoch can read each other.
THEOREM StatesOnChainHolds == MSSpec => []StatesOnChain
  <1>1. MSInv => StatesOnChain
    <2> SUFFICES ASSUME MSInv, NEW d \in Device, NEW s \in States(d) PROVE IsPrefixOf(s.hist, log)
      BY DEF StatesOnChain
    <2>1. s \in State /\ StandsIn(d, s)
      BY DEF States, MSInv, Types, StandsIn
    <2>2. s.hist \in Seq(Commit) /\ log \in Seq(Commit) /\ OnChain(s.hist)
      BY <2>1 DEF MSInv, StatesInv, StateOK, Types, State
    <2>3. s.hist = SubSeq(log, 1, Len(s.hist))
      BY <2>2 DEF OnChain
    <2> QED BY <2>2, <2>3 DEF OnChain, IsPrefixOf
  <1> QED BY <1>1, MSInvHolds, PTL

\* The epoch listener and currentArchiveKey (takSession.ts): a device that was put out
\* stores no key of, or from, an epoch it had no leaf in.
THEOREM NoKeyAfterEvictionHolds == MSSpec => []NoKeyAfterEviction
  <1>1. MSInv => NoKeyAfterEviction
    BY DEF MSInv, KeysInv, HasLeaf, NoKeyAfterEviction
  <1> QED BY <1>1, MSInvHolds, PTL

\* The epoch listener (takSession.ts): the key of an epoch that someone else's Commit
\* ended is kept, through restarts, restored states and failed saves of the state; only
\* a key that the store itself refused when it was last announced can be missing.
THEOREM EpochsLeftAreKeptHolds == MSSpec => []EpochsLeftAreKept
  <1>1. MSInv => EpochsLeftAreKept
    <2> SUFFICES ASSUME MSInv, NEW d \in Device, sess[d] # None, NEW e \in Left(d),
                        log[e+2].by # sess[d].leaf
                 PROVE  e \in DOMAIN taks[d] \cup unsaved[d]
      BY DEF EpochsLeftAreKept
    <2>1. PICK s \in State : s = sess[d]
      BY DEF MSInv, Types
    <2>2. StateOK(d, s) /\ Len(s.hist) \in Nat
      BY <2>1 DEF MSInv, StatesInv, StandsIn, State
    <2>3. e \in 0..Len(s.hist)-2 /\ s.leaf \in log[e+1].tree /\ log[e+2].by # s.leaf
      BY <2>1, <2>2 DEF Left, EpochOf
    <2> QED BY <2>2, <2>3 DEF StateOK, Kept
  <1> QED BY <1>1, MSInvHolds, PTL

\* createTopicGroup, joinTopicGroup and the Remove of reconcileMembership: every accepted
\* Commit is of a leaf that stays in the tree, and only a joining one was not there.
THEOREM AuthorsBelongHolds == MSSpec => []AuthorsBelong
  <1>1. MSInv => AuthorsBelong
    BY DEF MSInv
  <1> QED BY <1>1, MSInvHolds, PTL

\* Only accounts are members, and on the lists the devices fetched.
Accounts == members \subseteq Account /\ roster \in [Device -> SUBSET Account]

\* The sessions, the saved copies and the operations keep their shapes, and a device
\* stands on leaves it minted itself.
THEOREM TypeOKHolds == MSSpec => []TypeOK
  <1>1. MSInit => Accounts
    BY FoundersType DEF MSInit, Accounts
  <1>2. Accounts /\ [MSNext]_msVars => Accounts'
    BY DEF Accounts, MSNext, msVars, Opens, Restore, MintLeaf, BuildJoin, CatchUp, FetchRoster,
           ReadEpoch, DeriveKey, StartReconcile, RetryReconcile, Reconcile, Post, Answered, Adopt,
           RetryBoot, Refused, LoseAnswer, Restart, LeaveTopic, ForgetTopic, Kick, JoinTopic
  <1>3. MSInv /\ Accounts => TypeOK
    <2> SUFFICES ASSUME MSInv, Accounts PROVE TypeOK
      OBVIOUS
    <2>1. Types /\ log \in Seq(Commit)
      BY DEF MSInv, Types
    <2>2. \A k \in DOMAIN log : log[k] \in Commit
      BY <2>1
    <2>3. ASSUME NEW d \in Device, NEW s \in States(d)
          PROVE  s \in State /\ s.leaf \in {d} \X (1..minted[d]) /\ s.hist # <<>>
      <3>1. s \in State /\ StandsIn(d, s)
        BY <2>1 DEF States, Types, StandsIn
      <3>2. StateOK(d, s)
        BY <3>1 DEF MSInv, StatesInv
      <3>3. s.hist \in Seq(Commit) /\ Len(s.hist) \in 1..Len(log)
        BY <2>1, <3>1, <3>2 DEF StateOK, OnChain, State
      <3>4. s.leaf \in Leaf /\ s.leaf[1] = d /\ s.leaf \in log[Len(s.hist)].tree
        BY <3>1, <3>2 DEF StateOK, State
      <3>5. s.leaf[2] <= minted[d]
        BY <3>3, <3>4 DEF MSInv, LeavesMinted
      <3>6. s.leaf \in {d} \X (1..minted[d])
        BY <2>1, <3>4, <3>5, Bounds DEF Leaf, Types
      <3> QED BY <3>1, <3>2, <3>6 DEF StateOK
    <2>4. \A d \in Device : /\ op[d].kind \in {"none", "boot", "remove"}
                           /\ op[d].answer \in {"none", "ok", "conflict"}
                           /\ minted[d] \in 0..MaxLeaves /\ roster[d] \subseteq Account
      BY <2>1 DEF Types, Operation, Accounts
    <2> QED BY <2>2, <2>3, <2>4 DEF TypeOK, Accounts
  <1> QED BY <1>1, <1>2, <1>3, MSInvHolds, PTL DEF MSSpec
=============================================================================
