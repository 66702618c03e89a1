------------------------ MODULE ChatDeliveryProofs ------------------------
(***************************************************************************)
(* Proofs about ChatDelivery, for every set of devices and accounts, every *)
(* grace and stale window and every bound.                                 *)
(*                                                                         *)
(* That a message is kept for who has not read it rests on marks: every    *)
(* mark on its way, and every cursor, is the millisecond of a row that the *)
(* device read (Marked), and no time a sweep captured lies ahead of the    *)
(* clock.                                                                  *)
(***************************************************************************)
EXTENDS ChatDelivery, FiniteSetTheorems, WellFoundedInduction, TLAPS

\* Rows are numbered as they are inserted.
Numbered == at = [m \in Sent |-> at[m]] /\ \E n \in 0..MaxMsg : Sent = 1..n

\* No row, of the queue or of the archive, is of a time to come.
TimesPass ==
  /\ now \in Stamp
  /\ \A m \in Sent : at[m] \in 0..now
  /\ \A m \in DOMAIN filed : filed[m] \in 0..now

RowsTyped ==
  /\ visible \cup systemRows \subseteq Sent /\ cipher \cup archived \subseteq visible \ systemRows
  /\ filed = [m \in DOMAIN filed |-> filed[m]] /\ archived \subseteq DOMAIN filed
  /\ members \subseteq Account /\ unsaid \in Nat

DevicesTyped ==
  /\ cursor \in [Device -> Row \cup {None}]
  /\ got \in [Device -> SUBSET visible]
  /\ acks \in [Device -> SUBSET Stamp]

\* What a device has claimed, or is about to, is a row it read.
Marked == \A d \in Device : \A mark \in acks[d] : \E m \in got[d] : mark = Ms(at[m])

DeliveryInv ==
  /\ Numbered /\ TimesPass /\ RowsTyped /\ DevicesTyped
  /\ Marked /\ MarksAreRead /\ KeptSomewhere

-----------------------------------------------------------------------------
\* A Date drops the half: it is never later, it is its own Date, and it keeps the
\* order.
LEMMA Milliseconds ==
  ASSUME NEW t \in Nat
  PROVE  /\ Ms(t) \in Nat /\ Ms(t) <= t /\ Ms(Ms(t)) = Ms(t)
         /\ \A u \in Nat : u <= t => Ms(u) <= Ms(t)
  BY DEF Ms

\* Of two times, one is the newest and one the oldest.
LEMMA OfTwo ==
  ASSUME NEW a \in Nat, NEW b \in Nat
  PROVE  /\ Max({a, b}) = IF a >= b THEN a ELSE b
         /\ Min({a, b}) = IF a <= b THEN a ELSE b
  <1>1. \E x \in {a, b} : \A y \in {a, b} : x >= y
    OBVIOUS
  <1>2. \E x \in {a, b} : \A y \in {a, b} : x <= y
    OBVIOUS
  <1> QED BY <1>1, <1>2 DEF Max, Min

\* Among naturals with a bound there is a greatest one.
LEMMA GreatestNatural ==
  ASSUME NEW n \in Nat, NEW S, S \subseteq 0..n, S # {}
  PROVE  Max(S) \in S
  <1> DEFINE Less == {ss \in Nat \X Nat : ss[1] < ss[2]}
             Rest == {n - x : x \in S}
  <1>1. IsWellFoundedOn(Less, Nat)
    <2>1. OpToRel(<, Nat) = Less
      BY Zenon DEF OpToRel
    <2> QED BY <2>1, NatLessThanWellFounded, Zenon
  <1>2. \A k, m \in Nat : <<k, m>> \in Less <=> k < m
    OBVIOUS
  <1>3. Rest \subseteq Nat
    OBVIOUS
  <1>4. \A x \in S : n - x \in Rest
    BY Zenon
  <1>e. Rest # {}
    BY <1>4
  <1>m. \A r \in Rest : \E m \in S : r = n - m
    OBVIOUS
  <1> HIDE DEF Less, Rest
  <1>5. PICK r \in Rest : \A k \in Rest : ~ (<<k, r>> \in Less)
    BY <1>1, <1>3, <1>e, WFMin
  <1>6. \A k \in Rest : r <= k
    <2> SUFFICES ASSUME NEW k \in Rest PROVE r <= k
      OBVIOUS
    <2>1. ~ (<<k, r>> \in Less)
      BY <1>5
    <2>2. k \in Nat /\ r \in Nat
      BY <1>3
    <2>3. ~ (k < r)
      BY <1>2, <2>1, <2>2, Zenon
    <2> QED BY <2>2, <2>3
  <1>7. PICK m \in S : r = n - m
    BY <1>m
  <1>8. \A x \in S : m >= x
    <2> SUFFICES ASSUME NEW x \in S PROVE m >= x
      OBVIOUS
    <2>1. n - m <= n - x
      BY <1>4, <1>6, <1>7
    <2>2. m \in Nat /\ x \in Nat
      OBVIOUS
    <2> QED BY <2>1, <2>2
  <1> QED BY <1>7, <1>8 DEF Max

\* The next row has a number of its own.
LEMMA InsertAdds ==
  ASSUME Numbered, Insert
  PROVE  /\ Sent \subseteq Sent' /\ Numbered'
         /\ NewRow \notin Sent /\ Sent' = Sent \cup {NewRow}
         /\ \A m \in Sent : at'[m] = at[m]
         /\ \A m \in Sent' \ Sent : at'[m] = now
  <1>1. PICK n \in 0..MaxMsg : Sent = 1..n
    BY DEF Numbered
  <1>2. NewRow = n + 1 /\ NewRow \notin Sent
    <2>1. n \in Nat
      BY DeliveryBounds
    <2>2. Cardinality(1..n) = n
      BY <2>1, FS_Interval
    <2> QED BY <1>1, <2>1, <2>2 DEF NewRow
  <1>3. /\ NewRow <= MaxMsg
        /\ at' = [k \in Sent \cup {NewRow} |-> IF k = NewRow THEN now ELSE at[k]]
    BY DEF Insert
  <1>4. Sent' = Sent \cup {NewRow}
    BY <1>3 DEF Sent
  <1>5. Sent' = 1..(n + 1) /\ n + 1 \in 0..MaxMsg
    BY <1>1, <1>2, <1>3, <1>4, DeliveryBounds
  <1>6. Numbered'
    <2>1. at' = [k \in Sent' |-> at'[k]]
      BY <1>3, <1>4
    <2> QED BY <1>5, <2>1 DEF Numbered
  <1> QED BY <1>2, <1>3, <1>4, <1>6

\* Nothing is sent or read at the start.
LEMMA InitDeliveryInv == DeliveryInit => DeliveryInv
  <1> SUFFICES ASSUME DeliveryInit PROVE DeliveryInv
    OBVIOUS
  <1>1. Sent = {}
    BY DEF DeliveryInit, Sent
  <1>2. Numbered
    <2>1. 0 \in 0..MaxMsg /\ 1..0 = {}
      BY DeliveryBounds
    <2>2. at = [m \in Sent |-> at[m]]
      BY DEF DeliveryInit, Sent
    <2> QED BY <1>1, <2>1, <2>2, Zenon DEF Numbered
  <1>3. TimesPass
    <2>1. now = 0 /\ filed = [m \in {} |-> 0]
      BY DEF DeliveryInit
    <2> QED BY <1>1, <2>1, DeliveryBounds DEF TimesPass, Stamp
  <1>4. RowsTyped /\ DevicesTyped /\ KeptSomewhere
    BY DEF DeliveryInit, RowsTyped, DevicesTyped, KeptSomewhere
  <1>5. Marked /\ MarksAreRead
    BY DEF DeliveryInit, Marked, MarksAreRead
  <1> QED BY <1>2, <1>3, <1>4, <1>5 DEF DeliveryInv

\* What a device has read it can be asked about: its messages are sent ones.
LEMMA ReadIsSent ==
  ASSUME DeliveryInv, NEW d \in Device
  PROVE  got[d] \subseteq visible /\ got[d] \subseteq Sent
  BY DEF DeliveryInv, RowsTyped, DevicesTyped

\* A step that acknowledges nothing keeps the marks, whatever the devices read more.
LEMMA MarksStay ==
  ASSUME DeliveryInv, UNCHANGED cursor, \A m \in Sent : at'[m] = at[m],
         \A d \in Device : got[d] \subseteq got'[d]
  PROVE  /\ MarksAreRead'
         /\ \A d \in Device : \A mark \in acks[d] : \E m \in got'[d] : mark = Ms(at'[m])
  <1>1. ASSUME NEW d \in Device, cursor[d] # None
        PROVE  \E m \in got'[d] : cursor[d].through = Ms(at'[m])
    <2>1. PICK m \in got[d] : cursor[d].through = Ms(at[m])
      BY <1>1 DEF DeliveryInv, MarksAreRead
    <2> QED BY <2>1, ReadIsSent
  <1>2. ASSUME NEW d \in Device, NEW mark \in acks[d]
        PROVE  \E m \in got'[d] : mark = Ms(at'[m])
    <2>1. PICK m \in got[d] : mark = Ms(at[m])
      BY DEF DeliveryInv, Marked
    <2> QED BY <2>1, ReadIsSent
  <1> QED BY <1>1, <1>2 DEF MarksAreRead

\* A row of the cursors after a mark that is among the device's, at most now.
LEMMA AckedRow ==
  ASSUME DeliveryInv, NEW d \in Device, NEW mark \in acks[d]
  PROVE  /\ Min({mark, Ms(now)}) = mark
         /\ Acked(cursor[d], mark) \in Row /\ Acked(cursor[d], mark) # None
         /\ Acked(cursor[d], mark).through >= mark
         /\ cursor[d] = None => Acked(cursor[d], mark).through = mark
         /\ cursor[d] # None =>
              /\ Acked(cursor[d], mark).through \in {cursor[d].through, mark}
              /\ Acked(cursor[d], mark).through >= cursor[d].through
              /\ Acked(cursor[d], mark).first = cursor[d].first
  <1>1. now \in Nat /\ now <= MaxTime /\ mark \in Stamp
    BY DeliveryBounds DEF DeliveryInv, TimesPass, DevicesTyped, Stamp
  <1>2. PICK m \in got[d] : mark = Ms(at[m])
    BY DEF DeliveryInv, Marked
  <1>3. at[m] \in 0..now
    BY ReadIsSent DEF DeliveryInv, TimesPass
  <1>4. mark \in Nat /\ mark <= Ms(now) /\ Ms(now) \in Stamp
    BY <1>1, <1>2, <1>3, Milliseconds, DeliveryBounds DEF Stamp
  <1>5. Min({mark, Ms(now)}) = mark
    BY <1>1, <1>4, OfTwo, Milliseconds
  <1>6. Row \subseteq [first : Nat, last : Nat, through : Nat]
    BY DeliveryBounds DEF Row, Stamp
  <1>7. CASE cursor[d] = None
    <2>1. Acked(cursor[d], mark) = [first |-> Ms(now), last |-> Ms(now), through |-> mark]
      BY <1>7, Zenon DEF Acked
    <2> QED BY <1>1, <1>4, <1>5, <1>6, <1>7, <2>1, NoCursorIsNoRow DEF Row
  <1>8. CASE cursor[d] # None
    <2>1. cursor[d] \in Row
      BY <1>8 DEF DeliveryInv, DevicesTyped
    <2>2. Acked(cursor[d], mark) = [first |-> cursor[d].first, last |-> Ms(now),
                                    through |-> Max({cursor[d].through, mark})]
      BY <1>8, Zenon DEF Acked
    <2>3. cursor[d].through \in Stamp /\ cursor[d].first \in Stamp
      BY <2>1 DEF Row
    <2>4. /\ Max({cursor[d].through, mark}) \in {cursor[d].through, mark}
          /\ Max({cursor[d].through, mark}) >= cursor[d].through
          /\ Max({cursor[d].through, mark}) >= mark
      BY <1>4, <2>3, OfTwo, DeliveryBounds DEF Stamp
    <2>5. Acked(cursor[d], mark) \in Row
      BY <1>1, <1>4, <2>2, <2>3, <2>4 DEF Row
    <2> QED BY <1>5, <1>6, <1>8, <2>2, <2>4, <2>5, NoCursorIsNoRow
  <1> QED BY <1>7, <1>8

-----------------------------------------------------------------------------
\* The rows that are sent, sealed in the archive, purged and expired, and the members
\* that come and go.
RowsMove ==
  \/ Send \/ Announce \/ Tick
  \/ \E m \in Sent : Commit(m) \/ Archive(m)
  \/ \E t \in 0..now : Expire(t) \/ Sweep(t)
  \/ \E a \in Account : Leave(a) \/ Join(a)

\* Rows of the queue: each is of its own time.
LEMMA QueueStep ==
  ASSUME DeliveryInv, RowsMove
  PROVE  /\ Sent \subseteq Sent' /\ Numbered'
         /\ \A m \in Sent : at'[m] = at[m]
         /\ TimesPass'
  <1>0. /\ now \in Nat /\ Numbered /\ TimesPass
    BY DeliveryBounds DEF DeliveryInv, TimesPass, Stamp
  <1>1. CASE Insert /\ UNCHANGED <<now, filed>>
    <2>1. /\ Sent \subseteq Sent' /\ Numbered' /\ \A m \in Sent : at'[m] = at[m]
          /\ \A m \in Sent' \ Sent : at'[m] = now
      BY <1>0, <1>1, InsertAdds
    <2>2. ASSUME NEW m \in Sent' PROVE at'[m] \in 0..now
      BY <1>0, <2>1, <2>2 DEF TimesPass
    <2> QED BY <1>0, <1>1, <2>1, <2>2 DEF TimesPass
  <1>2. CASE Tick
    BY <1>0, <1>2, DeliveryBounds
       DEF Tick, TimesPass, Stamp, Sent, Numbered, rowVars, copyVars
  <1>3. CASE \E m \in Sent : Archive(m)
    <2>1. PICK m \in Sent : Archive(m)
      BY <1>3
    <2>2. UNCHANGED <<now, at>>
      BY <2>1 DEF Archive, rowVars
    <2>3. ASSUME NEW k \in DOMAIN filed' PROVE filed'[k] \in 0..now
      <3>1. CASE m \in archived
        BY <1>0, <2>1, <2>3, <3>1 DEF Archive, TimesPass
      <3>2. CASE m \notin archived
        <4>1. filed' = [i \in DOMAIN filed \cup {m} |-> IF i = m THEN now ELSE filed[i]]
          BY <2>1, <3>2 DEF Archive
        <4> QED BY <1>0, <2>3, <4>1 DEF TimesPass
      <3> QED BY <3>1, <3>2
    <2> QED BY <1>0, <2>2, <2>3 DEF TimesPass, Numbered, Sent
  <1>4. CASE UNCHANGED <<now, at, filed>>
    BY <1>0, <1>4 DEF TimesPass, Numbered, Sent
  <1>5. CASE Send \/ Announce
    BY <1>1, <1>5 DEF Send, Announce, copyVars
  <1>6. CASE (\E m \in Sent : Commit(m)) \/ (\E t \in 0..now : Expire(t) \/ Sweep(t))
    BY <1>4, <1>6 DEF Commit, Expire, Sweep, rowVars
  <1>7. CASE \E a \in Account : Leave(a) \/ Join(a)
    BY <1>4, <1>7 DEF Leave, Join, rowVars, copyVars
  <1> QED BY <1>2, <1>3, <1>5, <1>6, <1>7 DEF RowsMove

\* What goes from the queue has an archive row, and what goes from the archive has
\* outlived its window.
LEMMA CopiesStep ==
  ASSUME DeliveryInv, RowsMove
  PROVE  RowsTyped' /\ visible \subseteq visible' /\ KeptSomewhere'
  <1>0. /\ now \in Nat /\ Window \in Nat /\ Numbered /\ TimesPass /\ RowsTyped /\ KeptSomewhere
        /\ Sent \subseteq Sent'
    BY DeliveryBounds, DeliveryWindows, QueueStep DEF DeliveryInv, TimesPass, Stamp
  <1>1. CASE Send \/ Announce
    <2>1. /\ UNCHANGED <<now, visible, cipher, archived, filed, members>>
          /\ systemRows \subseteq systemRows' /\ systemRows' \subseteq systemRows \cup {NewRow}
          /\ unsaid' \in Nat
      BY <1>0, <1>1 DEF Send, Announce, copyVars, memberVars, RowsTyped
    <2>2. Sent' = Sent \cup {NewRow} /\ NewRow \notin Sent
      BY <1>0, <1>1, InsertAdds DEF Send, Announce
    <2>3. RowsTyped'
      BY <1>0, <2>1, <2>2 DEF RowsTyped
    <2>4. KeptSomewhere'
      BY <1>0, <2>1 DEF KeptSomewhere, Outlived
    <2> QED BY <2>1, <2>3, <2>4
  <1>2. CASE Tick
    <2>1. /\ UNCHANGED <<at, systemRows, visible, cipher, archived, filed, members, unsaid>>
          /\ now' = now + 1
      BY <1>2 DEF Tick, rowVars, copyVars, memberVars
    <2>2. ASSUME NEW m \in visible, Outlived(m) PROVE Outlived(m)'
      BY <1>0, <2>1, <2>2 DEF Outlived, TimesPass
    <2> QED BY <1>0, <2>1, <2>2 DEF RowsTyped, KeptSomewhere, Sent
  <1>3. CASE \E m \in Sent : Commit(m)
    <2>1. PICK m \in Sent : Commit(m)
      BY <1>3
    <2>2. /\ UNCHANGED <<now, at, systemRows, archived, filed, members, unsaid>>
          /\ visible' = visible \cup {m} /\ cipher' = cipher \cup ({m} \ systemRows)
      BY <2>1 DEF Commit, memberVars
    <2> QED BY <1>0, <2>2 DEF RowsTyped, KeptSomewhere, Outlived, Sent
  <1>4. CASE \E m \in Sent : Archive(m)
    <2>1. PICK m \in Sent : Archive(m)
      BY <1>4
    <2>2. /\ UNCHANGED <<now, at, systemRows, visible, cipher, members, unsaid>>
          /\ archived' = archived \cup {m} /\ m \in visible \ systemRows
      BY <2>1 DEF Archive, rowVars, memberVars
    <2>3. /\ filed' = [k \in DOMAIN filed' |-> filed'[k]]
          /\ DOMAIN filed' = DOMAIN filed \cup {m}
          /\ \A k \in DOMAIN filed \ {m} : filed'[k] = filed[k]
      <3>1. CASE m \in archived
        <4>1. filed' = filed /\ m \in DOMAIN filed
          BY <1>0, <2>1, <3>1 DEF Archive, RowsTyped
        <4> QED BY <1>0, <4>1 DEF RowsTyped
      <3>2. CASE m \notin archived
        <4>1. filed' = [i \in DOMAIN filed \cup {m} |-> IF i = m THEN now ELSE filed[i]]
          BY <2>1, <3>2 DEF Archive
        <4> QED BY <4>1
      <3> QED BY <3>1, <3>2
    <2>4. RowsTyped'
      BY <1>0, <2>2, <2>3 DEF RowsTyped, Sent
    <2>5. KeptSomewhere'
      BY <1>0, <2>2, <2>3 DEF KeptSomewhere, Outlived
    <2> QED BY <2>2, <2>4, <2>5
  <1>5. CASE \E t \in 0..now : Expire(t)
    <2>1. PICK t \in 0..now : Expire(t)
      BY <1>5
    <2>2. /\ UNCHANGED <<now, at, systemRows, visible, cipher, filed, members, unsaid>>
          /\ Window > 0 /\ archived' = {m \in archived : filed[m] >= Ms(t) - Window}
      BY <2>1 DEF Expire, rowVars, memberVars
    <2>3. t \in Nat /\ Ms(t) \in Nat /\ Ms(t) <= now
      BY <1>0, Milliseconds
    <2>4. ASSUME NEW m \in archived \ archived' PROVE Outlived(m)
      <3>1. m \in DOMAIN filed /\ filed[m] \in Nat /\ ~ (filed[m] >= Ms(t) - Window)
        BY <1>0, <2>2, <2>4 DEF RowsTyped, TimesPass
      <3> QED BY <1>0, <2>2, <2>3, <3>1 DEF Outlived
    <2>5. RowsTyped'
      BY <1>0, <2>2 DEF RowsTyped, Sent
    <2>6. KeptSomewhere'
      BY <1>0, <2>2, <2>4 DEF KeptSomewhere, Outlived
    <2> QED BY <2>2, <2>5, <2>6
  <1>6. CASE \E t \in 0..now : Sweep(t)
    <2>1. PICK t \in 0..now : Sweep(t)
      BY <1>6
    <2>2. /\ UNCHANGED <<now, at, systemRows, visible, archived, filed, members, unsaid>>
          /\ cipher' = {m \in cipher : ~Purgeable(m, Ms(t))}
      BY <2>1 DEF Sweep, rowVars, memberVars
    <2>3. cipher' \subseteq cipher /\ cipher \subseteq cipher' \cup archived
      BY <2>2 DEF Purgeable
    <2> QED BY <1>0, <2>2, <2>3 DEF RowsTyped, KeptSomewhere, Outlived, Sent
  <1>7. CASE \E a \in Account : Leave(a) \/ Join(a)
    <2>1. /\ UNCHANGED <<now, at, systemRows, visible, cipher, archived, filed>>
          /\ members' \subseteq Account /\ unsaid' \in Nat
      BY <1>0, <1>7 DEF Leave, Join, rowVars, copyVars, RowsTyped
    <2> QED BY <1>0, <2>1 DEF RowsTyped, KeptSomewhere, Outlived, Sent
  <1> QED BY <1>1, <1>2, <1>3, <1>4, <1>5, <1>6, <1>7 DEF RowsMove

LEMMA RowStep ==
  ASSUME DeliveryInv, RowsMove
  PROVE  DeliveryInv'
  <1>1. UNCHANGED <<cursor, got, acks>>
    BY DEF RowsMove, Send, Announce, Tick, Commit, Archive, Expire, Sweep, Leave, Join,
           deviceVars
  <1>2. DevicesTyped'
    BY <1>1, CopiesStep DEF DeliveryInv, DevicesTyped
  <1>3. Marked' /\ MarksAreRead'
    BY <1>1, QueueStep, MarksStay DEF Marked
  <1> QED BY <1>2, <1>3, QueueStep, CopiesStep DEF DeliveryInv

\* The newest of what a batch brought is a row that was read.
LEMMA ReceiveKeeps ==
  ASSUME DeliveryInv, NEW d \in Device, NEW batch \in Batches, NEW read \in SUBSET batch,
         Receive(d, batch, read)
  PROVE  DeliveryInv'
  <1>0. /\ UNCHANGED <<now, at, systemRows, visible, cipher, archived, filed, members, unsaid,
                       cursor>>
        /\ got' = [got EXCEPT ![d] = @ \cup read]
        /\ acks' = [acks EXCEPT ![d] = @ \cup (IF read = {} THEN {} ELSE {Claim(batch, read)})]
    BY DEF Receive, rowVars, copyVars, memberVars
  <1>1. read \subseteq visible /\ visible \subseteq Sent
    BY DEF Batches, Streamed, DeliveryInv, RowsTyped
  <1>2. /\ got' \in [Device -> SUBSET visible]
        /\ \A e \in Device : got[e] \subseteq got'[e]
        /\ read \subseteq got'[d]
    BY <1>0, <1>1 DEF DeliveryInv, DevicesTyped
  <1>3. ASSUME read # {} PROVE \E m \in read : Claim(batch, read) = Ms(at[m])
    <2> DEFINE S == {Ms(at[m]) : m \in read}
    <2>1. \A m \in read : at[m] \in 0..now /\ now \in Nat
      BY <1>1, DeliveryBounds DEF DeliveryInv, TimesPass, Stamp
    <2>2. S # {} /\ S \subseteq 0..now
      BY <1>3, <2>1, Milliseconds
    <2>3. Max(S) \in S
      BY <1>3, <2>1, <2>2, GreatestNatural
    <2> QED BY <2>3 DEF Claim
  <1>4. now \in 0..MaxTime /\ MaxTime \in Nat /\ \A m \in Sent : at[m] \in 0..now
    BY DeliveryBounds DEF DeliveryInv, TimesPass, Stamp
  <1>5. acks' \in [Device -> SUBSET Stamp]
    <2>1. read # {} => Claim(batch, read) \in Stamp
      BY <1>1, <1>3, <1>4, Milliseconds DEF Stamp
    <2> QED BY <1>0, <2>1 DEF DeliveryInv, DevicesTyped
  <1>6. MarksAreRead' /\ \A e \in Device : \A mark \in acks[e] : \E m \in got'[e] : mark = Ms(at'[m])
    BY <1>0, <1>2, MarksStay
  <1>7. Marked'
    <2> SUFFICES ASSUME NEW e \in Device, NEW mark \in acks'[e]
                 PROVE  \E m \in got'[e] : mark = Ms(at'[m])
      BY DEF Marked
    <2>1. CASE mark \in acks[e]
      BY <1>6, <2>1
    <2>2. CASE mark \notin acks[e]
      <3>1. e = d /\ read # {} /\ mark = Claim(batch, read)
        BY <1>0, <2>2 DEF DeliveryInv, DevicesTyped
      <3> QED BY <1>0, <1>2, <1>3, <3>1
    <2> QED BY <2>1, <2>2
  <1> QED BY <1>0, <1>2, <1>5, <1>6, <1>7
          DEF DeliveryInv, Numbered, Sent, TimesPass, RowsTyped, DevicesTyped, KeptSomewhere,
              Outlived

\* A mark that arrives is one of those on their way.
LEMMA AckKeeps ==
  ASSUME DeliveryInv, NEW d \in Device, NEW mark \in acks[d], Ack(d, mark)
  PROVE  DeliveryInv'
  <1>0. /\ UNCHANGED <<now, at, systemRows, visible, cipher, archived, filed, members, unsaid, got>>
        /\ acks' = [acks EXCEPT ![d] = @ \ {mark}]
        /\ cursor' = [cursor EXCEPT ![d] = Acked(cursor[d], mark)]
    BY AckedRow DEF Ack, rowVars, copyVars, memberVars
  <1>1. /\ cursor' \in [Device -> Row \cup {None}] /\ cursor'[d] = Acked(cursor[d], mark)
        /\ \A e \in Device \ {d} : cursor'[e] = cursor[e]
    BY <1>0, AckedRow DEF DeliveryInv, DevicesTyped
  <1>2. /\ acks' \in [Device -> SUBSET Stamp] /\ \A e \in Device : acks'[e] \subseteq acks[e]
    BY <1>0 DEF DeliveryInv, DevicesTyped
  <1>3. Marked'
    BY <1>0, <1>2 DEF DeliveryInv, Marked
  <1>4. MarksAreRead'
    <2>1. PICK m \in got[d] : mark = Ms(at[m])
      BY DEF DeliveryInv, Marked
    <2>2. \E k \in got[d] : cursor'[d].through = Ms(at[k])
      BY <1>1, <2>1, AckedRow DEF DeliveryInv, MarksAreRead
    <2> QED BY <1>0, <1>1, <2>2 DEF DeliveryInv, MarksAreRead
  <1> QED BY <1>0, <1>1, <1>2, <1>3, <1>4
          DEF DeliveryInv, Numbered, Sent, TimesPass, RowsTyped, DevicesTyped, KeptSomewhere,
              Outlived

\* One that is lost is forgotten.
LEMMA LoseAckKeeps ==
  ASSUME DeliveryInv, NEW d \in Device, NEW mark \in acks[d], LoseAck(d, mark)
  PROVE  DeliveryInv'
  <1>0. /\ UNCHANGED <<now, at, systemRows, visible, cipher, archived, filed, members, unsaid,
                       cursor, got>>
        /\ acks' = [acks EXCEPT ![d] = @ \ {mark}]
    BY DEF LoseAck, rowVars, copyVars, memberVars
  <1>1. /\ acks' \in [Device -> SUBSET Stamp] /\ \A e \in Device : acks'[e] \subseteq acks[e]
    BY <1>0 DEF DeliveryInv, DevicesTyped
  <1> QED BY <1>0, <1>1 DEF DeliveryInv, Numbered, Sent, TimesPass, RowsTyped, DevicesTyped,
                            Marked, MarksAreRead, KeptSomewhere, Outlived

\* DeliveryInv is inductive.
LEMMA NextDeliveryInv == DeliveryInv /\ [DeliveryNext]_vars => DeliveryInv'
  <1> SUFFICES ASSUME DeliveryInv, [DeliveryNext]_vars PROVE DeliveryInv'
    OBVIOUS
  <1>1. CASE RowsMove
    BY <1>1, RowStep
  <1>2. CASE \E d \in Device : \E batch \in Batches : \E read \in SUBSET batch :
               Receive(d, batch, read)
    BY <1>2, ReceiveKeeps
  <1>3. CASE \E d \in Device : \E mark \in acks[d] : Ack(d, mark) \/ LoseAck(d, mark)
    BY <1>3, AckKeeps, LoseAckKeeps
  <1>4. CASE UNCHANGED vars
    BY <1>4 DEF vars, rowVars, copyVars, memberVars, deviceVars, DeliveryInv, Numbered, Sent,
                TimesPass, RowsTyped, DevicesTyped, Marked, MarksAreRead, KeptSomewhere, Outlived
  <1> QED BY <1>1, <1>2, <1>3, <1>4 DEF DeliveryNext, RowsMove

\* Type correctness, for every set of devices and accounts and every bound.
THEOREM DeliveryTyped == DeliverySpec => []TypeOK
  <1>1. DeliveryInv => TypeOK
    <2> SUFFICES ASSUME DeliveryInv PROVE TypeOK
      OBVIOUS
    <2>1. PICK n \in 0..MaxMsg : Sent = 1..n
      BY DEF DeliveryInv, Numbered
    <2>2. n \in Nat /\ n <= MaxMsg
      BY DeliveryBounds
    <2>3. Cardinality(1..n) = n
      BY <2>2, FS_Interval
    <2>4. now \in 0..MaxTime /\ \A m \in Sent : at[m] \in 0..MaxTime
      BY DeliveryBounds DEF DeliveryInv, TimesPass, Stamp
    <2>5. at \in [1..Cardinality(Sent) -> Stamp]
      <3>1. at = [m \in Sent |-> at[m]]
        BY DEF DeliveryInv, Numbered
      <3> QED BY <2>1, <2>3, <2>4, <3>1 DEF Stamp
    <2>6. filed \in [DOMAIN filed -> Stamp]
      <3>1. filed = [m \in DOMAIN filed |-> filed[m]] /\ \A m \in DOMAIN filed : filed[m] \in Stamp
        BY <2>4, DeliveryBounds DEF DeliveryInv, RowsTyped, TimesPass, Stamp
      <3> QED BY <3>1
    <2> QED BY <2>1, <2>2, <2>3, <2>4, <2>5, <2>6, DeliveryBounds
            DEF TypeOK, DeliveryInv, TimesPass, RowsTyped, DevicesTyped, Stamp
  <1> QED BY <1>1, InitDeliveryInv, NextDeliveryInv, PTL DEF DeliverySpec

\* A message is in the live queue or in the archive, from the moment it is seen, until
\* its archive row outlives the topic's window: purgeDeliveredCiphertext drops what has
\* an archive row, whatever the age of the message, the cursors of devices and the
\* membership it looks at, and purgeExpiredArchiveRows what is older than its window,
\* however late either runs.
THEOREM KeptSomewhereHolds == DeliverySpec => []KeptSomewhere
  <1>1. DeliveryInv => KeptSomewhere
    BY DEF DeliveryInv
  <1> QED BY <1>1, InitDeliveryInv, NextDeliveryInv, PTL DEF DeliverySpec

\* A cursor names a row its device read (deliveryMarkOf, chat/delivered).
THEOREM MarksAreReadHolds == DeliverySpec => []MarksAreRead
  <1>1. DeliveryInv => MarksAreRead
    BY DEF DeliveryInv
  <1> QED BY <1>1, InitDeliveryInv, NextDeliveryInv, PTL DEF DeliverySpec

\* Acknowledgements may arrive in any order and be lost: the upsert takes the greatest
\* mark and leaves the first contact alone.
THEOREM CursorsAdvanceHolds == DeliverySpec => CursorsAdvance
  <1> DEFINE Advance ==
        \A d \in Device : cursor[d] # None =>
          /\ cursor'[d] # None
          /\ cursor'[d].through >= cursor[d].through
          /\ cursor'[d].first = cursor[d].first
  <1>1. ASSUME DeliveryInv, DeliveryNext PROVE Advance
    <2>1. CASE \E d \in Device : \E mark \in acks[d] : Ack(d, mark)
      <3>1. PICK e \in Device : \E mark \in acks[e] : Ack(e, mark)
        BY <2>1
      <3>2. PICK mark \in acks[e] : Ack(e, mark)
        BY <3>1
      <3>3. cursor' = [cursor EXCEPT ![e] = Acked(cursor[e], mark)]
        BY <1>1, <3>2, AckedRow DEF Ack
      <3>4. /\ cursor'[e] = Acked(cursor[e], mark)
            /\ \A d \in Device \ {e} : cursor'[d] = cursor[d]
        BY <1>1, <3>3 DEF DeliveryInv, DevicesTyped
      <3>5. \A d \in Device : cursor[d] # None => cursor[d].through \in Nat
        BY <1>1, DeliveryBounds DEF DeliveryInv, DevicesTyped, Row, Stamp
      <3>6. cursor[e] # None =>
              /\ cursor'[e] # None
              /\ cursor'[e].through >= cursor[e].through
              /\ cursor'[e].first = cursor[e].first
        BY <1>1, <3>4, AckedRow
      <3>7. \A d \in Device \ {e} : cursor[d] # None =>
              /\ cursor'[d] # None
              /\ cursor'[d].through >= cursor[d].through
              /\ cursor'[d].first = cursor[d].first
        BY <3>4, <3>5
      <3> QED BY <3>6, <3>7
    <2>2. CASE UNCHANGED cursor
      BY <1>1, <2>2, DeliveryBounds DEF DeliveryInv, DevicesTyped, Row, Stamp
    <2> QED BY <1>1, <2>1, <2>2 DEF DeliveryNext, Send, Announce, Tick, Commit, Archive, Expire,
                                    Receive, LoseAck, Sweep, Leave, Join, deviceVars
  <1>2. DeliveryInv /\ [DeliveryNext]_vars => [Advance]_vars
    BY <1>1
  <1> QED BY <1>2, InitDeliveryInv, NextDeliveryInv, PTL DEF DeliverySpec, CursorsAdvance

\* Only a sweep takes a ciphertext out of the queue, and what it looks at is purgeable.
LEMMA OnlySweepsPurge ==
  ASSUME DeliveryInv, [DeliveryNext]_vars, NEW m \in cipher, m \notin cipher'
  PROVE  \E t \in 0..now : Purgeable(m, Ms(t))
  BY DEF DeliveryNext, Send, Announce, Tick, Commit, Archive, Expire, Receive, Ack, LoseAck,
         Sweep, Leave, Join, vars, copyVars

\* A device that is there, still speaks and has read no row as new as a message is
\* waited for until the grace cap: what its cursor claims is a row it read, and the
\* sweep's clock is one that has been (isPurgeable).
THEOREM UnreadIsKeptHolds == DeliverySpec => UnreadIsKept
  <1> DEFINE Waits ==
        \A m \in cipher \ cipher' :
          at[m] >= now - Grace => \A d \in Device : ~WaitsFor(d, m)
  <1>1. ASSUME DeliveryInv, [DeliveryNext]_vars,
               NEW m \in cipher \ cipher', at[m] >= now - Grace,
               NEW d \in Device, WaitsFor(d, m)
        PROVE  FALSE
    <2>0. now \in Nat /\ at[m] \in 0..now /\ Grace \in Nat /\ Stale \in Nat
      BY <1>1, DeliveryWindows, DeliveryBounds DEF DeliveryInv, TimesPass, RowsTyped, Stamp
    <2>1. PICK t \in 0..now : Purgeable(m, Ms(t))
      BY <1>1, OnlySweepsPurge
    <2>2. Ms(t) \in Nat /\ Ms(t) <= now
      BY <2>0, Milliseconds
    <2>3. ~ (at[m] < Ms(t) - Grace)
      BY <1>1, <2>0, <2>2
    <2>4. ~Owed(d, m, Ms(t))
      BY <2>1, <2>3 DEF Purgeable
    <2>5. cursor[d].first \in Nat /\ cursor[d].last \in Nat
      BY <1>1, DeliveryBounds DEF WaitsFor, DeliveryInv, DevicesTyped, Row, Stamp
    <2>6. PICK k \in got[d] : cursor[d].through = Ms(at[k])
      BY <1>1 DEF WaitsFor, DeliveryInv, MarksAreRead
    <2>7. at[k] \in Nat
      BY <1>1, <2>6, ReadIsSent DEF DeliveryInv, TimesPass
    <2>8. Ms(cursor[d].through) = Ms(at[k]) /\ Ms(at[k]) < Ms(at[m])
      BY <1>1, <2>6, <2>7, Milliseconds DEF WaitsFor
    <2>9. cursor[d].last >= Ms(t) - Stale
      BY <1>1, <2>0, <2>2, <2>5 DEF WaitsFor
    <2> QED BY <1>1, <2>4, <2>8, <2>9 DEF Owed, WaitsFor
  <1>2. DeliveryInv /\ [DeliveryNext]_vars => [Waits]_vars
    BY <1>1
  <1> QED BY <1>2, InitDeliveryInv, NextDeliveryInv, PTL DEF DeliverySpec, UnreadIsKept

\* Once every device that counts has read up to a message and said so, every sweep finds
\* it purgeable: both sides of the comparison are cut to the millisecond.
THEOREM ReadIsClearedHolds == DeliverySpec => []ReadIsCleared
  <1>1. ASSUME DeliveryInv, NEW m \in cipher \cap archived, NEW t \in 0..now, ReadByAll(m),
               ~Purgeable(m, Ms(t))
        PROVE  FALSE
    <2>2. PICK d \in Device : Owed(d, m, Ms(t))
      BY <1>1 DEF Purgeable
    <2>3. PICK k \in got[d] : at[k] >= at[m] /\ cursor[d].through >= Ms(at[k])
      BY <1>1, <2>2 DEF ReadByAll, Owed
    <2>4. at[k] \in Nat /\ at[m] \in Nat
      BY <1>1, <2>3, ReadIsSent DEF DeliveryInv, TimesPass, RowsTyped
    <2>5. cursor[d].through \in Nat
      BY <2>2, <1>1, DeliveryBounds DEF Owed, DeliveryInv, DevicesTyped, Row, Stamp
    <2>6. Ms(at[m]) <= Ms(at[k]) /\ Ms(at[k]) <= Ms(cursor[d].through)
      <3>1. Ms(at[k]) \in Nat /\ Ms(Ms(at[k])) = Ms(at[k])
        BY <2>4, Milliseconds
      <3>2. Ms(Ms(at[k])) <= Ms(cursor[d].through)
        BY <2>3, <2>5, <3>1, Milliseconds
      <3> QED BY <2>3, <2>4, <3>1, <3>2, Milliseconds
    <2>7. Ms(at[m]) \in Nat /\ Ms(at[k]) \in Nat /\ Ms(cursor[d].through) \in Nat
      BY <2>4, <2>5, Milliseconds
    <2>8. Ms(cursor[d].through) < Ms(at[m])
      BY <2>2 DEF Owed
    <2> QED BY <2>6, <2>7, <2>8
  <1>2. DeliveryInv => ReadIsCleared
    BY <1>1 DEF ReadIsCleared
  <1> QED BY <1>2, InitDeliveryInv, NextDeliveryInv, PTL DEF DeliverySpec
===========================================================================
