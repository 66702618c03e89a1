-------------------------- MODULE ChatMediaProofs --------------------------
(***************************************************************************)
(* Proofs about what the chat stores: ChatMedia, for every set of          *)
(* attachments and instances, every window and any number of faults, and,  *)
(* at the end, ChatArchive, for every set of messages, devices and         *)
(* instances.  The two share no state.                                     *)
(*                                                                         *)
(* A row goes in three ways, and each has its reason why no object is      *)
(* behind it: a failed upload stored nothing the server knows of, a DELETE *)
(* has removed the object before, and so has a sweep.  An object that was  *)
(* removed does not come back because only an upload that is storing puts  *)
(* one there, and an upload's row is too young for any sweep until it has  *)
(* ended (SweptIsOver).                                                    *)
(***************************************************************************)
EXTENDS ChatMedia, ChatArchive, FiniteSetTheorems, TLAPS

\* A sweep may take the object of k.
Past(k) ==
  row[k] = None \/ Overtaken(k) \/ (Retention > 0 /\ now > row[k].at + Retention)

\* An upload under way has its row, and the row is young.
UploadInv ==
  \A k \in Key :
    /\ upload[k] = "none" => row[k] = None
    /\ upload[k] \in {"none", "storing"} => k \notin object
    /\ upload[k] \in {"storing", "failed"} => row[k] # None /\ now <= row[k].at + Grace
    /\ upload[k] = "failed" /\ k \in object => k \in misjudged
    /\ k \in posted => upload[k] = "ended"

\* What a sweep has in hand is no upload under way, and is old.
SweptIsOver ==
  \A s \in Sweeper :
    /\ \A k \in sweep[s].keys \cup sweep[s].gone : upload[k] \in {"stored", "ended"} /\ Past(k)
    /\ sweep[s].gone \cap object = {}

\* What an unclaimed pass picked was an upload that is over, past the grace window, and
\* is not claimed before that.
PickedInv ==
  \A k \in Key : picked[k] # None =>
    /\ picked[k] <= now /\ upload[k] \in {"stored", "ended"}
    /\ row[k] # None => Overtaken(k)

\* A DELETE that has come to the row has removed the object.
DroppedIsGone ==
  \A k \in Key : dropping[k] # "no" => upload[k] = "ended" /\ k \notin object

\* What was stored is there, unless its time has passed or it was deleted.
StoredIsThere ==
  \A k \in Key :
    upload[k] = "stored" \/ k \in posted => k \in object \/ dropping[k] # "no" \/ Past(k)

MediaInv ==
  /\ TypeOK /\ UploadInv /\ PickedInv /\ SweptIsOver /\ DroppedIsGone
  /\ StoredIsIndexed /\ StoredIsThere
-----------------------------------------------------------------------------
\* The service starts with nothing stored.
LEMMA InitInv == MediaInit => MediaInv
  BY NoneIsNoRow, MediaWindows
  DEF MediaInit, MediaInv, TypeOK, Phase, Idle, UploadInv, PickedInv, SweptIsOver, DroppedIsGone,
      StoredIsIndexed, StoredIsThere

\* Every step keeps the types.
LEMMA TypesKept == ASSUME MediaInv, [MediaNext]_vars PROVE TypeOK'
  <1> USE NoneIsNoRow, MediaWindows DEF TypeOK, Phase, Row
  <1> USE DEF MediaInv
  <1>1. CASE UNCHANGED vars
    BY <1>1 DEF vars
  <1>2. ASSUME NEW k \in Key, BeginUpload(k) PROVE TypeOK'
    BY <1>2 DEF BeginUpload
  <1>3. ASSUME NEW k \in Key, Store(k) PROVE TypeOK'
    BY <1>3 DEF Store
  <1>4. ASSUME NEW k \in Key, StoreFails(k) PROVE TypeOK'
    BY <1>4 DEF StoreFails
  <1>5. ASSUME NEW k \in Key, RollBack(k) PROVE TypeOK'
    BY <1>5 DEF RollBack
  <1>6. ASSUME NEW k \in Key, PostMessage(k) \/ Abandon(k) \/ Read(k) \/ LoseClaim(k)
        PROVE  TypeOK'
    BY <1>6 DEF PostMessage, Abandon, Read, LoseClaim
  <1>7. ASSUME NEW k \in Key, Claim(k) PROVE TypeOK'
    BY <1>7 DEF Claim
  <1>8. ASSUME NEW k \in Key, DeleteObject(k) \/ DeleteRow(k) PROVE TypeOK'
    BY <1>8 DEF DeleteObject, DeleteRow
  <1>9. ASSUME NEW s \in Sweeper, SelectExpired(s) \/ SelectUnclaimed(s) PROVE TypeOK'
    BY <1>9 DEF SelectExpired, SelectUnclaimed
  <1>10. ASSUME NEW s \in Sweeper, NEW k \in Key, Collect(s, k) PROVE TypeOK'
    BY <1>10 DEF Collect
  <1>11. ASSUME NEW s \in Sweeper, DropRows(s) \/ Stop(s) PROVE TypeOK'
    BY <1>11 DEF DropRows, Stop, Idle
  <1>12. CASE Tick
    BY <1>12 DEF Tick
  <1> QED BY <1>1, <1>2, <1>3, <1>4, <1>5, <1>6, <1>7, <1>8, <1>9, <1>10, <1>11, <1>12
          DEF MediaNext, SweepStep

\* A claim moves no row and changes no row's time, and stamps what is not stamped.
LEMMA ClaimKeepsRow ==
  ASSUME MediaInv, NEW j \in Key, Claim(j), NEW k \in Key
  PROVE  /\ row[k] = None <=> row'[k] = None
         /\ row[k] # None => row'[k].at = row[k].at
         /\ row[k] # None => row'[k].claimed \in {row[k].claimed, now}
  <1>1. CASE row[k] = None \/ Claimed(k) \/ j # k
    BY <1>1 DEF Claim, MediaInv, TypeOK
  <1>2. CASE row[k] # None /\ ~Claimed(k) /\ j = k
    <2>1. row[k] \in Row
      BY <1>2 DEF MediaInv, TypeOK
    <2>2. row'[k] = [at |-> row[k].at, claimed |-> now]
      BY <1>2 DEF Claim, MediaInv, TypeOK
    <2>3. row'[k] \in Row
      BY <2>1, <2>2 DEF Row, MediaInv, TypeOK
    <2> QED BY <1>2, <2>2, <2>3, NoneIsNoRow
  <1> QED BY <1>1, <1>2

\* An upload has its row until it has failed, and no time passes that would make
\* the row old.
LEMMA UploadKept == ASSUME MediaInv, [MediaNext]_vars PROVE UploadInv'
  <1> USE NoneIsNoRow, MediaWindows DEF TypeOK, Phase, Row, UploadInv
  <1> USE DEF MediaInv
  <1>1. CASE UNCHANGED vars
    BY <1>1 DEF vars
  <1>2. ASSUME NEW k \in Key, BeginUpload(k) PROVE UploadInv'
    <2>1. [at |-> now, claimed |-> None] \in Row
      OBVIOUS
    <2>2. row'[k] = [at |-> now, claimed |-> None] /\ upload[k] = "none" /\ upload'[k] = "storing"
      BY <1>2 DEF BeginUpload
    <2>3. row'[k] # None
      BY <2>1, <2>2
    <2>4. row'[k].at = now /\ now <= now + Grace
      BY <2>2
    <2>5. /\ UNCHANGED <<now, object, misjudged, posted>>
          /\ \A j \in Key \ {k} : row'[j] = row[j] /\ upload'[j] = upload[j]
      BY <1>2 DEF BeginUpload
    <2> QED BY <2>2, <2>3, <2>4, <2>5
  <1>3. ASSUME NEW k \in Key, Store(k) PROVE UploadInv'
    BY <1>3 DEF Store
  <1>4. ASSUME NEW k \in Key, StoreFails(k) PROVE UploadInv'
    BY <1>4 DEF StoreFails
  <1>5. ASSUME NEW k \in Key, RollBack(k) PROVE UploadInv'
    BY <1>5 DEF RollBack
  <1>6. ASSUME NEW k \in Key, PostMessage(k) \/ Abandon(k) \/ Read(k) \/ LoseClaim(k)
        PROVE  UploadInv'
    BY <1>6 DEF PostMessage, Abandon, Read, LoseClaim
  <1>7. ASSUME NEW k \in Key, Claim(k) PROVE UploadInv'
    <2>1. UNCHANGED <<now, upload, object, misjudged, posted>>
      BY <1>7 DEF Claim
    <2> QED BY <2>1, <1>7, ClaimKeepsRow
  <1>8. ASSUME NEW k \in Key, DeleteObject(k) \/ DeleteRow(k) PROVE UploadInv'
    BY <1>8 DEF DeleteObject, DeleteRow, DroppedIsGone
  <1>9. ASSUME NEW s \in Sweeper, SelectExpired(s) \/ SelectUnclaimed(s) PROVE UploadInv'
    BY <1>9 DEF SelectExpired, SelectUnclaimed
  <1>10. ASSUME NEW s \in Sweeper, NEW k \in Key, Collect(s, k) PROVE UploadInv'
    BY <1>10 DEF Collect
  <1>11. ASSUME NEW s \in Sweeper, DropRows(s) \/ Stop(s) PROVE UploadInv'
    BY <1>11 DEF DropRows, Stop, Idle, SweptIsOver
  <1>12. CASE Tick
    BY <1>12 DEF Tick
  <1> QED BY <1>1, <1>2, <1>3, <1>4, <1>5, <1>6, <1>7, <1>8, <1>9, <1>10, <1>11, <1>12
          DEF MediaNext, SweepStep

\* What a pass selects is too old to be an upload under way.
LEMMA SelectedIsOver ==
  ASSUME MediaInv, NEW k \in Key, Expired(k) \/ Unclaimed(k)
  PROVE  upload[k] \in {"stored", "ended"}
  BY NoneIsNoRow, MediaWindows
  DEF MediaInv, TypeOK, Row, Phase, UploadInv, Expired, Unclaimed

\* A row's time never changes, and a claim that comes is no older than what was picked:
\* what was overtaken stays so, as long as there is a row.
LEMMA OvertakenStays ==
  ASSUME MediaInv, [MediaNext]_vars, NEW k \in Key, Overtaken(k), row[k] # None,
         upload[k] # "none", row'[k] # None
  PROVE  Overtaken(k)'
  <1> USE NoneIsNoRow, MediaWindows DEF MediaInv, TypeOK, Phase, Row, Overtaken, Claimed
  <1>0. picked[k] \in Nat /\ picked[k] <= now
    BY DEF PickedInv
  <1>1. picked'[k] = picked[k]
    <2>1. ASSUME NEW s \in Sweeper, SelectUnclaimed(s) PROVE picked'[k] = picked[k]
      BY <1>0, <2>1 DEF SelectUnclaimed
    <2> QED BY <2>1
        DEF MediaNext, SweepStep, vars, BeginUpload, Store, StoreFails, RollBack, PostMessage,
            Abandon, Read, Claim, LoseClaim, DeleteObject, DeleteRow, SelectExpired, Collect,
            DropRows, Stop, Tick
  <1>2. CASE row'[k] = row[k]
    BY <1>1, <1>2
  <1>3. ASSUME NEW j \in Key, Claim(j) PROVE Overtaken(k)'
    <2>1. /\ row[k] \in Row /\ row'[k].at = row[k].at
          /\ row'[k].claimed \in {row[k].claimed, now}
      BY <1>3, ClaimKeepsRow
    <2> QED BY <1>0, <1>1, <2>1
  <1>4. ASSUME NEW j \in Key, BeginUpload(j) PROVE row'[k] = row[k]
    BY <1>4 DEF BeginUpload
  <1>5. ASSUME NEW j \in Key, RollBack(j) \/ DeleteRow(j) PROVE row'[k] = row[k]
    BY <1>5 DEF RollBack, DeleteRow
  <1>6. ASSUME NEW s \in Sweeper, DropRows(s) PROVE row'[k] = row[k]
    BY <1>6 DEF DropRows
  <1> QED BY <1>2, <1>3, <1>4, <1>5, <1>6
          DEF MediaNext, SweepStep, vars, Store, StoreFails, PostMessage, Abandon, Read,
              LoseClaim, DeleteObject, SelectExpired, SelectUnclaimed, Collect, Stop, Tick

\* What is past stays past.
LEMMA PastStays ==
  ASSUME MediaInv, [MediaNext]_vars, NEW k \in Key, Past(k), upload[k] # "none"
  PROVE  Past(k)'
  <1> USE NoneIsNoRow, MediaWindows DEF MediaInv, TypeOK, Phase, Row
  <1>1. CASE row'[k] = None
    BY <1>1 DEF Past
  <1>2. CASE row'[k] # None
    <2>1. row[k] # None /\ row'[k].at = row[k].at
      <3>1. ASSUME NEW j \in Key, Claim(j) PROVE row[k] # None /\ row'[k].at = row[k].at
        BY <1>2, <3>1, ClaimKeepsRow
      <3>2. ASSUME NEW j \in Key, BeginUpload(j) PROVE row'[k] = row[k]
        BY <3>2 DEF BeginUpload
      <3>3. ASSUME NEW j \in Key, RollBack(j) \/ DeleteRow(j) PROVE row'[k] = row[k]
        BY <1>2, <3>3 DEF RollBack, DeleteRow
      <3>4. ASSUME NEW s \in Sweeper, DropRows(s) PROVE row'[k] = row[k]
        BY <1>2, <3>4 DEF DropRows
      <3> QED BY <1>2, <3>1, <3>2, <3>3, <3>4
          DEF MediaNext, SweepStep, vars, Store, StoreFails, PostMessage, Abandon, Read,
              LoseClaim, DeleteObject, SelectExpired, SelectUnclaimed, Collect, Stop, Tick
    <2>2. CASE Overtaken(k)
      BY <1>2, <2>1, <2>2, OvertakenStays DEF Past
    <2>3. CASE Retention > 0 /\ now > row[k].at + Retention
      <3>1. now' \in {now, now + 1}
        BY DEF MediaNext, SweepStep, vars, BeginUpload, Store, StoreFails,
               RollBack, PostMessage, Abandon, Read, Claim, LoseClaim, DeleteObject, DeleteRow,
               SelectExpired, SelectUnclaimed, Collect, DropRows, Stop, Tick
      <3> QED BY <2>1, <2>3, <3>1 DEF Past
    <2> QED BY <2>1, <2>2, <2>3 DEF Past
  <1> QED BY <1>1, <1>2

\* An upload that is over stays over.
LEMMA OverStays ==
  ASSUME MediaInv, [MediaNext]_vars, NEW k \in Key, upload[k] \in {"stored", "ended"}
  PROVE  /\ upload'[k] \in {"stored", "ended"}
         /\ k \in object' => k \in object
  BY DEF MediaInv, TypeOK, Phase, MediaNext, SweepStep, vars, BeginUpload, Store, StoreFails,
         RollBack, PostMessage, Abandon, Read, Claim, LoseClaim, DeleteObject, DeleteRow,
         SelectExpired, SelectUnclaimed, Collect, DropRows, Stop, Tick

\* What was picked stays what it is, and what is picked now is unclaimed and past its
\* grace.
LEMMA PickedKept == ASSUME MediaInv, [MediaNext]_vars PROVE PickedInv'
  <1> USE NoneIsNoRow, MediaWindows DEF TypeOK, Phase, Row
  <1> SUFFICES ASSUME NEW k \in Key, picked'[k] # None
               PROVE  /\ picked'[k] <= now' /\ upload'[k] \in {"stored", "ended"}
                      /\ row'[k] # None => Overtaken(k)'
    BY DEF PickedInv
  <1>1. CASE picked[k] # None
    <2>1. /\ picked[k] <= now /\ upload[k] \in {"stored", "ended"}
          /\ row[k] # None => Overtaken(k)
      BY <1>1 DEF MediaInv, PickedInv
    <2>2. picked'[k] = picked[k]
      <3>1. ASSUME NEW s \in Sweeper, SelectUnclaimed(s) PROVE picked'[k] = picked[k]
        BY <1>1, <3>1 DEF SelectUnclaimed
      <3> QED BY <3>1
          DEF MediaNext, SweepStep, vars, BeginUpload, Store, StoreFails, RollBack, PostMessage,
              Abandon, Read, Claim, LoseClaim, DeleteObject, DeleteRow, SelectExpired, Collect,
              DropRows, Stop, Tick
    <2>3. now' \in {now, now + 1} /\ now \in Nat /\ picked[k] \in Nat
      <3>1. now' \in {now, now + 1}
        BY DEF MediaNext, SweepStep, vars, BeginUpload, Store, StoreFails,
               RollBack, PostMessage, Abandon, Read, Claim, LoseClaim, DeleteObject, DeleteRow,
               SelectExpired, SelectUnclaimed, Collect, DropRows, Stop, Tick
      <3> QED BY <1>1, <3>1 DEF MediaInv
    <2>4. Past(k)' /\ (row[k] = None => row'[k] = None)
      <3>1. Past(k) /\ upload[k] # "none"
        BY <2>1 DEF Past
      <3>2. row[k] = None => row'[k] = None
        <4>1. ASSUME NEW j \in Key, Claim(j) PROVE row[k] = None <=> row'[k] = None
          BY <4>1, ClaimKeepsRow
        <4>2. ASSUME NEW j \in Key, BeginUpload(j) PROVE row'[k] = row[k]
          BY <2>1, <4>2 DEF BeginUpload, MediaInv
        <4> QED BY <4>1, <4>2
            DEF MediaInv, MediaNext, SweepStep, vars, Store, StoreFails, RollBack, PostMessage,
                Abandon, Read, LoseClaim, DeleteObject, DeleteRow, SelectExpired,
                SelectUnclaimed, Collect, DropRows, Stop, Tick
      <3> QED BY <3>1, <3>2, PastStays
    <2> QED BY <2>1, <2>2, <2>3, <2>4, OverStays, OvertakenStays
  <1>2. CASE picked[k] = None
    <2>1. PICK s \in Sweeper : SelectUnclaimed(s)
      BY <1>2 DEF MediaNext, SweepStep, vars, BeginUpload, Store, StoreFails, RollBack,
            PostMessage, Abandon, Read, Claim, LoseClaim, DeleteObject, DeleteRow,
            SelectExpired, Collect, DropRows, Stop, Tick
    <2>2. Unclaimed(k) /\ picked'[k] = now /\ UNCHANGED <<now, row, upload>>
      BY <1>2, <2>1 DEF SelectUnclaimed
    <2>3. now \in Nat /\ row[k] \in Row
      BY <2>2 DEF MediaInv, Unclaimed
    <2>4. picked'[k] > row'[k].at + Grace /\ ~Claimed(k)'
      BY <2>2, <2>3 DEF Unclaimed, Claimed
    <2> QED BY <2>2, <2>3, <2>4, SelectedIsOver DEF Overtaken
  <1> QED BY <1>1, <1>2

\* How a sweep may go: it begins with old keys, deletes an object, or ends.
LEMMA SweptKept == ASSUME MediaInv, [MediaNext]_vars PROVE SweptIsOver'
  <1> SUFFICES ASSUME NEW t \in Sweeper
               PROVE  /\ \A k \in sweep'[t].keys \cup sweep'[t].gone :
                           upload'[k] \in {"stored", "ended"} /\ Past(k)'
                      /\ sweep'[t].gone \cap object' = {}
    BY DEF SweptIsOver
  <1>1. ASSUME sweep'[t].keys \subseteq sweep[t].keys, sweep'[t].gone \subseteq sweep[t].gone
        PROVE  /\ \A k \in sweep'[t].keys \cup sweep'[t].gone :
                    upload'[k] \in {"stored", "ended"} /\ Past(k)'
               /\ sweep'[t].gone \cap object' = {}
    BY <1>1, OverStays, PastStays DEF MediaInv, SweptIsOver, TypeOK
  <1>2. CASE sweep' = sweep
    BY <1>1, <1>2
  <1>3. CASE SelectExpired(t) \/ SelectUnclaimed(t)
    <2>1. \A k \in sweep'[t].keys : k \in Key /\ (Expired(k) \/ Unclaimed(k))
      BY <1>3 DEF SelectExpired, SelectUnclaimed, MediaInv, TypeOK
    <2>2. sweep'[t].gone = {} /\ UNCHANGED <<now, row, upload, object>>
      BY <1>3 DEF SelectExpired, SelectUnclaimed, MediaInv, TypeOK
    <2>3. ASSUME NEW k \in sweep'[t].keys PROVE Past(k)'
      <3>1. CASE SelectExpired(t)
        <4>1. Expired(k) /\ k \in Key /\ now \in Nat
          BY <2>3, <3>1 DEF SelectExpired, MediaInv, TypeOK
        <4>2. row[k] \in Row
          BY <4>1 DEF Expired, MediaInv, TypeOK
        <4> QED BY <2>2, <4>1, <4>2, MediaWindows DEF Expired, Past, Row
      <3>2. CASE SelectUnclaimed(t)
        <4>1. Unclaimed(k) /\ k \in Key
          BY <2>3, <3>2 DEF SelectUnclaimed, MediaInv, TypeOK
        <4>2. picked'[k] # None
          BY <3>2, <4>1, <2>3, NoneIsNoRow DEF SelectUnclaimed, MediaInv, TypeOK
        <4> QED BY <4>1, <4>2, PickedKept DEF PickedInv, Past
      <3> QED BY <1>3, <3>1, <3>2
    <2> QED BY <2>1, <2>2, <2>3, SelectedIsOver
  <1>4. ASSUME NEW j \in Key, Collect(t, j)
        PROVE  /\ \A k \in sweep'[t].keys \cup sweep'[t].gone :
                    upload'[k] \in {"stored", "ended"} /\ Past(k)'
               /\ sweep'[t].gone \cap object' = {}
    <2>1. /\ sweep'[t].keys \cup sweep'[t].gone \subseteq sweep[t].keys \cup sweep[t].gone
          /\ sweep'[t].gone \cap object' \subseteq sweep[t].gone \cap object
      BY <1>4 DEF Collect, MediaInv, TypeOK
    <2> QED BY <2>1, OverStays, PastStays DEF MediaInv, SweptIsOver, TypeOK
  <1>5. CASE DropRows(t) \/ Stop(t)
    BY <1>5, <1>1 DEF DropRows, Stop, Idle, MediaInv, TypeOK
  <1>6. ASSUME NEW s \in Sweeper, s # t, SweepStep(s) \/ Stop(s)
        PROVE  sweep'[t] = sweep[t]
    BY <1>6 DEF SweepStep, SelectExpired, SelectUnclaimed, Collect, DropRows, Stop,
                MediaInv, TypeOK
  <1> QED BY <1>1, <1>2, <1>3, <1>4, <1>5, <1>6
          DEF MediaNext, SweepStep, vars, BeginUpload, Store, StoreFails,
              RollBack, PostMessage, Abandon, Read, Claim, LoseClaim, DeleteObject, DeleteRow,
              Tick

\* Whatever is being dropped is an upload that is over and puts nothing back.
LEMMA DroppedKept == ASSUME MediaInv, [MediaNext]_vars PROVE DroppedIsGone'
  <1> SUFFICES ASSUME NEW k \in Key, dropping'[k] # "no"
               PROVE  upload'[k] = "ended" /\ k \notin object'
    BY DEF DroppedIsGone
  <1>1. upload[k] = "ended" => upload'[k] = "ended"
    BY DEF MediaInv, TypeOK, Phase, MediaNext, SweepStep, vars, BeginUpload, Store, StoreFails,
           RollBack, PostMessage, Abandon, Read, Claim, LoseClaim, DeleteObject, DeleteRow,
           SelectExpired, SelectUnclaimed, Collect, DropRows, Stop, Tick
  <1>3. CASE dropping'[k] = dropping[k]
    BY <1>1, <1>3, OverStays DEF MediaInv, DroppedIsGone
  <1>4. ASSUME NEW j \in Key, DeleteObject(j), dropping'[k] # dropping[k]
        PROVE  upload'[k] = "ended" /\ k \notin object'
    BY <1>4 DEF DeleteObject, MediaInv, TypeOK
  <1>5. ASSUME NEW j \in Key, DeleteRow(j), dropping'[k] # dropping[k]
        PROVE  upload'[k] = "ended" /\ k \notin object'
    BY <1>5 DEF DeleteRow, MediaInv, TypeOK, DroppedIsGone
  <1> QED BY <1>3, <1>4, <1>5
          DEF MediaNext, SweepStep, vars, BeginUpload, Store, StoreFails,
              RollBack, PostMessage, Abandon, Read, Claim, LoseClaim,
              SelectExpired, SelectUnclaimed, Collect, DropRows, Stop, Tick

-----------------------------------------------------------------------------
\* A row goes only when its object has gone, or is one the store kept for itself.
LEMMA IndexedKept == ASSUME MediaInv, [MediaNext]_vars PROVE StoredIsIndexed'
  <1> SUFFICES ASSUME NEW k \in object' \ misjudged' PROVE row'[k] # None
    BY DEF StoredIsIndexed
  <1> USE NoneIsNoRow DEF MediaInv, TypeOK, Row, Phase
  <1>0. k \in Key
    BY TypesKept DEF TypeOK
  <1>1. misjudged \subseteq misjudged'
    BY DEF MediaNext, SweepStep, vars, BeginUpload, Store, StoreFails,
           RollBack, PostMessage, Abandon, Read, Claim, LoseClaim, DeleteObject, DeleteRow,
           SelectExpired, SelectUnclaimed, Collect, DropRows, Stop, Tick
  <1>2. CASE row' = row /\ object' \subseteq object
    BY <1>0, <1>1, <1>2 DEF StoredIsIndexed
  <1>3. ASSUME NEW j \in Key, BeginUpload(j) PROVE row'[k] # None
    <2>1. [at |-> now, claimed |-> None] \in Row
      OBVIOUS
    <2>2. row'[k] \in {row[k], [at |-> now, claimed |-> None]} /\ object' = object
      BY <1>0, <1>3 DEF BeginUpload
    <2> QED BY <1>0, <1>1, <2>1, <2>2 DEF StoredIsIndexed
  <1>4. ASSUME NEW j \in Key, Store(j) \/ StoreFails(j) PROVE row'[k] # None
    BY <1>0, <1>1, <1>4 DEF Store, StoreFails, StoredIsIndexed, UploadInv
  <1>5. ASSUME NEW j \in Key, RollBack(j) PROVE row'[k] # None
    BY <1>0, <1>1, <1>5 DEF RollBack, StoredIsIndexed, UploadInv
  <1>6. ASSUME NEW j \in Key, Claim(j) PROVE row'[k] # None
    BY <1>0, <1>1, <1>6, ClaimKeepsRow DEF Claim, StoredIsIndexed
  <1>7. ASSUME NEW j \in Key, DeleteRow(j) PROVE row'[k] # None
    BY <1>0, <1>1, <1>7 DEF DeleteRow, StoredIsIndexed, DroppedIsGone
  <1>8. ASSUME NEW s \in Sweeper, DropRows(s) PROVE row'[k] # None
    BY <1>0, <1>1, <1>8 DEF DropRows, StoredIsIndexed, SweptIsOver
  <1> QED BY <1>2, <1>3, <1>4, <1>5, <1>6, <1>7, <1>8
          DEF MediaNext, SweepStep, vars, PostMessage, Abandon, Read, LoseClaim,
              DeleteObject, SelectExpired, SelectUnclaimed, Collect, Stop, Tick

\* An object goes by a DELETE, or by a sweep that found it old.
LEMMA ThereKept == ASSUME MediaInv, [MediaNext]_vars PROVE StoredIsThere'
  <1> SUFFICES ASSUME NEW k \in Key, upload'[k] = "stored" \/ k \in posted'
               PROVE  k \in object' \/ dropping'[k] # "no" \/ Past(k)'
    BY DEF StoredIsThere
  <1> USE DEF MediaInv, TypeOK, Phase
  <1>1. ASSUME NEW j \in Key, Store(j), j = k PROVE k \in object'
    BY <1>1 DEF Store
  <1>2. CASE upload[k] = "stored" \/ k \in posted
    <2>1. upload[k] # "none"
      BY <1>2 DEF UploadInv
    <2>2. dropping[k] # "no" => dropping'[k] # "no"
      BY DEF MediaNext, SweepStep, vars, BeginUpload, Store, StoreFails,
             RollBack, PostMessage, Abandon, Read, Claim, LoseClaim, DeleteObject, DeleteRow,
             SelectExpired, SelectUnclaimed, Collect, DropRows, Stop, Tick
    <2>3. ASSUME k \in object, k \notin object'
          PROVE  dropping'[k] # "no" \/ Past(k)
      <3>1. ASSUME NEW j \in Key, DeleteObject(j) PROVE dropping'[k] # "no"
        BY <2>3, <3>1 DEF DeleteObject
      <3>2. ASSUME NEW s \in Sweeper, NEW j \in Key, Collect(s, j) PROVE Past(k)
        BY <2>3, <3>2 DEF Collect, SweptIsOver
      <3> QED BY <2>3, <3>1, <3>2
          DEF MediaNext, SweepStep, vars, BeginUpload, Store, StoreFails, RollBack, PostMessage,
              Abandon, Read, Claim, LoseClaim, DeleteRow, SelectExpired, SelectUnclaimed,
              DropRows, Stop, Tick
    <2> QED BY <1>2, <2>1, <2>2, <2>3, PastStays DEF StoredIsThere
  <1>3. CASE ~(upload[k] = "stored" \/ k \in posted)
    <2>1. \E j \in Key : Store(j) /\ j = k
      BY <1>3 
      DEF MediaNext, SweepStep, vars, BeginUpload, Store, StoreFails,
          RollBack, PostMessage, Abandon, Read, Claim, LoseClaim, DeleteObject, DeleteRow,
          SelectExpired, SelectUnclaimed, Collect, DropRows, Stop, Tick
    <2> QED BY <2>1, <1>1
  <1> QED BY <1>2, <1>3

-----------------------------------------------------------------------------
\* Every reachable state has the parts above.
THEOREM MediaInvHolds == MediaSpec => []MediaInv
  <1>1. MediaInv /\ [MediaNext]_vars => MediaInv'
    BY TypesKept, UploadKept, PickedKept, SweptKept, DroppedKept, IndexedKept, ThereKept DEF MediaInv
  <1> QED BY InitInv, <1>1, PTL DEF MediaSpec

\* An object in the store has its row, unless the store kept what it reported as
\* failed, through failing deletes, sweeps that stop, and DELETEs beside them.
THEOREM StoredIsIndexedHolds == MediaSpec => []StoredIsIndexed
  BY MediaInvHolds, PTL DEF MediaInv

\* A message's attachment goes only by a DELETE, when its topic's window has passed, or
\* because an unclaimed pass picked it past the grace window and before its claim came:
\* selectUnclaimedChatMedia leaves claimed rows alone, and a key it has in hand was
\* unclaimed when it took it.
THEOREM SentIsReadableHolds == MediaSpec => []SentIsReadable
  <1>1. MediaInv => SentIsReadable
    BY DEF MediaInv, TypeOK, StoredIsThere, Past, SentIsReadable
  <1> QED BY MediaInvHolds, <1>1, PTL

-----------------------------------------------------------------------------
(***************************************************************************)
(* The archive.  NothingSkipped is not inductive: what a device will pass  *)
(* is decided while it fetches.  PagesInv says so of the rows it has       *)
(* fetched, and Positions that no two rows have one position.  The         *)
(* window is kept because a sweep leaves nothing that was out of it when   *)
(* the sweep was scheduled, and the last one was an interval ago at most   *)
(* (SweepInv).                                                             *)
(***************************************************************************)
ArchiveTyped == ArchiveTypeOK /\ failures \in Nat

\* In a room that is attended to, inserts and sweeps are of this tick, and what a
\* sweep has left was in the window when it came.
SweepInv ==
  /\ \A i \in Instance : swept[i] # Absent => swept[i] <= clock
  /\ attended /\ failures = 0 =>
       /\ \A i \in pending : i.row.at = clock
       /\ \A i \in Instance : purge[i] # Absent => purge[i] = clock /\ swept[i] = clock
       /\ Window > 0 => \A i \in Instance : swept[i] # Absent /\ purge[i] = Absent =>
            \A m \in Msg : Here(m) => swept[i] - Window <= archive[m].at
       /\ visited => \E i \in Instance :
            swept[i] # Absent /\ (clock - swept[i] < Interval \/ swept[i] = clock)

\* Positions are given out once, to rows and to inserts on their way.
Positions ==
  /\ \A m \in Msg : Here(m) => archive[m].pos <= stamps
  /\ \A m, n \in Msg : Here(m) /\ Here(n) /\ archive[m].pos = archive[n].pos => m = n
  /\ \A i \in pending :
       /\ i.row.pos <= stamps
       /\ \A m \in Msg : Here(m) => archive[m].pos # i.row.pos
       /\ \A j \in pending : i.row.pos = j.row.pos => i = j

\* The rows fetched are in order, beyond the cursor, and none up to the last is
\* missing but late ones.
PagesInv ==
  \A d \in Device :
    /\ \A k \in DOMAIN page[d] : cursor[d] < page[d][k].pos /\ page[d][k].pos <= Reached(d)
    /\ \A j, k \in DOMAIN page[d] : j < k => page[d][j].pos < page[d][k].pos
    /\ \A m \in Msg : Here(m) /\ archive[m].pos <= Reached(d) =>
         \/ m \in local[d] \cup late[d]
         \/ \E k \in DOMAIN page[d] : page[d][k].msg = m /\ page[d][k].pos = archive[m].pos

ReadInv == Positions /\ PagesInv /\ NothingSkipped

-----------------------------------------------------------------------------
\* The rows that open, up to the first that does not, are as many as the place of the
\* last of them.
LEMMA PrefixLength ==
  ASSUME ArchiveTyped, NEW d \in Device
  PROVE  \E n \in 0..Len(page[d]) : Prefix(d) = 1..n /\ Cardinality(Prefix(d)) = n
  <1> DEFINE P == Prefix(d)
             n == Cardinality(P)
             L == Len(page[d])
  <1>1. page[d] \in Seq(PageRow) /\ L \in Nat /\ DOMAIN page[d] = 1..L
    <2>1. page[d] \in Seq(PageRow)
      BY DEF ArchiveTyped, ArchiveTypeOK
    <2> QED BY <2>1
  <1>2. P \subseteq 1..L
    BY <1>1 DEF Prefix
  <1>3. IsFiniteSet(1..L) /\ Cardinality(1..L) = L
    BY <1>1, FS_Interval
  <1>4. IsFiniteSet(P) /\ n \in Nat /\ n <= L
    BY <1>2, <1>3, FS_Subset, FS_CardinalityType
  <1>5. ASSUME NEW k \in P PROVE k <= n
    <2>1. k \in 1..L /\ 1..k \subseteq P
      BY <1>1, <1>2 DEF Prefix
    <2>2. Cardinality(1..k) <= n
      BY <1>4, <2>1, FS_Subset
    <2>3. Cardinality(1..k) = k
      BY <2>1, FS_Interval
    <2> QED BY <2>2, <2>3
  <1>6. P \subseteq 1..n
    BY <1>2, <1>4, <1>5
  <1>7. IsFiniteSet(1..n) /\ Cardinality(1..n) = n
    BY <1>4, FS_Interval
  <1>8. P = 1..n
    BY <1>6, <1>7, FS_Subset
  <1> QED BY <1>1, <1>4, <1>8

\* Types hold at the start, and every step keeps them.
LEMMA InitArchiveTyped == ArchiveInit => ArchiveTyped
  <1> SUFFICES ASSUME ArchiveInit PROVE ArchiveTyped
    OBVIOUS
  <1>1. <<>> \in Seq(PageRow)
    OBVIOUS
  <1>2. page \in [Device -> Seq(PageRow)]
    BY <1>1 DEF ArchiveInit
  <1>3. clock \in 0..MaxClock /\ stamps \in 0..MaxInserts /\ cursor \in [Device -> 0..MaxInserts]
    BY ArchiveBounds DEF ArchiveInit
  <1>4. /\ archive \in [Msg -> ArchiveRow \cup {Absent}]
        /\ swept \in [Instance -> 0..MaxClock \cup {Absent}]
        /\ purge \in [Instance -> 0..MaxClock \cup {Absent}]
    BY DEF ArchiveInit
  <1> QED BY <1>2, <1>3, <1>4 DEF ArchiveInit, ArchiveTyped, ArchiveTypeOK

LEMMA InsertTyped ==
  ASSUME ArchiveTyped, NEW d \in Device, NEW m \in Msg, Insert(d, m)
  PROVE  ArchiveTyped'
  <1>1. stamps + 1 \in 1..MaxInserts
    BY ArchiveBounds DEF Insert, ArchiveTyped, ArchiveTypeOK
  <1>2. [at |-> clock, pos |-> stamps + 1] \in ArchiveRow
    BY <1>1 DEF ArchiveTyped, ArchiveTypeOK, ArchiveRow
  <1>3. pending' \subseteq [by : Device, msg : Msg, row : ArchiveRow]
    BY <1>2 DEF Insert, ArchiveTyped, ArchiveTypeOK
  <1> QED BY <1>1, <1>3 DEF Insert, ArchiveTyped, ArchiveTypeOK, sweepVars

LEMMA CommitTyped ==
  ASSUME ArchiveTyped, NEW i \in pending, Commit(i)
  PROVE  ArchiveTyped'
  <1>1. i.msg \in Msg /\ i.row \in ArchiveRow
    BY DEF ArchiveTyped, ArchiveTypeOK
  <1>2. archive' \in [Msg -> ArchiveRow \cup {Absent}]
    BY <1>1 DEF Commit, ArchiveTyped, ArchiveTypeOK
  <1>3. late' \in [Device -> SUBSET Msg]
    <2>1. late \in [Device -> SUBSET Msg]
      BY DEF ArchiveTyped, ArchiveTypeOK
    <2>2. CASE UNCHANGED late
      BY <2>1, <2>2
    <2>3. CASE late' = [d \in Device |-> IF i.row.pos <= Reached(d) THEN late[d] \cup {i.msg}
                                                                   ELSE late[d] \ {i.msg}]
      <3>1. ASSUME NEW d \in Device PROVE late'[d] \subseteq Msg
        BY <1>1, <2>1, <2>3
      <3> QED BY <2>3, <3>1
    <2> QED BY <2>2, <2>3 DEF Commit
  <1> QED BY <1>2, <1>3 DEF Commit, ArchiveTyped, ArchiveTypeOK, sweepVars, deviceVars

LEMMA ReadPageTyped ==
  ASSUME ArchiveTyped, NEW d \in Device, ReadPage(d)
  PROVE  ArchiveTyped'
  <1>1. PICK m \in After(d) :
          page' = [page EXCEPT ![d] = Append(@, [msg |-> m, pos |-> archive[m].pos])]
    BY DEF ReadPage
  <1>2. m \in Msg /\ archive[m] \in ArchiveRow
    BY DEF After, Here, ArchiveTyped, ArchiveTypeOK
  <1>3. [msg |-> m, pos |-> archive[m].pos] \in PageRow
    BY <1>2 DEF ArchiveRow, PageRow
  <1>4. Append(page[d], [msg |-> m, pos |-> archive[m].pos]) \in Seq(PageRow)
    BY <1>3 DEF ArchiveTyped, ArchiveTypeOK
  <1>5. ASSUME NEW e \in Device PROVE page'[e] \in Seq(PageRow)
    BY <1>1, <1>4 DEF ArchiveTyped, ArchiveTypeOK
  <1> QED BY <1>5 DEF ReadPage, ArchiveTyped, ArchiveTypeOK, sweepVars

\* What finishing a read does to the cursor.
LEMMA FinishMoves ==
  ASSUME ArchiveTyped, NEW d \in Device, FinishRead(d)
  PROVE  \E n \in 0..Len(page[d]) :
           /\ Prefix(d) = 1..n
           /\ cursor'[d] = IF n = 0 THEN cursor[d] ELSE page[d][n].pos
  <1>1. PICK n \in 0..Len(page[d]) : Prefix(d) = 1..n /\ Cardinality(Prefix(d)) = n
    BY PrefixLength
  <1>2. Prefix(d) = {} <=> n = 0
    BY <1>1
  <1>3. cursor'[d] = IF n = 0 THEN cursor[d] ELSE page[d][n].pos
    BY <1>1, <1>2 DEF FinishRead, ArchiveTyped, ArchiveTypeOK
  <1> QED BY <1>1, <1>3

LEMMA FinishTyped ==
  ASSUME ArchiveTyped, NEW d \in Device, FinishRead(d)
  PROVE  ArchiveTyped'
  <1>0. ArchiveTypeOK /\ page[d] \in Seq(PageRow)
    BY DEF ArchiveTyped, ArchiveTypeOK
  <1>1. PICK n \in 0..Len(page[d]) :
          cursor'[d] = IF n = 0 THEN cursor[d] ELSE page[d][n].pos
    BY FinishMoves
  <1>2. cursor'[d] \in 0..MaxInserts
    <2>1. n # 0 => page[d][n] \in PageRow
      BY <1>0
    <2> QED BY <1>0, <1>1, <2>1 DEF PageRow, ArchiveTypeOK
  <1>3. cursor' \in [Device -> 0..MaxInserts]
    BY <1>0, <1>2 DEF FinishRead, ArchiveTypeOK
  <1>4. {page[d][k].msg : k \in {j \in DOMAIN page[d] : Opened(d, j)}} \subseteq Msg
    <2> SUFFICES ASSUME NEW k \in DOMAIN page[d] PROVE page[d][k].msg \in Msg
      OBVIOUS
    <2>1. page[d][k] \in PageRow
      BY <1>0
    <2> QED BY <2>1 DEF PageRow
  <1>5. local' \in [Device -> SUBSET Msg]
    BY <1>0, <1>4 DEF FinishRead, ArchiveTypeOK
  <1>6. page' \in [Device -> Seq(PageRow)]
    <2>1. <<>> \in Seq(PageRow)
      OBVIOUS
    <2> QED BY <1>0, <2>1 DEF FinishRead, ArchiveTypeOK
  <1>7. UNCHANGED <<clock, archive, stamps, pending, late, keys, gaps, sweepVars>>
    BY DEF FinishRead
  <1> QED BY <1>3, <1>5, <1>6, <1>7 DEF ArchiveTyped, ArchiveTypeOK, sweepVars

LEMMA NextArchiveTyped == ASSUME ArchiveTyped, [ArchiveNext]_archiveVars PROVE ArchiveTyped'
  <1>1. ASSUME NEW d \in Device, NEW m \in Msg, Send(d, m) \/ Receive(d, m) \/ GetKey(d, m)
        PROVE  ArchiveTyped'
    <2>1. /\ local' \in [Device -> SUBSET Msg] /\ keys' \in [Device -> SUBSET Msg]
          /\ gaps' \in [Device -> SUBSET Msg]
      <3>1. CASE Send(d, m)
        <4>1. local' \in [Device -> SUBSET Msg]
          BY <3>1 DEF Send, ArchiveTyped, ArchiveTypeOK
        <4>2. CASE UNCHANGED <<gaps, keys>>
          BY <4>1, <4>2 DEF ArchiveTyped, ArchiveTypeOK
        <4>3. CASE /\ gaps' = [gaps EXCEPT ![d] = @ \cup {m}]
                   /\ keys' = [keys EXCEPT ![d] = @ \cup {m}]
          BY <4>1, <4>3 DEF ArchiveTyped, ArchiveTypeOK
        <4> QED BY <3>1, <4>2, <4>3 DEF Send
      <3>2. CASE Receive(d, m)
        BY <3>2 DEF Receive, ArchiveTyped, ArchiveTypeOK
      <3>3. CASE GetKey(d, m)
        BY <3>3 DEF GetKey, ArchiveTyped, ArchiveTypeOK
      <3> QED BY <1>1, <3>1, <3>2, <3>3
    <2>2. UNCHANGED <<clock, archive, stamps, pending, late, cursor, page, sweepVars>>
      BY <1>1 DEF Send, Receive, GetKey
    <2> QED BY <2>1, <2>2 DEF ArchiveTyped, ArchiveTypeOK, sweepVars
  <1>2. ASSUME NEW d \in Device, Look(d) PROVE ArchiveTyped'
    BY <1>2 DEF Look, ArchiveTyped, ArchiveTypeOK, sweepVars
  <1>3. ASSUME NEW i \in Instance, Visit(i) PROVE ArchiveTyped'
    BY <1>3 DEF Visit, ArchiveTyped, ArchiveTypeOK, deviceVars
  <1>4. ASSUME NEW i \in Instance, Purge(i) PROVE ArchiveTyped'
    BY <1>4 DEF Purge, ArchiveTyped, ArchiveTypeOK, deviceVars
  <1>5. ASSUME NEW i \in Instance, PurgeFails(i) PROVE ArchiveTyped'
    BY <1>5 DEF PurgeFails, ArchiveTyped, ArchiveTypeOK, deviceVars
  <1>6. CASE ClockTicks
    <2>1. clock' \in 0..MaxClock
      BY <1>6, ArchiveBounds DEF ClockTicks, ArchiveTyped, ArchiveTypeOK
    <2>2. visited' \in BOOLEAN /\ attended' \in BOOLEAN
      BY <1>6 DEF ClockTicks
    <2> QED BY <1>6, <2>1, <2>2 DEF ClockTicks, ArchiveTyped, ArchiveTypeOK, deviceVars
  <1>7. CASE UNCHANGED archiveVars
    BY <1>7 DEF archiveVars, ArchiveTyped, ArchiveTypeOK
  <1> QED BY <1>1, <1>2, <1>3, <1>4, <1>5, <1>6, <1>7, InsertTyped, CommitTyped, ReadPageTyped,
             FinishTyped DEF ArchiveNext

-----------------------------------------------------------------------------
\* Steps that leave clock and rows, inserts and sweeps alone.
LEMMA SweepFrame ==
  ASSUME SweepInv, UNCHANGED <<clock, archive, pending, sweepVars>>
  PROVE  SweepInv'
  BY DEF SweepInv, Here, sweepVars

LEMMA NextSweepInv ==
  ASSUME ArchiveTyped, SweepInv, [ArchiveNext]_archiveVars
  PROVE  SweepInv'
  <1> USE ArchiveBounds, ArchiveWindow, AbsentIsNoRow
  <1>0. /\ clock \in Int /\ failures \in Nat /\ attended \in BOOLEAN
        /\ swept \in [Instance -> 0..MaxClock \cup {Absent}]
        /\ purge \in [Instance -> 0..MaxClock \cup {Absent}]
        /\ archive \in [Msg -> ArchiveRow \cup {Absent}]
        /\ clock \in 0..MaxClock
    BY DEF ArchiveTyped, ArchiveTypeOK
  <1>1. ASSUME NEW d \in Device,
               \/ \E m \in Msg : Send(d, m) \/ Receive(d, m) \/ GetKey(d, m)
               \/ Look(d) \/ ReadPage(d) \/ FinishRead(d)
        PROVE  SweepInv'
    <2>1. UNCHANGED <<clock, archive, pending, sweepVars>>
      BY <1>1 DEF Send, Receive, GetKey, Look, ReadPage, FinishRead
    <2> QED BY <2>1, SweepFrame
  <1>2. ASSUME NEW d \in Device, NEW m \in Msg, Insert(d, m) PROVE SweepInv'
    <2>1. UNCHANGED <<clock, archive, sweepVars>>
          /\ \A i \in pending' : i \in pending \/ i.row.at = clock
      BY <1>2 DEF Insert
    <2> QED BY <2>1 DEF SweepInv, Here, sweepVars
  <1>3. ASSUME NEW x \in pending, Commit(x) PROVE SweepInv'
    <2>1. UNCHANGED <<clock, sweepVars>> /\ pending' \subseteq pending
      BY <1>3 DEF Commit
    <2>2. \A m \in Msg : Here(m)' => (archive'[m] = archive[m] /\ Here(m)) \/ archive'[m] = x.row
      BY <1>0, <1>3 DEF Commit, Here
    <2>3. SweepInv!1'
      BY <2>1 DEF SweepInv, sweepVars
    <2>4. ASSUME attended, failures = 0, Window > 0,
                 NEW i \in Instance, swept[i] # Absent, purge[i] = Absent,
                 NEW m \in Msg, Here(m)'
          PROVE  swept[i] - Window <= archive'[m].at
      <3>1. CASE archive'[m] = archive[m] /\ Here(m)
        BY <2>4, <3>1 DEF SweepInv
      <3>2. CASE archive'[m] = x.row
        <4>1. archive'[m].at = clock /\ swept[i] <= clock
          BY <2>4, <3>2 DEF SweepInv
        <4>2. swept[i] \in Int
          BY <1>0, <2>4
        <4> QED BY <1>0, <4>1, <4>2
      <3> QED BY <2>2, <2>4, <3>1, <3>2
    <2> QED BY <2>1, <2>3, <2>4 DEF SweepInv, sweepVars
  <1>4. ASSUME NEW i \in Instance, Visit(i) PROVE SweepInv'
    <2>1. /\ UNCHANGED <<clock, archive, pending, attended, failures>>
          /\ purge[i] = Absent /\ visited' = TRUE
      BY <1>4 DEF Visit
    <2>2. CASE Throttled(i) /\ UNCHANGED <<swept, purge>>
      BY <1>0, <2>1, <2>2 DEF SweepInv, Throttled, Here
    <2>3. CASE /\ swept' = [swept EXCEPT ![i] = clock]
               /\ purge' = [purge EXCEPT ![i] = clock]
      <3>1. swept'[i] = clock /\ purge'[i] = clock /\ clock # Absent
        BY <1>0, <2>3
      <3>2. \A j \in Instance \ {i} : swept'[j] = swept[j] /\ purge'[j] = purge[j]
        BY <1>0, <2>3
      <3> QED BY <1>0, <2>1, <3>1, <3>2 DEF SweepInv, Here
    <2> QED BY <1>4, <2>2, <2>3 DEF Visit
  <1>5. ASSUME NEW i \in Instance, Purge(i) PROVE SweepInv'
    <2>1. /\ UNCHANGED <<clock, pending, swept, visited, attended, failures>>
          /\ purge[i] # Absent /\ purge'[i] = Absent
          /\ \A j \in Instance \ {i} : purge'[j] = purge[j]
      BY <1>0, <1>5 DEF Purge
    <2>2. \A m \in Msg : Here(m)' => /\ archive'[m] = archive[m] /\ Here(m)
                                     /\ Window > 0 => ~(archive[m].at < purge[i] - Window)
      BY <1>0, <1>5 DEF Purge, Here, OutOfWindow
    <2>3. \A m \in Msg : Here(m) => archive[m].at \in Int
      BY <1>0 DEF Here, ArchiveRow
    <2>4. ASSUME attended, failures = 0, Window > 0,
                 NEW j \in Instance, swept[j] # Absent, purge'[j] = Absent,
                 NEW m \in Msg, Here(m)'
          PROVE  swept[j] - Window <= archive'[m].at
      <3>1. CASE j = i
        <4>1. purge[i] = clock /\ swept[i] = clock
          BY <2>1, <2>4 DEF SweepInv
        <4> QED BY <1>0, <2>2, <2>3, <2>4, <3>1, <4>1
      <3>2. CASE j # i
        BY <2>1, <2>2, <2>4, <3>2 DEF SweepInv
      <3> QED BY <3>1, <3>2
    <2> QED BY <2>1, <2>4 DEF SweepInv
  <1>6. ASSUME NEW i \in Instance, PurgeFails(i) PROVE SweepInv'
    <2>1. failures' # 0 /\ UNCHANGED <<clock, swept>>
      BY <1>0, <1>6 DEF PurgeFails
    <2> QED BY <2>1 DEF SweepInv
  <1>7. CASE ClockTicks
    <2>1. /\ clock' = clock + 1 /\ ~visited'
          /\ UNCHANGED <<archive, pending, swept, purge, failures>>
          /\ attended' => attended /\ pending = {} /\ \A i \in Instance : purge[i] = Absent
      BY <1>0, <1>7 DEF ClockTicks
    <2>2. SweepInv!1'
      BY <1>0, <2>1 DEF SweepInv
    <2> QED BY <2>1, <2>2 DEF SweepInv, Here
  <1>8. CASE UNCHANGED archiveVars
    BY <1>8, SweepFrame DEF archiveVars, sweepVars
  <1> QED BY <1>1, <1>2, <1>3, <1>4, <1>5, <1>6, <1>7, <1>8 DEF ArchiveNext

-----------------------------------------------------------------------------
\* Where a device's rows end.
LEMMA ReachedIs ==
  ASSUME ArchiveTyped, NEW d \in Device
  PROVE  /\ page[d] \in Seq(PageRow)
         /\ Len(page[d]) \in Nat /\ DOMAIN page[d] = 1..Len(page[d])
         /\ \A k \in DOMAIN page[d] : page[d][k].pos \in Nat /\ page[d][k].msg \in Msg
         /\ page[d] = <<>> <=> DOMAIN page[d] = {}
         /\ Reached(d) \in Nat /\ cursor[d] \in Nat
  <1>1. page[d] \in Seq(PageRow) /\ cursor[d] \in Nat
    BY ArchiveBounds DEF ArchiveTyped, ArchiveTypeOK
  <1>2. \A k \in DOMAIN page[d] : page[d][k] \in PageRow
    BY <1>1
  <1>3. \A k \in DOMAIN page[d] : page[d][k].pos \in Nat /\ page[d][k].msg \in Msg
    BY <1>2, ArchiveBounds DEF PageRow
  <1>4. page[d] # <<>> => Len(page[d]) \in DOMAIN page[d]
    BY <1>1
  <1>5. Reached(d) \in Nat
    BY <1>1, <1>3, <1>4 DEF Reached
  <1> QED BY <1>1, <1>3, <1>5

\* A row that is there has its position.
LEMMA RowIs ==
  ASSUME ArchiveTyped, NEW m \in Msg, Here(m)
  PROVE  archive[m] \in ArchiveRow /\ archive[m].pos \in Nat
  BY ArchiveBounds DEF ArchiveTyped, ArchiveTypeOK, Here, ArchiveRow

LEMMA InitReadInv == ArchiveInit => ReadInv
  BY AbsentIsNoRow DEF ArchiveInit, ReadInv, Positions, PagesInv, NothingSkipped, Here, Reached

\* Steps that fetch and insert nothing: a history may grow, rows may go.
LEMMA ReadFrame ==
  ASSUME ArchiveTyped, ReadInv, UNCHANGED <<stamps, pending, late, cursor, page>>,
         \A m \in Msg : Here(m)' => archive'[m] = archive[m] /\ Here(m),
         \A d \in Device : local[d] \subseteq local'[d]
  PROVE  ReadInv'
  <1>1. \A d \in Device : Reached(d)' = Reached(d)
    BY DEF Reached
  <1>2. Positions'
    BY <1>1 DEF ReadInv, Positions
  <1>3. PagesInv'
    BY <1>1 DEF ReadInv, PagesInv
  <1>4. NothingSkipped'
    BY DEF ReadInv, NothingSkipped
  <1> QED BY <1>2, <1>3, <1>4 DEF ReadInv

\* The cursor is no further than the last row fetched.
LEMMA CursorBehind ==
  ASSUME ArchiveTyped, PagesInv, NEW d \in Device
  PROVE  cursor[d] <= Reached(d)
  <1>1. CASE page[d] = <<>>
    BY <1>1, ReachedIs DEF Reached
  <1>2. CASE page[d] # <<>>
    <2>1. Len(page[d]) \in DOMAIN page[d]
      BY <1>2, ReachedIs
    <2> QED BY <1>2, <2>1, ReachedIs DEF PagesInv, Reached
  <1> QED BY <1>1, <1>2

\* An insert takes the next position.
LEMMA InsertReads ==
  ASSUME ArchiveTyped, ReadInv, NEW e \in Device, NEW x \in Msg, Insert(e, x)
  PROVE  ReadInv'
  <1> DEFINE new == [by |-> e, msg |-> x, row |-> [at |-> clock, pos |-> stamps + 1]]
  <1>0. /\ stamps \in Nat /\ stamps' = stamps + 1
        /\ UNCHANGED <<archive, late, cursor, page, local>>
    BY DEF Insert, ArchiveTyped, ArchiveTypeOK
  <1>1. pending' = pending \cup {new} /\ new.row.pos = stamps + 1
    BY DEF Insert
  <1>2. \A i \in pending : i.row.pos \in Nat /\ i.row.pos <= stamps
    BY ArchiveBounds DEF ReadInv, Positions, ArchiveTyped, ArchiveTypeOK, ArchiveRow
  <1>3. \A d \in Device : Reached(d)' = Reached(d)
    BY <1>0 DEF Reached
  <1>4. \A m \in Msg : (Here(m)' <=> Here(m)) /\ (Here(m) => archive[m].pos \in Nat)
    BY <1>0, RowIs DEF Here
  <1>5. Positions'
    <2> HIDE DEF new
    <2> QED BY <1>0, <1>1, <1>2, <1>4 DEF ReadInv, Positions
  <1>6. PagesInv' /\ NothingSkipped'
    BY <1>0, <1>3, <1>4 DEF ReadInv, PagesInv, NothingSkipped
  <1> QED BY <1>5, <1>6 DEF ReadInv

\* What is committed lies beyond all that was fetched, or is late.
LEMMA CommitReads ==
  ASSUME ArchiveTyped, ReadInv, NEW x \in pending, Commit(x)
  PROVE  ReadInv'
  <1>0. UNCHANGED <<stamps, cursor, page, local>> /\ x.msg \in Msg /\ x.row \in ArchiveRow
    BY DEF Commit, ArchiveTyped, ArchiveTypeOK, deviceVars
  <1>1. pending' = pending \ {x}
    BY DEF Commit
  <1>2. \A d \in Device : Reached(d)' = Reached(d) /\ Reached(d) \in Nat
    BY <1>0, ReachedIs DEF Reached
  <1>3. CASE Here(x.msg) /\ UNCHANGED <<archive, late>>
    <2>1. \A m \in Msg : Here(m)' <=> Here(m)
      BY <1>3 DEF Here
    <2>2. Positions'
      BY <1>0, <1>1, <1>3, <2>1 DEF ReadInv, Positions
    <2>3. PagesInv' /\ NothingSkipped'
      BY <1>0, <1>2, <1>3, <2>1 DEF ReadInv, PagesInv, NothingSkipped
    <2> QED BY <2>2, <2>3 DEF ReadInv
  <1>4. CASE /\ ~Here(x.msg)
             /\ archive' = [archive EXCEPT ![x.msg] = x.row]
             /\ late' = [d \in Device |-> IF x.row.pos <= Reached(d) THEN late[d] \cup {x.msg}
                                                                    ELSE late[d] \ {x.msg}]
    <2>1. archive'[x.msg] = x.row /\ \A m \in Msg \ {x.msg} : archive'[m] = archive[m]
      BY <1>0, <1>4 DEF ArchiveTyped, ArchiveTypeOK
    <2>2. \A m \in Msg \ {x.msg} : Here(m)' <=> Here(m)
      BY <2>1 DEF Here
    <2>3. x.row.pos \in Nat /\ \A m \in Msg : Here(m) => archive[m].pos \in Nat
      BY <1>0, RowIs, ArchiveBounds DEF ArchiveRow
    <2>4. /\ \A d \in Device, m \in Msg : m # x.msg => (m \in late'[d] <=> m \in late[d])
          /\ \A d \in Device : x.row.pos <= Reached(d) => x.msg \in late'[d]
      BY <1>4
    <2>5. Positions'
      <3>1. ASSUME NEW m \in Msg, Here(m)' PROVE archive'[m].pos <= stamps
        BY <2>1, <2>2, <3>1 DEF ReadInv, Positions
      <3>2. ASSUME NEW m \in Msg, NEW n \in Msg, Here(m)', Here(n)',
                   archive'[m].pos = archive'[n].pos
            PROVE  m = n
        BY <2>1, <2>2, <3>2 DEF ReadInv, Positions
      <3>3. ASSUME NEW i \in pending', NEW m \in Msg, Here(m)' PROVE archive'[m].pos # i.row.pos
        BY <1>1, <2>1, <2>2, <3>3 DEF ReadInv, Positions
      <3> QED BY <1>0, <1>1, <3>1, <3>2, <3>3 DEF ReadInv, Positions
    <2>6. PagesInv'
      <3> SUFFICES ASSUME NEW d \in Device, NEW m \in Msg, Here(m)', archive'[m].pos <= Reached(d)
                   PROVE  \/ m \in local[d] \cup late'[d]
                          \/ \E k \in DOMAIN page[d] :
                               page[d][k].msg = m /\ page[d][k].pos = archive'[m].pos
        BY <1>0, <1>2 DEF ReadInv, PagesInv
      <3>1. CASE m = x.msg
        BY <2>1, <2>4, <3>1
      <3>2. CASE m # x.msg
        BY <2>1, <2>2, <2>4, <3>2 DEF ReadInv, PagesInv
      <3> QED BY <3>1, <3>2
    <2>7. NothingSkipped'
      <3> SUFFICES ASSUME NEW d \in Device, NEW m \in Msg, Here(m)', archive'[m].pos <= cursor[d]
                   PROVE  m \in local[d] \cup late'[d]
        BY <1>0 DEF NothingSkipped
      <3>1. CASE m = x.msg
        <4>1. cursor[d] <= Reached(d) /\ cursor[d] \in Nat
          BY CursorBehind, ReachedIs DEF ReadInv
        <4> QED BY <1>2, <2>1, <2>3, <2>4, <3>1, <4>1
      <3>2. CASE m # x.msg
        BY <2>1, <2>2, <2>4, <3>2 DEF ReadInv, NothingSkipped
      <3> QED BY <3>1, <3>2
    <2> QED BY <2>5, <2>6, <2>7 DEF ReadInv
  <1> QED BY <1>3, <1>4 DEF Commit

\* The row fetched next is the first beyond the ones fetched so far.
LEMMA PageReads ==
  ASSUME ArchiveTyped, ReadInv, NEW e \in Device, ReadPage(e)
  PROVE  ReadInv'
  <1>1. PICK x \in After(e) :
          /\ \A n \in After(e) : archive[x].pos <= archive[n].pos
          /\ page' = [page EXCEPT ![e] = Append(@, [msg |-> x, pos |-> archive[x].pos])]
          /\ late' = [late EXCEPT ![e] = @ \ {x}]
    BY DEF ReadPage
  <1>2. UNCHANGED <<archive, stamps, pending, cursor, local>>
    BY DEF ReadPage
  <1> DEFINE new == [msg |-> x, pos |-> archive[x].pos]
             L   == Len(page[e])
  <1>3. x \in Msg /\ Here(x) /\ archive[x].pos > Reached(e) /\ archive[x].pos \in Nat
    BY RowIs DEF After
  <1>4. page'[e] = Append(page[e], new) /\ \A d \in Device \ {e} : page'[d] = page[d]
    BY <1>1 DEF ArchiveTyped, ArchiveTypeOK
  <1>5. /\ L \in Nat /\ DOMAIN page[e] = 1..L /\ DOMAIN page'[e] = 1..(L + 1)
        /\ Len(page'[e]) = L + 1 /\ page'[e] # <<>>
        /\ page'[e][L + 1] = new /\ \A k \in 1..L : page'[e][k] = page[e][k]
    <2>1. page[e] \in Seq(PageRow) /\ new \in PageRow
      BY <1>3, ReachedIs, RowIs DEF PageRow, ArchiveRow
    <2> HIDE DEF new
    <2> QED BY <1>4, <2>1
  <1>6. Reached(e)' = archive[x].pos /\ \A d \in Device \ {e} : Reached(d)' = Reached(d)
    BY <1>2, <1>4, <1>5 DEF Reached
  <1>7. \A d \in Device : Reached(d) \in Nat
    BY ReachedIs
  <1>8. \A m \in Msg : (Here(m)' <=> Here(m)) /\ (Here(m) => archive[m].pos \in Nat)
    BY <1>2, RowIs DEF Here
  <1>9. Positions'
    BY <1>2, <1>8 DEF ReadInv, Positions
  <1>10. \A k \in 1..L : /\ page[e][k].pos \in Nat /\ cursor[e] < page[e][k].pos
                         /\ page[e][k].pos <= Reached(e)
    BY <1>5, ReachedIs DEF ReadInv, PagesInv
  <1>11. cursor[e] < archive[x].pos
    BY <1>3, <1>7, CursorBehind, ReachedIs DEF ReadInv
  <1>12. late'[e] = late[e] \ {x} /\ \A d \in Device \ {e} : late'[d] = late[d]
    BY <1>1 DEF ArchiveTyped, ArchiveTypeOK
  <1>13. PagesInv'
    <2>1. ASSUME NEW k \in 1..(L + 1)
          PROVE  cursor[e] < page'[e][k].pos /\ page'[e][k].pos <= Reached(e)'
      <3>1. CASE k = L + 1
        BY <1>3, <1>5, <1>6, <1>11, <3>1
      <3>2. CASE k \in 1..L
        <4>1. page'[e][k] = page[e][k]
          BY <1>5, <3>2
        <4>2. /\ cursor[e] < page[e][k].pos /\ page[e][k].pos \in Nat
              /\ page[e][k].pos <= Reached(e)
          BY <1>10, <3>2
        <4> HIDE DEF new
        <4> QED BY <1>3, <1>6, <1>7, <4>1, <4>2
      <3> QED BY <1>5, <3>1, <3>2
    <2>2. ASSUME NEW j \in 1..(L + 1), NEW k \in 1..(L + 1), j < k
          PROVE  page'[e][j].pos < page'[e][k].pos
      <3>1. j \in 1..L
        BY <1>5, <2>2
      <3>2. CASE k = L + 1
        <4>1. page'[e][k].pos = archive[x].pos /\ page'[e][j].pos = page[e][j].pos
          BY <1>5, <3>1, <3>2
        <4>2. page[e][j].pos \in Nat /\ page[e][j].pos <= Reached(e)
          BY <1>10, <3>1
        <4> QED BY <1>3, <1>7, <4>1, <4>2
      <3>3. CASE k \in 1..L
        BY <1>5, <2>2, <3>1, <3>3 DEF ReadInv, PagesInv
      <3> QED BY <1>5, <3>2, <3>3
    <2>3. ASSUME NEW m \in Msg, Here(m), archive[m].pos <= Reached(e)',
                 m \notin local[e] \cup late'[e]
          PROVE  \E k \in 1..(L + 1) : page'[e][k].msg = m /\ page'[e][k].pos = archive[m].pos
      <3>1. CASE archive[m].pos <= Reached(e)
        <4>1. CASE m = x
          BY <1>3, <1>7, <3>1, <4>1
        <4>2. CASE m # x
          <5>1. m \notin local[e] \cup late[e]
            BY <1>12, <2>3, <4>2
          <5> QED BY <1>5, <2>3, <3>1, <5>1 DEF ReadInv, PagesInv
        <4> QED BY <4>1, <4>2
      <3>2. CASE ~(archive[m].pos <= Reached(e))
        <4>1. m \in After(e)
          BY <1>7, <1>8, <2>3, <3>2 DEF After
        <4>2. archive[m].pos = archive[x].pos
          BY <1>1, <1>3, <1>6, <1>8, <2>3, <4>1
        <4>3. m = x
          BY <1>3, <2>3, <4>2 DEF ReadInv, Positions
        <4> QED BY <1>5, <4>3
      <3> QED BY <3>1, <3>2
    <2>4. ASSUME NEW d \in Device \ {e}
          PROVE  /\ \A k \in DOMAIN page'[d] : cursor[d] < page'[d][k].pos
                                               /\ page'[d][k].pos <= Reached(d)'
                 /\ \A j, k \in DOMAIN page'[d] : j < k => page'[d][j].pos < page'[d][k].pos
                 /\ \A m \in Msg : Here(m) /\ archive[m].pos <= Reached(d)' =>
                      \/ m \in local[d] \cup late'[d]
                      \/ \E k \in DOMAIN page'[d] :
                           page'[d][k].msg = m /\ page'[d][k].pos = archive[m].pos
      <3>1. page'[d] = page[d] /\ Reached(d)' = Reached(d) /\ late'[d] = late[d]
        BY <1>4, <1>6, <1>12
      <3> QED BY <3>1 DEF ReadInv, PagesInv
    <2>5. /\ \A k \in DOMAIN page'[e] : cursor[e] < page'[e][k].pos
                                         /\ page'[e][k].pos <= Reached(e)'
          /\ \A j, k \in DOMAIN page'[e] : j < k => page'[e][j].pos < page'[e][k].pos
          /\ \A m \in Msg : Here(m) /\ archive[m].pos <= Reached(e)' =>
               \/ m \in local[e] \cup late'[e]
               \/ \E k \in DOMAIN page'[e] :
                    page'[e][k].msg = m /\ page'[e][k].pos = archive[m].pos
      BY <1>5, <2>1, <2>2, <2>3
    <2>6. ASSUME NEW d \in Device
          PROVE  /\ \A k \in DOMAIN page'[d] : cursor'[d] < page'[d][k].pos
                                               /\ page'[d][k].pos <= Reached(d)'
                 /\ \A j, k \in DOMAIN page'[d] : j < k => page'[d][j].pos < page'[d][k].pos
                 /\ \A m \in Msg : Here(m)' /\ archive'[m].pos <= Reached(d)' =>
                      \/ m \in local'[d] \cup late'[d]
                      \/ \E k \in DOMAIN page'[d] :
                           page'[d][k].msg = m /\ page'[d][k].pos = archive'[m].pos
      <3>1. CASE d = e
        BY <1>2, <1>8, <2>5, <3>1
      <3>2. CASE d # e
        BY <1>2, <1>8, <2>4, <3>2
      <3> QED BY <3>1, <3>2
    <2> QED BY <2>6 DEF PagesInv
  <1>14. NothingSkipped'
    <2> SUFFICES ASSUME NEW d \in Device, NEW m \in Msg, Here(m), archive[m].pos <= cursor[d]
                 PROVE  m \in local[d] \cup late'[d]
      BY <1>2, <1>8 DEF NothingSkipped
    <2>1. m \in local[d] \cup late[d]
      BY DEF ReadInv, NothingSkipped
    <2>2. CASE d = e
      BY <1>3, <1>7, <1>11, <1>12, <2>1, <2>2, ReachedIs
    <2>3. CASE d # e
      BY <1>12, <2>1, <2>3
    <2> QED BY <2>2, <2>3
  <1> QED BY <1>9, <1>13, <1>14 DEF ReadInv

\* The cursor crosses rows that were opened, or had been read before.
LEMMA FinishReads ==
  ASSUME ArchiveTyped, ReadInv, NEW e \in Device, FinishRead(e)
  PROVE  ReadInv'
  <1>1. /\ UNCHANGED <<archive, stamps, pending, late>>
        /\ page'[e] = <<>> /\ \A d \in Device \ {e} : page'[d] = page[d] /\ cursor'[d] = cursor[d]
        /\ \A d \in Device : local[d] \subseteq local'[d]
        /\ \A k \in DOMAIN page[e] : Opened(e, k) => page[e][k].msg \in local'[e]
    BY DEF FinishRead, ArchiveTyped, ArchiveTypeOK
  <1>2. PICK n \in 0..Len(page[e]) :
          Prefix(e) = 1..n /\ cursor'[e] = IF n = 0 THEN cursor[e] ELSE page[e][n].pos
    BY FinishMoves
  <1>3. /\ DOMAIN page[e] = 1..Len(page[e]) /\ Len(page[e]) \in Nat
        /\ \A k \in DOMAIN page[e] : page[e][k].pos \in Nat
        /\ Reached(e) \in Nat /\ cursor[e] \in Nat
    BY ReachedIs
  <1>4. n # 0 => n \in DOMAIN page[e]
    BY <1>3
  <1>5. /\ cursor'[e] \in Nat /\ cursor[e] <= cursor'[e] /\ cursor'[e] <= Reached(e)
        /\ Reached(e)' = cursor'[e]
    <2>1. CASE n = 0
      BY <1>1, <1>2, <1>3, <2>1, CursorBehind DEF Reached, ReadInv
    <2>2. CASE n # 0
      BY <1>1, <1>2, <1>3, <1>4, <2>2 DEF Reached, ReadInv, PagesInv
    <2> QED BY <2>1, <2>2
  <1>6. \A d \in Device \ {e} : Reached(d)' = Reached(d)
    BY <1>1 DEF Reached
  <1>7. \A m \in Msg : (Here(m)' <=> Here(m)) /\ (Here(m) => archive[m].pos \in Nat)
    BY <1>1, RowIs DEF Here
  <1>8. ASSUME NEW m \in Msg, Here(m), archive[m].pos <= cursor'[e]
        PROVE  m \in local'[e] \cup late[e]
    <2>1. CASE m \in local[e] \cup late[e]
      BY <1>1, <2>1
    <2>2. CASE m \notin local[e] \cup late[e]
      <3>1. PICK k \in DOMAIN page[e] : page[e][k].msg = m /\ page[e][k].pos = archive[m].pos
        BY <1>3, <1>5, <1>7, <1>8, <2>2 DEF ReadInv, PagesInv
      <3>2. n # 0
        BY <1>2, <1>3, <1>7, <1>8, <2>2 DEF ReadInv, NothingSkipped
      <3>3. k <= n
        <4> SUFFICES ASSUME n < k PROVE FALSE
          BY <1>3
        <4>1. page[e][n].pos < page[e][k].pos
          BY <1>4, <3>2 DEF ReadInv, PagesInv
        <4> QED BY <1>2, <1>3, <1>4, <1>8, <3>1, <3>2, <4>1
      <3>4. k \in Prefix(e)
        BY <1>2, <1>3, <3>3
      <3>5. Opened(e, k)
        BY <1>3, <3>4 DEF Prefix
      <3> QED BY <1>1, <3>1, <3>5
    <2> QED BY <2>1, <2>2
  <1>9. \A d \in Device : Reached(d) \in Nat
    BY ReachedIs
  <1>10. Positions'
    BY <1>1, <1>7 DEF ReadInv, Positions
  <1>11. PagesInv'
    <2>1. DOMAIN page'[e] = {}
      BY <1>1
    <2>2. \A m \in Msg : Here(m)' /\ archive'[m].pos <= Reached(e)'
            => m \in local'[e] \cup late'[e]
      BY <1>1, <1>5, <1>7, <1>8
    <2>3. ASSUME NEW d \in Device \ {e}
          PROVE  /\ \A k \in DOMAIN page'[d] : cursor'[d] < page'[d][k].pos
                                               /\ page'[d][k].pos <= Reached(d)'
                 /\ \A j, k \in DOMAIN page'[d] : j < k => page'[d][j].pos < page'[d][k].pos
                 /\ \A m \in Msg : Here(m)' /\ archive'[m].pos <= Reached(d)' =>
                      \/ m \in local'[d] \cup late'[d]
                      \/ \E k \in DOMAIN page'[d] :
                           page'[d][k].msg = m /\ page'[d][k].pos = archive'[m].pos
      <3>1. page'[d] = page[d] /\ Reached(d)' = Reached(d) /\ cursor'[d] = cursor[d]
        BY <1>1, <1>6
      <3> QED BY <1>1, <1>7, <3>1 DEF ReadInv, PagesInv
    <2> QED BY <2>1, <2>2, <2>3 DEF PagesInv
  <1>12. NothingSkipped'
    <2> SUFFICES ASSUME NEW d \in Device, NEW m \in Msg, Here(m)', archive'[m].pos <= cursor'[d]
                 PROVE  m \in local'[d] \cup late'[d]
      BY DEF NothingSkipped
    <2>1. CASE d = e
      BY <1>1, <1>7, <1>8, <2>1
    <2>2. CASE d # e
      BY <1>1, <1>7, <2>2 DEF ReadInv, NothingSkipped
    <2> QED BY <2>1, <2>2
  <1> QED BY <1>10, <1>11, <1>12 DEF ReadInv

LEMMA NextReadInv ==
  ASSUME ArchiveTyped, ReadInv, [ArchiveNext]_archiveVars
  PROVE  ReadInv'
  <1>1. ASSUME NEW d \in Device, NEW m \in Msg, Send(d, m) \/ Receive(d, m) \/ GetKey(d, m)
        PROVE  ReadInv'
    <2>1. UNCHANGED <<archive, stamps, pending, late, cursor, page>>
      BY <1>1 DEF Send, Receive, GetKey
    <2>2. \A e \in Device : local[e] \subseteq local'[e]
      BY <1>1 DEF Send, Receive, GetKey, ArchiveTyped, ArchiveTypeOK
    <2> QED BY <2>1, <2>2, ReadFrame DEF Here
  <1>2. ASSUME NEW d \in Device, Look(d) PROVE ReadInv'
    BY <1>2, ReadFrame DEF Look, Here
  <1>3. ASSUME NEW i \in Instance, Visit(i) \/ PurgeFails(i) PROVE ReadInv'
    BY <1>3, ReadFrame DEF Visit, PurgeFails, Here, deviceVars
  <1>4. ASSUME NEW i \in Instance, Purge(i) PROVE ReadInv'
    <2>1. \A m \in Msg : Here(m)' => archive'[m] = archive[m] /\ Here(m)
      BY <1>4 DEF Purge, Here
    <2> QED BY <1>4, <2>1, ReadFrame DEF Purge, deviceVars
  <1>5. CASE ClockTicks
    BY <1>5, ReadFrame DEF ClockTicks, Here, deviceVars
  <1>6. CASE UNCHANGED archiveVars
    BY <1>6, ReadFrame DEF archiveVars, Here
  <1> QED BY <1>1, <1>2, <1>3, <1>4, <1>5, <1>6, InsertReads, CommitReads, PageReads, FinishReads
          DEF ArchiveNext

-----------------------------------------------------------------------------
\* In a room that is attended to, a row outlives its window by at most the sweep
\* interval, over any number of server instances (archiveRetentionSweep.ts).
THEOREM OutlivedByIntervalHolds == ArchiveSpec => []OutlivedByInterval
  <1>1. ArchiveInit => ArchiveTyped /\ SweepInv
    BY InitArchiveTyped DEF ArchiveInit, SweepInv
  <1>2. ArchiveTyped /\ SweepInv /\ [ArchiveNext]_archiveVars => (ArchiveTyped /\ SweepInv)'
    BY NextArchiveTyped, NextSweepInv
  <1>3. ArchiveTyped /\ SweepInv => OutlivedByInterval
    <2> SUFFICES ASSUME ArchiveTyped, SweepInv, attended, failures = 0, visited,
                        \A i \in Instance : purge[i] = Absent,
                        NEW m \in Msg, Here(m), Window > 0
                 PROVE  clock <= archive[m].at + Window + Interval
      BY DEF OutlivedByInterval
    <2>1. PICK i \in Instance :
            swept[i] # Absent /\ (clock - swept[i] < Interval \/ swept[i] = clock)
      BY DEF SweepInv
    <2>2. swept[i] - Window <= archive[m].at
      BY <2>1 DEF SweepInv
    <2>3. clock \in Int /\ swept[i] \in Int /\ archive[m].at \in Int
      BY <2>1 DEF ArchiveTyped, ArchiveTypeOK, ArchiveRow, Here
    <2> QED BY <2>1, <2>2, <2>3, ArchiveWindow
  <1> QED BY <1>1, <1>2, <1>3, PTL DEF ArchiveSpec

\* Every row a device's stored cursor has passed is in its history, unless the row's
\* insert committed after the device had fetched past its place, whatever keys came
\* late, was purged or put back meanwhile (getArchiveSince, and the prefix rule of
\* backfill in takSession.ts).
THEOREM NothingSkippedHolds == ArchiveSpec => []NothingSkipped
  <1>1. ArchiveInit => ArchiveTyped /\ ReadInv
    BY InitArchiveTyped, InitReadInv
  <1>2. ArchiveTyped /\ ReadInv /\ [ArchiveNext]_archiveVars => (ArchiveTyped /\ ReadInv)'
    BY NextArchiveTyped, NextReadInv
  <1>3. ReadInv => NothingSkipped
    BY DEF ReadInv
  <1> QED BY <1>1, <1>2, <1>3, PTL DEF ArchiveSpec
=============================================================================
