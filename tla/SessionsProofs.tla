-------------------------- MODULE SessionsProofs --------------------------
(***************************************************************************)
(* Proofs about the sign-ins: Sessions, for every set of phones and every  *)
(* number of sign-ins, refreshes and lapses, and, at the end, CliLogin,    *)
(* for every set of polls and cancellers and every number of lapses and    *)
(* faults.  The two share no state.                                        *)
(*                                                                         *)
(* Sessions turns on one thing: as long as nothing is ended under a        *)
(* refresh, a record that is gone stays gone, so what a request found dead *)
(* or has revoked is dead when it acts on it (GoneStaysGone).  Then a      *)
(* live session is in the index or about to be put there (Reachable), a    *)
(* sign-in that is alone has listed all that lives, and what it has not    *)
(* revoked yet is in its hands (AloneInv).                                 *)
(***************************************************************************)
EXTENDS Sessions, CliLogin, TLAPS

Minted == 1..minted

LoginType == [at : SignInStep,
              takeover : BOOLEAN, ids : SUBSET Minted, live : SUBSET Minted,
              dead : SUBSET Minted, mine : SUBSET Minted, sid : 0..minted]
KillType == [todo : SUBSET Minted, cut : 0..minted]
RefreshType == [at : {"idle", "write", "index"}, sid : 0..minted]

\* Only sessions that were minted are named anywhere.
Types ==
  /\ minted \in 0..MaxSessions
  /\ owner \in [Sid -> Phone \cup {None}]
  /\ record \in [Sid -> Phone \cup {None, Unknown}]
  /\ index \subseteq Minted /\ ended \subseteq Minted /\ crossed \subseteq ended
  /\ holds \in [Phone -> Minted \cup {None}]
  /\ login \in [Phone -> LoginType] /\ kill \in [Phone -> KillType]
  /\ refresh \in [Phone -> RefreshType]
  /\ lapses \in Nat /\ logout \subseteq Phone /\ told \subseteq Phone
  /\ alarmed \subseteq Phone /\ overlapped \in BOOLEAN
  /\ \A d \in Phone :
       /\ login[d].at = "index" => login[d].sid \in Minted
       /\ refresh[d].at # "idle" => refresh[d].sid \in Minted

\* A session is of the phone it was minted for.
OwnersInv ==
  /\ \A s \in Sid : s > minted => record[s] = None
  /\ \A s \in Minted : owner[s] \in Phone /\ record[s] \in {None, Unknown, owner[s]}
  /\ \A d \in Phone :
       /\ holds[d] # None => owner[holds[d]] = d
       /\ login[d].at = "index" => owner[login[d].sid] = d
       /\ refresh[d].at # "idle" => owner[refresh[d].sid] = d

\* Whom a phone may sign out: itself, or another one its person was told of.
TodoInv ==
  \A d \in Phone :
    /\ login[d].takeover => d \in told
    /\ login[d].at \in {"again", "retire"} => d \in told
    /\ \A s \in login[d].mine : owner[s] = d
    /\ \A s \in kill[d].todo : owner[s] = d \/ d \in told

\* A refresh under way is of a session that lives, or that was ended under it.
RefreshInv ==
  \A d \in Phone :
    refresh[d].at # "idle" =>
      /\ refresh[d].sid \in ended => refresh[d].sid \in crossed
      /\ record[refresh[d].sid] = None => refresh[d].sid \in crossed

\* What a sign-in found dead is dead, and so is what is about to leave the index.
DeadInv ==
  crossed = {} =>
    \A d \in Phone : /\ \A s \in login[d].dead : record[s] = None
                     /\ kill[d].cut # 0 => record[kill[d].cut] = None

\* A live session is in the index, or its sign-in is about to put it there.
Reachable ==
  crossed = {} /\ lapses = 0 =>
    \A s \in Live : s \in index \/ \E d \in Phone : login[d].at = "index" /\ login[d].sid = s

\* A sign-in that is alone has listed all that lives, or is still to look at it; once it
\* has decided, all that lives is in its hands.
AloneInv ==
  ~overlapped /\ crossed = {} /\ lapses = 0 =>
    /\ \A s, t \in Live : s = t
    /\ \A d, e \in Busy : d = e
    /\ \A d \in Phone : /\ login[d].at \in {"decide", "retire"} =>
                             Live \subseteq login[d].live \cup login[d].ids
                        /\ login[d].at = "mint" => Live \subseteq kill[d].todo

SessionsInv ==
  Types /\ OwnersInv /\ TodoInv /\ RefreshInv /\ EndedStaysEnded /\ DeadInv /\ Reachable
    /\ AloneInv
-----------------------------------------------------------------------------
\* The nulls are of their types, whatever was minted.
LEMMA NullTypes ==
  ASSUME minted \in Nat
  PROVE  NoLogin \in LoginType /\ NoKill \in KillType /\ NoRefresh \in RefreshType
  BY DEF LoginType, KillType, RefreshType, SignInStep, NoLogin, NoKill, NoRefresh, Minted

\* The account starts with no session.
LEMMA InitTypes == SessionsInit => Types
  <1> SUFFICES ASSUME SessionsInit PROVE Types
    OBVIOUS
  <1>1. minted \in Nat
    BY DEF SessionsInit
  <1>2. overlapped \in BOOLEAN
    BY DEF SessionsInit
  <1> QED BY <1>1, <1>2, NullTypes, SessionConstants
          DEF SessionsInit, Types, Sid, NoLogin, NoRefresh

\* No session, no owner.
LEMMA InitOwners == SessionsInit => OwnersInv /\ TodoInv
  BY SessionConstants
  DEF SessionsInit, OwnersInv, TodoInv, Sid, Minted, NoLogin, NoKill, NoRefresh

\* A sign-in that goes on is still one.
LEMMA LoginAt ==
  ASSUME Types, NEW d \in Phone, NEW a,
         a \in SignInStep
  PROVE  LET l == [login[d] EXCEPT !.at = a] IN
         /\ l \in LoginType
         /\ l.at = a /\ l.takeover = login[d].takeover /\ l.live = login[d].live
         /\ l.dead = login[d].dead /\ l.mine = login[d].mine /\ l.sid = login[d].sid
         /\ l.ids = login[d].ids
  BY DEF Types, LoginType, SignInStep

\* A listing names what the index does.
LEMMA ListingType ==
  ASSUME Types, NEW t \in BOOLEAN, NEW a \in SignInStep
  PROVE  Listing(a, t) \in LoginType /\ Listing(a, t).at = a
  <1>1. index \in SUBSET Minted /\ {} \in SUBSET Minted /\ 0 \in 0..minted
    BY SessionConstants DEF Types
  <1> QED BY <1>1 DEF Listing, LoginType

\* A look takes one id from those that are left, to the live or the dead.
LEMMA LookMoves ==
  ASSUME Types, NEW d \in Phone, NEW s \in Sid, Look(d, s)
  PROVE  \E l \in LoginType :
           /\ l.at = login[d].at /\ l.takeover = login[d].takeover /\ l.sid = login[d].sid
           /\ l.ids = login[d].ids \ {s}
           /\ l.live = login[d].live \cup ({s} \cap Live)
           /\ l.dead = login[d].dead \cup ({s} \ Live)
           /\ l.mine = login[d].mine \cup {t \in {s} : IsMine(d, t)}
           /\ login' = [login EXCEPT ![d] = l]
  <1> DEFINE l == [at |-> login[d].at, takeover |-> login[d].takeover, ids |-> login[d].ids \ {s},
                   live |-> login[d].live \cup ({s} \cap Live),
                   dead |-> login[d].dead \cup ({s} \ Live),
                   mine |-> login[d].mine \cup {t \in {s} : IsMine(d, t)}, sid |-> login[d].sid]
  <1>1. login[d] \in LoginType /\ s \in login[d].ids /\ s \in Minted
    BY DEF Types, LoginType, Look
  <1>2. l \in LoginType
    BY <1>1 DEF LoginType
  <1>3. login' = [login EXCEPT ![d] = l]
    BY DEF Look
  <1> QED BY <1>2, <1>3

\* What was minted stays minted.
LEMMA MintedGrows ==
  ASSUME Types, minted' \in Nat, minted <= minted'
  PROVE  /\ Minted \subseteq Minted' /\ LoginType \subseteq LoginType'
         /\ KillType \subseteq KillType' /\ RefreshType \subseteq RefreshType'
  <1>1. Minted \subseteq Minted' /\ 0..minted \subseteq 0..minted'
    BY DEF Types, Minted
  <1> QED BY <1>1 DEF LoginType, KillType, RefreshType

\* A step that mints nothing leaves the types as they are.
LEMMA SameTypes ==
  ASSUME minted' = minted
  PROVE  /\ Minted' = Minted /\ LoginType' = LoginType
         /\ KillType' = KillType /\ RefreshType' = RefreshType
  BY DEF Minted, LoginType, KillType, RefreshType

\* A sign-in changes, to one of the type.
LEMMA LoginMoves ==
  ASSUME Types, minted' \in Nat, minted <= minted', NEW d \in Phone, NEW l \in LoginType',
         l.at = "index" => l.sid \in Minted', login' = [login EXCEPT ![d] = l]
  PROVE  /\ login' \in [Phone -> LoginType']
         /\ \A e \in Phone : login'[e].at = "index" => login'[e].sid \in Minted'
  BY MintedGrows DEF Types

\* Every step keeps the types.
LEMMA TypesKept == ASSUME Types, [SessionsNext]_vars PROVE Types'
  <1>1. CASE UNCHANGED vars
    <2>1. minted' = minted
      BY <1>1 DEF vars
    <2> QED BY <1>1, <2>1, SameTypes DEF vars, Types
  <1>2. ASSUME NEW d \in Phone, NEW t \in BOOLEAN, SignIn(d, t) PROVE Types'
    <2>1. minted' = minted /\ minted' \in Nat /\ minted <= minted'
      BY <1>2, SessionConstants DEF SignIn, Types
    <2>2. PICK l \in LoginType : l.at = "decide" /\ login' = [login EXCEPT ![d] = l]
      BY <1>2, ListingType DEF SignIn, SignInStep
    <2>3. l \in LoginType' /\ (l.at = "index" => l.sid \in Minted')
      BY <2>1, <2>2, SameTypes
    <2>4. /\ login' \in [Phone -> LoginType']
          /\ \A e \in Phone : login'[e].at = "index" => login'[e].sid \in Minted'
      BY <2>1, <2>2, <2>3, LoginMoves
    <2> QED BY <1>2, <2>1, <2>4, SameTypes DEF SignIn, Types
  <1>2a. ASSUME NEW d \in Phone, NEW s \in Sid, Look(d, s) PROVE Types'
    <2>1. minted' = minted /\ minted' \in Nat /\ minted <= minted'
      BY <1>2a, SessionConstants DEF Look, Types
    <2>2. PICK l \in LoginType : /\ l.at = login[d].at /\ l.sid = login[d].sid
                                 /\ login' = [login EXCEPT ![d] = l]
      BY <1>2a, LookMoves
    <2>3. l \in LoginType' /\ (l.at = "index" => l.sid \in Minted')
      BY <2>1, <2>2, SameTypes DEF Types
    <2>4. /\ login' \in [Phone -> LoginType']
          /\ \A e \in Phone : login'[e].at = "index" => login'[e].sid \in Minted'
      BY <2>1, <2>2, <2>3, LoginMoves
    <2> QED BY <1>2a, <2>1, <2>4, SameTypes DEF Look, Types
  <1>3. ASSUME NEW d \in Phone, Decide(d) PROVE Types'
    <2>1. [login[d] EXCEPT !.at = IF login[d].live \ login[d].mine = {} THEN "mint"
                 ELSE IF login[d].takeover THEN "again" ELSE "conflict"] \in LoginType
      BY LoginAt DEF SignInStep
    <2>2. login[d].mine \in SUBSET Minted
      BY DEF Types, LoginType
    <2>3. [kill[d] EXCEPT !.todo = login[d].mine] \in KillType
      BY <2>2 DEF Types, KillType
    <2> QED BY <1>3, <2>1, <2>3, SameTypes DEF Decide, Types
  <1>4. ASSUME NEW d \in Phone, Conflict(d) PROVE Types'
    BY <1>4, SameTypes, NullTypes DEF Conflict, Types, NoLogin
  <1>5. ASSUME NEW d \in Phone, TakeOver(d) PROVE Types'
    <2>1. /\ login[d].takeover \in BOOLEAN
          /\ minted' = minted /\ minted' \in Nat /\ minted <= minted'
      BY <1>5, SessionConstants DEF Types, LoginType, TakeOver
    <2>2. PICK l \in LoginType : l.at = "retire" /\ login' = [login EXCEPT ![d] = l]
      BY <1>5, <2>1, ListingType DEF TakeOver, SignInStep
    <2>3. l \in LoginType' /\ (l.at = "index" => l.sid \in Minted')
      BY <2>1, <2>2, SameTypes
    <2>4. /\ login' \in [Phone -> LoginType']
          /\ \A e \in Phone : login'[e].at = "index" => login'[e].sid \in Minted'
      BY <2>1, <2>2, <2>3, LoginMoves
    <2> QED BY <1>5, <2>1, <2>4, SameTypes DEF TakeOver, Types
  <1>5a. ASSUME NEW d \in Phone, Retire(d) PROVE Types'
    <2>1. /\ [login[d] EXCEPT !.at = "mint"] \in LoginType
          /\ [login[d] EXCEPT !.at = "mint"].at = "mint"
      BY LoginAt DEF SignInStep
    <2>2. login[d].live \in SUBSET Minted
      BY DEF Types, LoginType
    <2>3. [kill[d] EXCEPT !.todo = login[d].live] \in KillType
      BY <2>2 DEF Types, KillType
    <2> QED BY <1>5a, <2>1, <2>3, SameTypes DEF Retire, Types
  <1>6. ASSUME NEW d \in Phone, Mint(d) PROVE Types'
    <2>1. /\ minted' = minted + 1 /\ minted' \in 0..MaxSessions /\ minted \in Nat
          /\ minted + 1 \in Sid
      BY <1>6, SessionConstants DEF Mint, Types, Sid
    <2>2. /\ Minted \subseteq Minted' /\ LoginType \subseteq LoginType'
          /\ KillType \subseteq KillType' /\ RefreshType \subseteq RefreshType'
      BY <2>1, MintedGrows
    <2>3. PICK l : l = Indexing(minted + 1)
      OBVIOUS
    <2>4. l \in LoginType' /\ l.at = "index" /\ l.sid \in Minted'
      BY <2>1, <2>3 DEF LoginType, SignInStep, Indexing, Minted
    <2>5. /\ login' \in [Phone -> LoginType']
          /\ \A e \in Phone : login'[e].at = "index" => login'[e].sid \in Minted'
      <3>1. login' = [login EXCEPT ![d] = l]
        BY <1>6, <2>3 DEF Mint
      <3>2. minted' \in Nat /\ minted <= minted'
        BY <2>1
      <3> QED BY <2>4, <3>1, <3>2, LoginMoves
    <2>6. /\ owner' \in [Sid -> Phone \cup {None}]
          /\ record' \in [Sid -> Phone \cup {None, Unknown}]
      BY <1>6, <2>1 DEF Mint, Types
    <2>7. /\ index' \subseteq Minted' /\ ended' \subseteq Minted' /\ crossed' \subseteq ended'
          /\ holds' \in [Phone -> Minted' \cup {None}]
          /\ kill' \in [Phone -> KillType'] /\ refresh' \in [Phone -> RefreshType']
      BY <1>6, <2>2 DEF Mint, Types
    <2> QED BY <1>6, <2>1, <2>2, <2>5, <2>6, <2>7 DEF Mint, Types
  <1>7. ASSUME NEW d \in Phone, Index(d) PROVE Types'
    <2>1. login[d].sid \in Minted
      BY <1>7 DEF Types, Index
    <2> QED BY <1>7, <2>1, SameTypes, NullTypes DEF Index, Types, NoLogin
  <1>8. ASSUME NEW d \in Phone, Refresh(d) PROVE Types'
    <2>1. holds[d] \in Minted /\ [at |-> "write", sid |-> holds[d]] \in RefreshType
      BY <1>8 DEF Refresh, Holds, Types, RefreshType, Minted
    <2> QED BY <1>8, <2>1, SameTypes DEF Refresh, Types
  <1>9. ASSUME NEW d \in Phone, RefreshWrites(d) PROVE Types'
    <2>1. [refresh[d] EXCEPT !.at = "index"] \in RefreshType
      BY DEF Types, RefreshType
    <2>2. refresh[d].sid \in Minted
      BY <1>9 DEF RefreshWrites, Types
    <2>3. [refresh[d] EXCEPT !.at = "index"].sid = refresh[d].sid
      BY DEF Types, RefreshType
    <2>4. PICK id \in {d, Unknown} : record' = [record EXCEPT ![refresh[d].sid] = id]
      BY <1>9 DEF RefreshWrites
    <2>5. record' \in [Sid -> Phone \cup {None, Unknown}]
      BY <2>4 DEF Types
    <2> QED BY <1>9, <2>1, <2>2, <2>3, <2>5, SameTypes DEF RefreshWrites, Types
  <1>10. ASSUME NEW d \in Phone, RefreshIndexes(d) PROVE Types'
    BY <1>10, SameTypes, NullTypes DEF RefreshIndexes, Types, NoRefresh
  <1>11. ASSUME NEW d \in Phone, SignOut(d) PROVE Types'
    <2>1. [kill[d] EXCEPT !.todo = {holds[d]}] \in KillType
      BY <1>11 DEF SignOut, Holds, Types, KillType
    <2> QED BY <1>11, <2>1, SameTypes DEF SignOut, Types
  <1>12. ASSUME NEW d \in Phone, SignedOut(d) PROVE Types'
    BY <1>12, SameTypes DEF SignedOut, Types
  <1>13. ASSUME NEW d \in Phone, Unindex(d) PROVE Types'
    <2>1. [kill[d] EXCEPT !.cut = 0] \in KillType
      BY DEF Types, KillType
    <2> QED BY <1>13, <2>1, SameTypes DEF Unindex, Types
  <1>14. ASSUME NEW d \in Phone, NEW s \in Sid, Revoke(d, s) PROVE Types'
    <2>1. s \in Minted /\ [todo |-> kill[d].todo \ {s}, cut |-> s] \in KillType
      BY <1>14 DEF Revoke, Types, KillType, Minted
    <2> QED BY <1>14, <2>1, SameTypes DEF Revoke, Types
  <1>15. ASSUME NEW s \in Sid, Lapse(s) PROVE Types'
    BY <1>15, SameTypes DEF Lapse, Types
  <1>16. CASE IndexLapses
    BY <1>16, SameTypes DEF IndexLapses, Types
  <1> QED BY <1>1, <1>2, <1>3, <1>4, <1>5, <1>6, <1>7, <1>8, <1>9, <1>10, <1>11, <1>12,
             <1>13, <1>14, <1>15, <1>16, <1>2a, <1>5a DEF SessionsNext

-----------------------------------------------------------------------------
\* Who owns what is kept: a record is written for the phone it was minted for, or
\* with no device in it.
LEMMA OwnersKept == ASSUME Types, OwnersInv, [SessionsNext]_vars PROVE OwnersInv'
  <1> USE SessionConstants DEF Types, OwnersInv, Sid, Minted
  <1>1. CASE UNCHANGED vars
    BY <1>1 DEF vars
  <1>2. ASSUME NEW d \in Phone, NEW t \in BOOLEAN, SignIn(d, t) PROVE OwnersInv'
    <2>1. PICK l : l.at = "decide" /\ login' = [login EXCEPT ![d] = l]
      BY <1>2, ListingType DEF SignIn, SignInStep
    <2> QED BY <1>2, <2>1 DEF SignIn
  <1>2a. ASSUME NEW d \in Phone, NEW s \in Sid, Look(d, s) PROVE OwnersInv'
    <2>1. PICK l : /\ l.at = login[d].at /\ l.sid = login[d].sid
                   /\ login' = [login EXCEPT ![d] = l]
      BY <1>2a, LookMoves
    <2> QED BY <1>2a, <2>1 DEF Look
  <1>3. ASSUME NEW d \in Phone, Decide(d) PROVE OwnersInv'
    <2>1. PICK l : l.at # "index" /\ login' = [login EXCEPT ![d] = l]
      <3>1. [login[d] EXCEPT !.at = IF login[d].live \ login[d].mine = {} THEN "mint"
                 ELSE IF login[d].takeover THEN "again" ELSE "conflict"].at # "index"
        BY LoginAt
      <3> QED BY <1>3, <3>1 DEF Decide
    <2> QED BY <1>3, <2>1 DEF Decide
  <1>4. ASSUME NEW d \in Phone, Conflict(d) PROVE OwnersInv'
    BY <1>4 DEF Conflict, NoLogin
  <1>5. ASSUME NEW d \in Phone, TakeOver(d) PROVE OwnersInv'
    <2>1. login[d].takeover \in BOOLEAN
      BY DEF LoginType
    <2>2. PICK l : l.at = "retire" /\ login' = [login EXCEPT ![d] = l]
      BY <1>5, <2>1, ListingType DEF TakeOver, SignInStep
    <2> QED BY <1>5, <2>2 DEF TakeOver
  <1>5a. ASSUME NEW d \in Phone, Retire(d) PROVE OwnersInv'
    <2>1. PICK l : l.at = "mint" /\ login' = [login EXCEPT ![d] = l]
      BY <1>5a, LoginAt DEF Retire, SignInStep
    <2> QED BY <1>5a, <2>1 DEF Retire
  <1>6. ASSUME NEW d \in Phone, Mint(d) PROVE OwnersInv'
    <2>1. PICK l : l.at = "index" /\ l.sid = minted + 1 /\ login' = [login EXCEPT ![d] = l]
      BY <1>6 DEF Mint, Indexing
    <2>2. minted + 1 \in Sid /\ minted + 1 \notin Minted
      BY <1>6 DEF Mint
    <2> QED BY <1>6, <2>1, <2>2 DEF Mint
  <1>7. ASSUME NEW d \in Phone, Index(d) PROVE OwnersInv'
    BY <1>7 DEF Index, NoLogin
  <1>8. ASSUME NEW d \in Phone, SignOut(d) \/ SignedOut(d) \/ Unindex(d)
        PROVE  OwnersInv'
    BY <1>8 DEF SignOut, SignedOut, Unindex
  <1>8a. ASSUME NEW d \in Phone, Refresh(d) \/ RefreshIndexes(d) PROVE OwnersInv'
    <2>1. PICK r : /\ refresh' = [refresh EXCEPT ![d] = r]
                   /\ r.at # "idle" => r.sid \in Minted /\ owner[r.sid] = d
      BY <1>8a DEF Refresh, RefreshIndexes, Holds, NoRefresh
    <2>2. UNCHANGED <<minted, owner, record, holds, login>>
      BY <1>8a DEF Refresh, RefreshIndexes
    <2> QED BY <2>1, <2>2
  <1>9. ASSUME NEW d \in Phone, RefreshWrites(d) PROVE OwnersInv'
    <2>1. PICK id \in {d, Unknown} : record' = [record EXCEPT ![refresh[d].sid] = id]
      BY <1>9 DEF RefreshWrites
    <2>2. refresh[d].sid \in Minted /\ owner[refresh[d].sid] = d
      BY <1>9 DEF RefreshWrites
    <2>3. \A e \in Phone : refresh'[e].at # "idle" =>
                           refresh[e].at # "idle" /\ refresh'[e].sid = refresh[e].sid
      <3>1. [refresh[d] EXCEPT !.at = "index"].sid = refresh[d].sid
        BY DEF RefreshType
      <3>2. PICK r : r = [refresh[d] EXCEPT !.at = "index"]
        OBVIOUS
      <3>3. refresh' = [refresh EXCEPT ![d] = r] /\ r.sid = refresh[d].sid
        BY <1>9, <3>1, <3>2 DEF RefreshWrites
      <3>4. refresh[d].at # "idle"
        BY <1>9 DEF RefreshWrites
      <3> QED BY <3>3, <3>4
    <2>4. UNCHANGED <<minted, owner, holds, login>>
      BY <1>9 DEF RefreshWrites
    <2>5. \A s \in Sid : s > minted => record'[s] = None
      BY <2>1, <2>2
    <2>6. \A s \in Minted : record'[s] \in {None, Unknown, owner[s]}
      BY <2>1, <2>2
    <2> QED BY <2>3, <2>4, <2>5, <2>6
  <1>10. ASSUME NEW d \in Phone, NEW s \in Sid, Revoke(d, s) PROVE OwnersInv'
    BY <1>10 DEF Revoke
  <1>11. ASSUME NEW s \in Sid, Lapse(s) PROVE OwnersInv'
    BY <1>11 DEF Lapse
  <1>12. CASE IndexLapses
    BY <1>12 DEF IndexLapses
  <1> QED BY <1>1, <1>2, <1>3, <1>4, <1>5, <1>6, <1>7, <1>8, <1>9, <1>10, <1>11, <1>12,
             <1>2a, <1>5a, <1>8a DEF SessionsNext

\* What a phone may sign out is kept: nobody who was told forgets it, and only a
\* sign-in that was confirmed takes over.
LEMMA TodoKept == ASSUME Types, OwnersInv, TodoInv, [SessionsNext]_vars PROVE TodoInv'
  <1> USE SessionConstants DEF Types, TodoInv
  <1>1. CASE UNCHANGED vars
    BY <1>1 DEF vars
  <1>2. ASSUME NEW d \in Phone, NEW t \in BOOLEAN, SignIn(d, t) PROVE TodoInv'
    <2>1. PICK l : /\ l.at = "decide" /\ l.takeover = t /\ l.mine = {}
                   /\ login' = [login EXCEPT ![d] = l]
      BY <1>2 DEF SignIn, Listing
    <2> QED BY <1>2, <2>1 DEF SignIn
  <1>2a. ASSUME NEW d \in Phone, NEW s \in Sid, Look(d, s) PROVE TodoInv'
    <2>1. PICK l : /\ l.at = login[d].at /\ l.takeover = login[d].takeover
                   /\ l.mine = login[d].mine \cup {t \in {s} : IsMine(d, t)}
                   /\ login' = [login EXCEPT ![d] = l]
      BY <1>2a, LookMoves
    <2>2. s \in Minted
      BY <1>2a DEF Look, LoginType
    <2>3. \A t \in l.mine : owner[t] = d
      BY <2>1, <2>2 DEF IsMine, OwnersInv
    <2> QED BY <1>2a, <2>1, <2>3 DEF Look
  <1>3. ASSUME NEW d \in Phone, Decide(d) PROVE TodoInv'
    <2> DEFINE a == IF login[d].live \ login[d].mine = {} THEN "mint"
                      ELSE IF login[d].takeover THEN "again" ELSE "conflict"
    <2>1. a = "again" => d \in told
      OBVIOUS
    <2>2. /\ [login[d] EXCEPT !.at = a].at = a
          /\ [login[d] EXCEPT !.at = a].takeover = login[d].takeover
          /\ [login[d] EXCEPT !.at = a].mine = login[d].mine
      BY LoginAt
    <2>3. login' = [login EXCEPT ![d] = [login[d] EXCEPT !.at = a]]
      BY <1>3 DEF Decide
    <2>4. PICK l : l = [login[d] EXCEPT !.at = a]
      OBVIOUS
    <2>5. /\ l.at = "again" => d \in told
          /\ l.takeover => d \in told
          /\ l.mine = login[d].mine
          /\ login' = [login EXCEPT ![d] = l]
      BY <2>1, <2>2, <2>3, <2>4
    <2>6. PICK k : k.todo = login[d].mine /\ kill' = [kill EXCEPT ![d] = k]
      <3>1. [kill[d] EXCEPT !.todo = login[d].mine].todo = login[d].mine
        BY DEF KillType
      <3> QED BY <1>3, <3>1 DEF Decide
    <2> QED BY <1>3, <2>5, <2>6 DEF Decide
  <1>4. ASSUME NEW d \in Phone, Conflict(d) PROVE TodoInv'
    <2>1. PICK l : l.at = "idle" /\ ~l.takeover /\ l.mine = {} /\ login' = [login EXCEPT ![d] = l]
      BY <1>4 DEF Conflict, NoLogin
    <2> QED BY <1>4, <2>1 DEF Conflict
  <1>5. ASSUME NEW d \in Phone, TakeOver(d) PROVE TodoInv'
    <2>1. d \in told
      BY <1>5 DEF TakeOver
    <2>2. PICK l : /\ l.at = "retire" /\ l.mine = {}
                   /\ login' = [login EXCEPT ![d] = l]
      BY <1>5 DEF TakeOver, Listing
    <2> QED BY <1>5, <2>1, <2>2 DEF TakeOver
  <1>5a. ASSUME NEW d \in Phone, Retire(d) PROVE TodoInv'
    <2>1. d \in told
      BY <1>5a DEF Retire
    <2>2. PICK l : l = [login[d] EXCEPT !.at = "mint"]
      OBVIOUS
    <2>3. /\ l.at = "mint" /\ l.mine = login[d].mine /\ login' = [login EXCEPT ![d] = l]
      BY <1>5a, <2>2, LoginAt DEF Retire, SignInStep
    <2>4. PICK k : kill' = [kill EXCEPT ![d] = k]
      BY <1>5a DEF Retire
    <2> QED BY <1>5a, <2>1, <2>3, <2>4 DEF Retire
  <1>6. ASSUME NEW d \in Phone, Mint(d) PROVE TodoInv'
    <2>1. minted + 1 \notin Minted /\ minted + 1 \in Sid
      BY <1>6 DEF Mint, Minted, Sid
    <2>2. \A s \in Minted : owner'[s] = owner[s]
      BY <1>6, <2>1 DEF Mint, Minted, Sid
    <2>3. \A e \in Phone : login[e].mine \subseteq Minted /\ kill[e].todo \subseteq Minted
      BY DEF LoginType, KillType
    <2>4. PICK l : l.at = "index" /\ ~l.takeover /\ l.mine = {} /\ login' = [login EXCEPT ![d] = l]
      BY <1>6 DEF Mint, Indexing
    <2> QED BY <1>6, <2>2, <2>3, <2>4 DEF Mint
  <1>7. ASSUME NEW d \in Phone, Index(d) PROVE TodoInv'
    <2>1. PICK l : l.at = "idle" /\ ~l.takeover /\ l.mine = {} /\ login' = [login EXCEPT ![d] = l]
      BY <1>7 DEF Index, NoLogin
    <2> QED BY <1>7, <2>1 DEF Index
  <1>8. ASSUME NEW d \in Phone, Refresh(d) \/ RefreshIndexes(d) \/ RefreshWrites(d) \/ SignedOut(d)
        PROVE  TodoInv'
    BY <1>8 DEF Refresh, RefreshIndexes, RefreshWrites, SignedOut
  <1>9. ASSUME NEW d \in Phone, SignOut(d) PROVE TodoInv'
    BY <1>9 DEF SignOut, Holds, OwnersInv, KillType
  <1>10. ASSUME NEW d \in Phone, Unindex(d) PROVE TodoInv'
    BY <1>10 DEF Unindex, KillType
  <1>11. ASSUME NEW d \in Phone, NEW s \in Sid, Revoke(d, s) PROVE TodoInv'
    BY <1>11 DEF Revoke, KillType
  <1>12. ASSUME NEW s \in Sid, Lapse(s) PROVE TodoInv'
    BY <1>12 DEF Lapse
  <1>13. CASE IndexLapses
    BY <1>13 DEF IndexLapses
  <1> QED BY <1>1, <1>2, <1>3, <1>4, <1>5, <1>6, <1>7, <1>8, <1>9, <1>10, <1>11, <1>12, <1>13,
             <1>2a, <1>5a DEF SessionsNext

-----------------------------------------------------------------------------
\* How the records may change in a step: only the newest is made, and otherwise one
\* that is gone comes back only under a refresh that it was ended under.
LEMMA GoneStaysGone ==
  ASSUME Types, RefreshInv, [SessionsNext]_vars, NEW s \in Minted,
         record[s] = None, s \notin crossed
  PROVE  record'[s] = None
  <1> USE SessionConstants DEF Types, Minted, Sid
  <1>1. ASSUME NEW d \in Phone, RefreshWrites(d) PROVE record'[s] = None
    BY <1>1 DEF RefreshWrites, RefreshInv
  <1>2. ASSUME NEW d \in Phone, Mint(d) PROVE record'[s] = None
    BY <1>2 DEF Mint
  <1>3. ASSUME NEW d \in Phone, NEW t \in Sid, Revoke(d, t) PROVE record'[s] = None
    BY <1>3 DEF Revoke
  <1>4. ASSUME NEW t \in Sid, Lapse(t) PROVE record'[s] = None
    BY <1>4 DEF Lapse
  <1>5. CASE record' = record
    BY <1>5
  <1> QED BY <1>1, <1>2, <1>3, <1>4, <1>5
          DEF SessionsNext, vars, SignIn, Look, Decide, Conflict, TakeOver, Retire, Index, Refresh,
              RefreshIndexes, SignOut, SignedOut, Unindex, IndexLapses

\* What is crossed, counted or overlapped is so for good.
LEMMA Monotone ==
  ASSUME Types, [SessionsNext]_vars
  PROVE  /\ crossed \subseteq crossed' /\ ended \subseteq ended'
         /\ lapses' = 0 => lapses = 0
  BY DEF Types, SessionsNext, vars, SignIn, Look, Decide, Conflict, TakeOver, Retire, Mint, Index, Refresh,
         RefreshWrites, RefreshIndexes, SignOut, SignedOut, Unindex, Revoke, Lapse, IndexLapses

\* A refresh starts on a session that lives; what ends that session is noted.
LEMMA RefreshKept ==
  ASSUME Types, RefreshInv, EndedStaysEnded, [SessionsNext]_vars
  PROVE  RefreshInv' /\ EndedStaysEnded'
  <1> USE SessionConstants DEF RefreshInv, EndedStaysEnded
  <1>1. ASSUME NEW d \in Phone, Refresh(d) PROVE RefreshInv' /\ EndedStaysEnded'
    BY <1>1 DEF Types, Refresh, Holds, Minted, Sid, RefreshType
  <1>2. ASSUME NEW d \in Phone, RefreshWrites(d) PROVE RefreshInv' /\ EndedStaysEnded'
    BY <1>2 DEF Types, RefreshWrites, Minted, Sid, RefreshType
  <1>3. ASSUME NEW d \in Phone, RefreshIndexes(d) PROVE RefreshInv' /\ EndedStaysEnded'
    BY <1>3 DEF Types, RefreshIndexes, NoRefresh
  <1>4. ASSUME NEW d \in Phone, NEW s \in Sid, Revoke(d, s)
        PROVE  RefreshInv' /\ EndedStaysEnded'
    BY <1>4 DEF Types, Revoke, Minted, Sid
  <1>5. ASSUME NEW s \in Sid, Lapse(s) PROVE RefreshInv' /\ EndedStaysEnded'
    BY <1>5 DEF Types, Lapse, Minted, Sid
  <1>6. ASSUME NEW d \in Phone, Mint(d) PROVE RefreshInv' /\ EndedStaysEnded'
    BY <1>6 DEF Types, Mint, Minted, Sid
  <1>7. CASE UNCHANGED <<refresh, ended, crossed, record>>
    BY <1>7
  <1> QED BY <1>1, <1>2, <1>3, <1>4, <1>5, <1>6, <1>7
          DEF SessionsNext, vars, SignIn, Look, Decide, Conflict, TakeOver, Retire, Index,
              SignOut, SignedOut, Unindex, IndexLapses

\* What was found dead stays dead.
LEMMA DeadKept ==
  ASSUME Types, RefreshInv, DeadInv, [SessionsNext]_vars PROVE DeadInv'
  <1> SUFFICES ASSUME crossed' = {}, NEW d \in Phone
               PROVE  /\ \A s \in login'[d].dead : record'[s] = None
                      /\ kill'[d].cut # 0 => record'[kill'[d].cut] = None
    BY DEF DeadInv
  <1>0. crossed = {}
    BY Monotone
  <1>1. \A s \in Minted : record[s] = None => record'[s] = None
    BY <1>0, GoneStaysGone
  <1>2. \A s \in login'[d].dead : record'[s] = None
    <2>1. ASSUME login'[d].dead \subseteq login[d].dead
          PROVE  \A s \in login'[d].dead : record'[s] = None
      BY <1>0, <1>1, <2>1 DEF Types, LoginType, DeadInv
    <2>2. ASSUME NEW e \in Phone, NEW t \in BOOLEAN, SignIn(e, t) \/ TakeOver(e)
          PROVE  login'[d].dead \subseteq login[d].dead
      BY <2>2 DEF SignIn, TakeOver, Types, Listing
    <2>3. ASSUME NEW e \in Phone, NEW s \in Sid, Look(e, s)
          PROVE  \A t \in login'[d].dead : record'[t] = None
      <3>1. PICK l : l.dead = login[e].dead \cup ({s} \ Live) /\ login' = [login EXCEPT ![e] = l]
        BY <2>3, LookMoves
      <3>2. s \in Minted /\ record' = record
        BY <2>3 DEF Look, Types, LoginType
      <3>3. s \notin Live => record[s] = None
        BY DEF Live
      <3>4. login'[d].dead \subseteq login[d].dead \cup ({s} \ Live)
        BY <3>1 DEF Types
      <3>5. \A t \in login[d].dead : record[t] = None
        BY <1>0 DEF DeadInv
      <3> QED BY <3>2, <3>3, <3>4, <3>5
    <2>5. ASSUME NEW e \in Phone, Decide(e) \/ Retire(e)
          PROVE  login'[d].dead = login[d].dead
      <3>1. \A a \in SignInStep : [login[e] EXCEPT !.at = a].dead = login[e].dead
        BY LoginAt
      <3>2. PICK a \in SignInStep : login' = [login EXCEPT ![e].at = a]
        BY <2>5 DEF Decide, Retire, SignInStep
      <3>3. PICK l : l = [login[e] EXCEPT !.at = a]
        OBVIOUS
      <3>4. login' = [login EXCEPT ![e] = l] /\ l.dead = login[e].dead
        BY <3>1, <3>2, <3>3
      <3> QED BY <3>4 DEF Types
    <2>6. ASSUME NEW e \in Phone, Conflict(e) \/ Index(e) \/ Mint(e)
          PROVE  login'[d].dead \subseteq login[d].dead
      BY <2>6 DEF Conflict, Index, Mint, Types, NoLogin, Indexing
    <2> QED BY <2>1, <2>2, <2>3, <2>5, <2>6
            DEF SessionsNext, vars, Refresh, RefreshWrites, RefreshIndexes, SignOut, SignedOut,
                Unindex, Revoke, Lapse, IndexLapses
  <1>3. kill'[d].cut # 0 => record'[kill'[d].cut] = None
    <2>1. ASSUME kill'[d].cut = kill[d].cut
          PROVE  kill'[d].cut # 0 => record'[kill'[d].cut] = None
      BY <1>0, <1>1, <2>1 DEF Types, KillType, DeadInv, Minted
    <2>2. ASSUME NEW e \in Phone, NEW s \in Sid, Revoke(e, s), kill'[d].cut # kill[d].cut
          PROVE  record'[kill'[d].cut] = None
      BY <2>2 DEF Revoke, Types
    <2>3. ASSUME NEW e \in Phone, Unindex(e)
          PROVE  kill'[d].cut \in {0, kill[d].cut}
      BY <2>3 DEF Unindex, Types, KillType
    <2>4. ASSUME NEW e \in Phone, Decide(e) \/ Retire(e) \/ SignOut(e)
          PROVE  kill'[d].cut = kill[d].cut
      <3>1. PICK todo : kill' = [kill EXCEPT ![e].todo = todo]
        BY <2>4 DEF Decide, Retire, SignOut
      <3> QED BY <3>1 DEF Types, KillType
    <2> QED BY <2>1, <2>2, <2>3, <2>4
            DEF SessionsNext, vars, SignIn, Look, Conflict, TakeOver, Mint, Index, Refresh,
                RefreshWrites, RefreshIndexes, SignedOut, Lapse, IndexLapses
  <1> QED BY <1>2, <1>3

\* Only a sign-in makes a session live, as long as nothing is ended under a refresh.
LEMMA OnlyMintMakes ==
  ASSUME Types, OwnersInv, RefreshInv, [SessionsNext]_vars, crossed = {}, NEW s \in Live'
  PROVE  s \in Live \/ \E d \in Phone : Mint(d)
  <1>1. s \in Sid /\ record'[s] # None
    BY DEF Live
  <1>2. s \in Minted \/ s > minted
    BY <1>1, SessionConstants DEF Types, Minted, Sid
  <1>3. CASE s \in Minted
    BY <1>1, <1>3, GoneStaysGone DEF Live
  <1>4. CASE s > minted
    <2>1. record[s] = None
      BY <1>1, <1>4 DEF OwnersInv
    <2>2. ASSUME NEW d \in Phone, RefreshWrites(d) PROVE s # refresh[d].sid
      BY <1>4, <2>2, SessionConstants DEF RefreshWrites, Types, Minted, Sid
    <2>3. ASSUME NEW d \in Phone, RefreshWrites(d) PROVE FALSE
      BY <1>1, <2>1, <2>2, <2>3 DEF RefreshWrites, Types
    <2> QED BY <1>1, <2>1, <2>3
            DEF SessionsNext, vars, SignIn, Look, Decide, Conflict, TakeOver, Retire, Index, Refresh,
                RefreshIndexes, SignOut, SignedOut, Unindex, Revoke, Lapse, IndexLapses, Types
  <1> QED BY <1>2, <1>3, <1>4

\* The index loses a live session only when it lapses, and a new one is on its way in.
LEMMA ReachableKept ==
  ASSUME Types, OwnersInv, RefreshInv, DeadInv, Reachable, [SessionsNext]_vars
  PROVE  Reachable'
  <1> SUFFICES ASSUME crossed' = {}, lapses' = 0, NEW s \in Live'
               PROVE  \/ s \in index'
                      \/ \E d \in Phone : login'[d].at = "index" /\ login'[d].sid = s
    BY DEF Reachable
  <1> DEFINE Coming == \E d \in Phone : login[d].at = "index" /\ login[d].sid = s
             Comes == \E d \in Phone : login'[d].at = "index" /\ login'[d].sid = s
  <1>0. crossed = {} /\ lapses = 0 /\ s \in Sid /\ record'[s] # None
    BY Monotone DEF Live
  <1>1. ASSUME NEW d \in Phone, Mint(d) PROVE s \in index' \/ Comes
    <2>1. login' = [login EXCEPT ![d] = Indexing(minted + 1)]
      BY <1>1 DEF Mint
    <2>2. login'[d].at = "index" /\ login'[d].sid = minted + 1
      BY <2>1 DEF Types, Indexing
    <2>3. CASE s = minted + 1
      BY <2>2, <2>3
    <2>4. CASE s # minted + 1
      <3>1. s \in Live
        BY <1>0, <1>1, <2>4 DEF Mint, Types, Live
      <3>2. \A e \in Phone : login[e].at = "index" => e # d /\ login'[e] = login[e]
        BY <1>1, <2>1 DEF Mint, Types
      <3> QED BY <1>0, <1>1, <3>1, <3>2 DEF Reachable, Mint
    <2> QED BY <2>3, <2>4
  <1>2. s \in Live \/ \E d \in Phone : Mint(d)
    BY <1>0, OnlyMintMakes
  <1>3. CASE s \in Live /\ ~\E d \in Phone : Mint(d)
    <2>1. s \in index \/ Coming
      BY <1>0, <1>3 DEF Reachable
    <2>2. CASE s \in index
      <3>1. ASSUME NEW d \in Phone, Decide(d) \/ Retire(d) PROVE s \notin login[d].dead
        BY <1>0, <1>3 DEF DeadInv, Live
      <3>2. ASSUME NEW d \in Phone, Unindex(d) PROVE s # kill[d].cut
        BY <1>0, <1>3, <3>2 DEF DeadInv, Live, Unindex
      <3>3. ~IndexLapses
        BY <1>0 DEF IndexLapses, Types
      <3> QED BY <1>3, <2>2, <3>1, <3>2, <3>3
              DEF SessionsNext, vars, SignIn, Look, Decide, Conflict, TakeOver, Retire, Index, Refresh,
                  RefreshWrites, RefreshIndexes, SignOut, SignedOut, Unindex, Revoke, Lapse
    <2>3. CASE Coming
      <3>1. PICK d \in Phone : login[d].at = "index" /\ login[d].sid = s
        BY <2>3
      <3>2. CASE Index(d)
        BY <3>1, <3>2 DEF Index
      <3>3. ASSUME NEW e \in Phone,
                   \/ \E t \in BOOLEAN : SignIn(e, t)
                   \/ Decide(e) \/ Conflict(e) \/ TakeOver(e) \/ Retire(e)
                   \/ Index(e) /\ e # d
            PROVE  login'[d] = login[d]
        <4>1. e # d
          BY <3>1, <3>3 DEF SignIn, Idle, NoLogin, Decide, Conflict, TakeOver, Retire
        <4>2. PICK l : login' = [login EXCEPT ![e] = l]
          BY <3>3 DEF SignIn, Decide, Conflict, TakeOver, Retire, Index
        <4> QED BY <4>1, <4>2 DEF Types
      <3>4. \/ login' = login
            \/ \E e \in Phone : \E t \in BOOLEAN : SignIn(e, t)
            \/ \E e \in Phone : Decide(e) \/ Conflict(e) \/ TakeOver(e) \/ Retire(e) \/ Index(e)
            \/ \E e \in Phone : \E t \in Sid : Look(e, t)
        BY <1>3
           DEF SessionsNext, vars, Refresh, RefreshWrites, RefreshIndexes, SignOut, SignedOut,
               Unindex, Revoke, Lapse, IndexLapses
      <3>5. \/ Index(d) \/ login'[d] = login[d]
            \/ login'[d].at = login[d].at /\ login'[d].sid = login[d].sid
        <4>1. CASE login' = login
          BY <4>1
        <4>2. ASSUME NEW e \in Phone, NEW t \in BOOLEAN, SignIn(e, t)
              PROVE  login'[d] = login[d]
          BY <3>3, <4>2, Zenon
        <4>3. ASSUME NEW e \in Phone, Decide(e) \/ Conflict(e) \/ TakeOver(e) \/ Retire(e) \/ Index(e)
              PROVE  Index(d) \/ login'[d] = login[d]
          BY <3>3, <4>3
        <4>4. ASSUME NEW e \in Phone, NEW t \in Sid, Look(e, t)
              PROVE  login'[d].at = login[d].at /\ login'[d].sid = login[d].sid
          <5>1. PICK l : /\ l.at = login[e].at /\ l.sid = login[e].sid
                         /\ login' = [login EXCEPT ![e] = l]
            BY <4>4, LookMoves
          <5> QED BY <5>1 DEF Types
        <4> QED BY <3>4, <4>1, <4>2, <4>3, <4>4, Zenon
      <3> QED BY <3>1, <3>2, <3>5
    <2> QED BY <2>1, <2>2, <2>3
  <1> QED BY <1>1, <1>2, <1>3

\* A sign-in that is alone: it lists, decides, takes over and mints with no other
\* sign-in between, while sign-outs, lapses and refreshes only take sessions away.
LEMMA AloneKept ==
  ASSUME Types, OwnersInv, RefreshInv, Reachable, AloneInv, [SessionsNext]_vars
  PROVE  AloneInv'
  <1> SUFFICES ASSUME ~overlapped', crossed' = {}, lapses' = 0
               PROVE  /\ \A s, t \in Live' : s = t
                      /\ \A d, e \in Busy' : d = e
                      /\ \A d \in Phone :
                           /\ login'[d].at \in {"decide", "retire"} => Live' \subseteq login'[d].live \cup login'[d].ids
                           /\ login'[d].at = "mint" => Live' \subseteq kill'[d].todo
    BY DEF AloneInv
  <1> DEFINE One == \A s, t \in Live' : s = t
             Alone == \A d, e \in Busy' : d = e
             ListsAll(d) == login'[d].at \in {"decide", "retire"} => Live' \subseteq login'[d].live \cup login'[d].ids
             Minting(d) == login'[d].at = "mint" => Live' \subseteq kill'[d].todo
  <1>1. ~overlapped /\ crossed = {} /\ lapses = 0
    <2>1. ~overlapped
      BY DEF SessionsNext, vars, SignIn, Look, Decide, Conflict, TakeOver, Retire, Mint, Index, Refresh,
             RefreshWrites, RefreshIndexes, SignOut, SignedOut, Unindex, Revoke, Lapse, IndexLapses
    <2> QED BY <2>1, Monotone
  <1>2. /\ \A s, t \in Live : s = t
        /\ \A d, e \in Busy : d = e
        /\ \A d \in Phone : /\ login[d].at \in {"decide", "retire"} =>
                                 Live \subseteq login[d].live \cup login[d].ids
                            /\ login[d].at = "mint" => Live \subseteq kill[d].todo
    BY <1>1 DEF AloneInv
  <1>3. (~\E d \in Phone : Mint(d)) => Live' \subseteq Live
    BY <1>1, OnlyMintMakes
  <1>4. \A d \in Phone : login[d].at # "idle" => d \in Busy
    BY DEF Busy, NoLogin
  <1>5. \A d \in Busy : login[d].at # "index" => Live \subseteq index
    BY <1>1, <1>2, <1>4 DEF Reachable
  <1>6. Busy = {} => Live \subseteq index
    BY <1>1, <1>4 DEF Reachable
  <1>10. ASSUME NEW d \in Phone, NEW t \in BOOLEAN, SignIn(d, t)
         PROVE  One /\ Alone /\ \A e \in Phone : ListsAll(e) /\ Minting(e)
    <2>1. Busy = {} /\ Live' = Live
      BY <1>10 DEF SignIn, Live
    <2>2. PICK l : /\ l.at = "decide" /\ l.ids = index
                   /\ login' = [login EXCEPT ![d] = l]
      BY <1>10 DEF SignIn, Listing
    <2>3. login'[d] = l /\ \A e \in Phone \ {d} : login'[e] = NoLogin
      BY <2>1, <2>2 DEF Types, Busy
    <2>4. Busy' \subseteq {d}
      BY <2>3 DEF Busy
    <2>5. \A e \in Phone : ListsAll(e) /\ Minting(e)
      BY <1>6, <2>1, <2>2, <2>3 DEF NoLogin
    <2> QED BY <1>2, <2>1, <2>4, <2>5
  <1>11. ASSUME NEW d \in Phone, Decide(d)
         PROVE  One /\ Alone /\ \A e \in Phone : ListsAll(e) /\ Minting(e)
    <2> DEFINE a == IF login[d].live \ login[d].mine = {} THEN "mint"
                      ELSE IF login[d].takeover THEN "again" ELSE "conflict"
    <2>1. PICK l : l = [login[d] EXCEPT !.at = a]
      OBVIOUS
    <2>2. l.at = a /\ login' = [login EXCEPT ![d] = l]
      BY <1>11, <2>1, LoginAt DEF Decide
    <2>3. kill'[d].todo = login[d].mine
      BY <1>11 DEF Decide, Types, KillType
    <2>4. Live' = Live /\ login[d].at = "decide"
      BY <1>11 DEF Decide, Live
    <2>5. login'[d] = l /\ \A e \in Phone \ {d} : login'[e] = login[e] /\ login[e] = NoLogin
      BY <1>2, <1>4, <2>2, <2>4 DEF Types, Busy
    <2>6. Busy' \subseteq {d}
      BY <2>5 DEF Busy
    <2>7. Live \subseteq login[d].live
      BY <1>2, <1>11, <2>4 DEF Decide
    <2>8. \A e \in Phone : ListsAll(e) /\ Minting(e)
      BY <2>2, <2>3, <2>4, <2>5, <2>7 DEF NoLogin
    <2> QED BY <1>2, <2>4, <2>6, <2>8
  <1>12. ASSUME NEW d \in Phone, Conflict(d) \/ Index(d)
         PROVE  One /\ Alone /\ \A e \in Phone : ListsAll(e) /\ Minting(e)
    <2>1. login' = [login EXCEPT ![d] = NoLogin] /\ Live' = Live /\ d \in Busy
      BY <1>4, <1>12 DEF Conflict, Index, Live
    <2>2. \A e \in Phone : login'[e] = NoLogin
      BY <1>2, <2>1 DEF Types, Busy
    <2>3. Busy' = {}
      BY <2>2 DEF Busy
    <2> QED BY <1>2, <2>1, <2>2, <2>3 DEF NoLogin
  <1>13. ASSUME NEW d \in Phone, TakeOver(d)
         PROVE  One /\ Alone /\ \A e \in Phone : ListsAll(e) /\ Minting(e)
    <2>1. PICK l : /\ l.at = "retire" /\ l.ids = index
                   /\ login' = [login EXCEPT ![d] = l]
      BY <1>13 DEF TakeOver, Listing
    <2>2. Live' = Live /\ login[d].at = "again" /\ d \in Busy
      BY <1>4, <1>13 DEF TakeOver, Live
    <2>3. login'[d] = l /\ \A e \in Phone \ {d} : login'[e] = NoLogin
      BY <1>2, <2>1, <2>2 DEF Types, Busy
    <2>4. Busy' \subseteq {d}
      BY <2>3 DEF Busy
    <2>5. Live \subseteq index
      BY <1>5, <2>2
    <2>6. \A e \in Phone : ListsAll(e) /\ Minting(e)
      BY <2>1, <2>2, <2>3, <2>5 DEF NoLogin
    <2> QED BY <1>2, <2>2, <2>4, <2>6
  <1>13a. ASSUME NEW d \in Phone, Retire(d)
         PROVE  One /\ Alone /\ \A e \in Phone : ListsAll(e) /\ Minting(e)
    <2>1. PICK l : l.at = "mint" /\ login' = [login EXCEPT ![d] = l]
      BY <1>13a, LoginAt DEF Retire, SignInStep
    <2>2. kill'[d].todo = login[d].live
      BY <1>13a DEF Retire, Types, KillType
    <2>3. Live' = Live /\ login[d].at = "retire" /\ d \in Busy
      BY <1>4, <1>13a DEF Retire, Live
    <2>4. login'[d] = l /\ \A e \in Phone \ {d} : login'[e] = NoLogin
      BY <1>2, <2>1, <2>3 DEF Types, Busy
    <2>5. Busy' \subseteq {d}
      BY <2>4 DEF Busy
    <2>6. Live \subseteq login[d].live
      BY <1>2, <1>13a, <2>3 DEF Retire
    <2>7. \A e \in Phone : ListsAll(e) /\ Minting(e)
      BY <2>1, <2>2, <2>3, <2>4, <2>6 DEF NoLogin
    <2> QED BY <1>2, <2>3, <2>5, <2>7
  <1>13b. ASSUME NEW d \in Phone, NEW s \in Sid, Look(d, s)
         PROVE  One /\ Alone /\ \A e \in Phone : ListsAll(e) /\ Minting(e)
    <2>1. PICK l : /\ l.at = login[d].at /\ l.ids = login[d].ids \ {s}
                   /\ l.live = login[d].live \cup ({s} \cap Live)
                   /\ login' = [login EXCEPT ![d] = l]
      BY <1>13b, LookMoves
    <2>2. Live' = Live /\ kill' = kill /\ d \in Busy
      BY <1>13b DEF Look, Live, Busy, NoLogin
    <2>3. login'[d] = l /\ \A e \in Phone \ {d} : login'[e] = NoLogin
      BY <1>2, <2>1, <2>2 DEF Types, Busy
    <2>4. Busy' \subseteq {d}
      BY <2>3 DEF Busy
    <2>5. \A e \in Phone : ListsAll(e) /\ Minting(e)
      BY <1>2, <2>1, <2>2, <2>3 DEF NoLogin
    <2> QED BY <1>2, <2>2, <2>4, <2>5
  <1>14. ASSUME NEW d \in Phone, Mint(d)
         PROVE  One /\ Alone /\ \A e \in Phone : ListsAll(e) /\ Minting(e)
    <2>1. PICK l : l.at = "index" /\ login' = [login EXCEPT ![d] = l]
      BY <1>14 DEF Mint, Indexing
    <2>2. login[d].at = "mint" /\ d \in Busy /\ kill[d].todo = {}
      BY <1>4, <1>14 DEF Mint, NoKill
    <2>3. Live = {}
      BY <1>2, <2>2
    <2>4. Live' \subseteq {minted + 1}
      BY <1>14, <2>3 DEF Mint, Live, Types
    <2>5. login'[d] = l /\ \A e \in Phone \ {d} : login'[e] = NoLogin
      BY <1>2, <2>1, <2>2 DEF Types, Busy
    <2>6. Busy' \subseteq {d}
      BY <2>5 DEF Busy
    <2>7. \A e \in Phone : ListsAll(e) /\ Minting(e)
      BY <2>1, <2>5 DEF NoLogin
    <2> QED BY <2>4, <2>6, <2>7
  <1>15. ASSUME NEW d \in Phone, NEW s \in Sid, Revoke(d, s)
         PROVE  One /\ Alone /\ \A e \in Phone : ListsAll(e) /\ Minting(e)
    <2>1. Live' \subseteq Live \ {s} /\ login' = login
      BY <1>15 DEF Revoke, Live, Types
    <2>2. \A e \in Phone : kill[e].todo \ {s} \subseteq kill'[e].todo
      BY <1>15 DEF Revoke, Types
    <2>3. Busy' = Busy
      BY <2>1 DEF Busy
    <2> QED BY <1>2, <2>1, <2>2, <2>3
  <1>16. ASSUME NEW d \in Phone, SignOut(d) \/ Unindex(d)
         PROVE  One /\ Alone /\ \A e \in Phone : ListsAll(e) /\ Minting(e)
    <2>1. login' = login /\ Live' = Live
      BY <1>16 DEF SignOut, Unindex, Live
    <2>2. \A e \in Phone : login[e].at = "mint" => kill'[e].todo = kill[e].todo
      <3>1. CASE SignOut(d)
        <4>1. login[d].at # "mint"
          BY <3>1 DEF SignOut, Idle, NoLogin
        <4>2. PICK k : kill' = [kill EXCEPT ![d] = k]
          BY <3>1 DEF SignOut
        <4> QED BY <4>1, <4>2 DEF Types
      <3>2. CASE Unindex(d)
        BY <3>2 DEF Unindex, Types, KillType
      <3> QED BY <1>16, <3>1, <3>2
    <2>3. Busy' = Busy
      BY <2>1 DEF Busy
    <2> QED BY <1>2, <2>1, <2>2, <2>3
  <1>17. ASSUME UNCHANGED <<login, kill>>, Live' \subseteq Live
         PROVE  One /\ Alone /\ \A e \in Phone : ListsAll(e) /\ Minting(e)
    <2>1. Busy' = Busy
      BY <1>17 DEF Busy
    <2> QED BY <1>2, <1>17, <2>1
  <1>18. UNCHANGED <<login, kill>> => ~\E d \in Phone : Mint(d)
    BY DEF Mint, Indexing, Types
  <1>19. \/ UNCHANGED <<login, kill>>
         \/ \E d \in Phone : \E t \in BOOLEAN : SignIn(d, t)
         \/ \E d \in Phone : \/ Decide(d) \/ Conflict(d) \/ Index(d) \/ TakeOver(d) \/ Retire(d)
                            \/ Mint(d) \/ SignOut(d) \/ Unindex(d)
                            \/ \E s \in Sid : Look(d, s) \/ Revoke(d, s)
    BY DEF SessionsNext, vars, Refresh, RefreshWrites, RefreshIndexes, SignedOut, Lapse,
           IndexLapses
  <1>20. One /\ Alone /\ \A e \in Phone : ListsAll(e) /\ Minting(e)
    <2>1. CASE UNCHANGED <<login, kill>>
      BY <1>3, <1>17, <1>18, <2>1
    <2> QED BY <1>10, <1>11, <1>12, <1>13, <1>14, <1>15, <1>16, <1>19, <1>13a, <1>13b, <2>1
  <1> QED BY <1>20

-----------------------------------------------------------------------------
\* No session, no refresh, nothing listed: the account as it starts.
LEMMA InitSessions == SessionsInit => SessionsInv
  <1> SUFFICES ASSUME SessionsInit PROVE SessionsInv
    OBVIOUS
  <1>1. Live = {} /\ Busy = {}
    BY DEF SessionsInit, Live, Busy
  <1>2. \A d \in Phone : /\ login[d].at = "idle" /\ login[d].dead = {}
                        /\ kill[d].cut = 0 /\ refresh[d].at = "idle"
    BY DEF SessionsInit, NoLogin, NoKill, NoRefresh
  <1>3. RefreshInv /\ EndedStaysEnded /\ DeadInv /\ Reachable /\ AloneInv
    BY <1>1, <1>2 DEF SessionsInit, RefreshInv, EndedStaysEnded, DeadInv, Reachable, AloneInv
  <1> QED BY <1>3, InitTypes, InitOwners DEF SessionsInv

\* All of the invariant, in every state: the records, the index and the requests under
\* way as a crash-free interleaving of sign-ins, refreshes, sign-outs and lapses
\* leaves them.
THEOREM SessionsInvHolds == SessionsSpec => []SessionsInv
  <1>1. SessionsInit => SessionsInv
    BY InitSessions
  <1>2. SessionsInv /\ [SessionsNext]_vars => SessionsInv'
    BY TypesKept, OwnersKept, TodoKept, RefreshKept, DeadKept, ReachableKept, AloneKept
       DEF SessionsInv
  <1> QED BY <1>1, <1>2, PTL DEF SessionsSpec

\* The store and the requests keep their shapes: what names a session names one that was
\* minted, and so one within the bound.
THEOREM TypeOKHolds == SessionsSpec => []TypeOK
  <1>1. Types => TypeOK
    <2> SUFFICES ASSUME Types PROVE TypeOK
      OBVIOUS
    <2>1. Minted \subseteq Sid /\ 0..minted \subseteq 0..MaxSessions
      BY SessionConstants DEF Types, Minted, Sid
    <2>2. /\ LoginType \subseteq
               [at : SignInStep,
                takeover : BOOLEAN, ids : SUBSET Sid, live : SUBSET Sid,
                dead : SUBSET Sid, mine : SUBSET Sid, sid : 0..MaxSessions]
          /\ KillType \subseteq [todo : SUBSET Sid, cut : 0..MaxSessions]
          /\ RefreshType \subseteq [at : {"idle", "write", "index"}, sid : 0..MaxSessions]
      BY <2>1 DEF LoginType, KillType, RefreshType
    <2> QED BY <2>1, <2>2 DEF Types, TypeOK
  <1>2. SessionsInv => Types
    BY DEF SessionsInv
  <1> QED BY <1>1, <1>2, SessionsInvHolds, PTL

\* revokeSession and refreshSession (sessionStore.ts): a session that was signed out or
\* taken over never lives again, unless a refresh had it in hand when it was ended.
THEOREM EndedStaysEndedHolds == SessionsSpec => []EndedStaysEnded
  <1>1. SessionsInv => EndedStaysEnded
    BY DEF SessionsInv
  <1> QED BY <1>1, SessionsInvHolds, PTL

\* The takeover gate (deviceTakeoverGate.ts): sign-ins that follow one another leave one
\* session at most, whatever revokes, lapses and refreshes fall between their calls.
THEOREM OnePhoneHolds == SessionsSpec => []OnePhone
  <1>1. SessionsInv => OnePhone
    BY DEF SessionsInv, AloneInv, OnePhone
  <1> QED BY <1>1, SessionsInvHolds, PTL

\* liveDeviceSessions (sessionStore.ts): a live session is in the index once its sign-in
\* has ended, also when sign-ins overlap and one prunes what the other is writing.
THEOREM SeenByGateHolds == SessionsSpec => []SeenByGate
  <1>1. SessionsInv => SeenByGate
    BY DEF SessionsInv, Reachable, SeenByGate, Quiet, Busy, NoLogin
  <1> QED BY <1>1, SessionsInvHolds, PTL

\* revokeDeviceSessions (sessionStore.ts): a step that ends a session ends one of the
\* phone that takes it, or of another phone its person had been told of.
THEOREM NoSilentTakeoverHolds == SessionsSpec => NoSilentTakeover
  <1> DEFINE Told == \A s \in ended' \ ended :
                       \A d \in Phone : s \in kill[d].todo /\ s \notin kill'[d].todo =>
                         owner[s] = d \/ d \in told
  <1>1. SessionsInv /\ [SessionsNext]_vars => [Told]_vars
    BY DEF SessionsInv, TodoInv
  <1> QED BY <1>1, SessionsInvHolds, PTL DEF SessionsSpec, NoSilentTakeover

-----------------------------------------------------------------------------
(***************************************************************************)
(* One CLI login.  HandsInv is all that NoOrphanSession needs: a live      *)
(* session is still in the hands of the poll that issued it, or that poll  *)
(* was given it.  It holds through every lapse, fault and cancellation.    *)
(* AnswerIsLive needs the lock: as long as it holds, one poll is inside,   *)
(* its copy is what is stored (CopyInv), and the session it has in flight  *)
(* is not in the record yet, so no other poll has been given it.           *)
(***************************************************************************)
Call == [at : Step, role : Role, rec : RecordData]

\* The steps between a session's creation and its save, and the ones on which a poll's
\* copy is what is stored.
InFlight == {"created", "save", "saving"}
Synced == {"approve", "approving", "verify", "identify", "identifying", "ready", "create",
           "final"}
Locked == InFlight \cup Synced \cup {"reload", "release"}
Done == {"release", "ended"}

LoginTyped == LoginTypeOK /\ lockLapses \in Nat /\ faults \in Nat

\* A live session is in the hands of the poll that issued it, or that poll was given it.
HandsInv ==
  \A p \in Poll :
    /\ p \in live => given[p] = p \/ (Issued(p) /\ call[p].at \in InFlight \cup {"final"})
    /\ given[p] # NoPoll => call[p].at \in Done
    /\ call[p].at \in InFlight => Issued(p)
    /\ call[p].at = "create" => Mine(p) = NoPoll

CancelInv == \A c \in Canceller : cancel[c].at = "revoke" => flag

Calm == lockLapses = 0 /\ faults = 0

OneInside == \A p \in Poll : call[p].at \in Locked => lock = p

CopyInv ==
  \A p \in Poll :
    /\ call[p].at \in Synced => call[p].rec = stored
    /\ call[p].at \in InFlight =>
         /\ p \in live \/ flag
         /\ stored.token[call[p].role] = NoPoll
         /\ \A r \in Role \ {call[p].role} : call[p].rec.token[r] = stored.token[r]

TokenInv ==
  \A r \in Role : stored.token[r] # NoPoll =>
    /\ call[stored.token[r]].role = r
    /\ call[stored.token[r]].at \in Done \cup {"final"}
    /\ flag \/ gone \/ stored.token[r] \in live

GivenInv ==
  \A p \in Poll : given[p] # NoPoll =>
    /\ call[given[p]].at \in Done
    /\ flag \/ given[p] \in live

LiveInv ==
  \A s \in live : call[s].at \in InFlight \/ stored.token[call[s].role] = s

\* What a poll has read before it has the lock is behind what is stored, so that reading
\* it again gives all there is; and only the step that is saved next differs.
Before == {"lock", "reload"}
SeenInv ==
  \A p \in Poll :
    /\ call[p].at \in Before =>
         /\ call[p].rec.identity => stored.identity
         /\ \A r \in Role : call[p].rec.token[r] \in {NoPoll, stored.token[r]}
    /\ call[p].at \in InFlight => call[p].rec.identity = stored.identity

CalmInv == Calm => OneInside /\ CopyInv /\ TokenInv /\ GivenInv /\ LiveInv

LoginInv == LoginTyped /\ HandsInv /\ CancelInv /\ CalmInv

-----------------------------------------------------------------------------
LEMMA InitLoginInv == LoginInit => LoginInv
  <1> SUFFICES ASSUME LoginInit PROVE LoginInv
    OBVIOUS
  <1>1. /\ Started \in RecordData /\ \A r \in Role : Started.token[r] = NoPoll
        /\ stored \in RecordData /\ stored.token = Started.token
    BY DEF LoginInit, Started, RecordData
  <1>2. /\ call \in [Poll -> Call] /\ \A p \in Poll : call[p].at = "idle"
    BY <1>1 DEF LoginInit, Call, Step
  <1>3. LoginTyped
    BY <1>1, <1>2 DEF LoginInit, LoginTyped, LoginTypeOK, Call
  <1>4. HandsInv /\ CancelInv
    BY <1>2 DEF LoginInit, HandsInv, CancelInv, InFlight
  <1>5. OneInside /\ CopyInv /\ TokenInv /\ GivenInv /\ LiveInv
    BY <1>1, <1>2 DEF LoginInit, OneInside, CopyInv, TokenInv, GivenInv, LiveInv, Locked,
       InFlight, Synced
  <1> QED BY <1>3, <1>4, <1>5 DEF LoginInv, CalmInv

\* A poll moves alone, and stays of its role.
LEMMA GoMoves ==
  ASSUME LoginTyped, NEW p \in Poll, NEW step \in Step, Go(p, step)
  PROVE  /\ call' \in [Poll -> Call]
         /\ call'[p].at = step /\ call'[p].role = call[p].role /\ call'[p].rec = call[p].rec
         /\ \A q \in Poll \ {p} : call'[q] = call[q]
  BY DEF Go, LoginTyped, LoginTypeOK, Call

LEMMA LoadMoves ==
  ASSUME LoginTyped, NEW p \in Poll, NEW step \in Step, NEW rec \in RecordData,
         Load(p, step, rec)
  PROVE  /\ call' \in [Poll -> Call]
         /\ call'[p].at = step /\ call'[p].role = call[p].role /\ call'[p].rec = rec
         /\ \A q \in Poll \ {p} : call'[q] = call[q]
  BY DEF Load, LoginTyped, LoginTypeOK, Call

\* What is common to the steps of one poll.
Moves(p) ==
  /\ call' \in [Poll -> Call]
  /\ call'[p].role = call[p].role
  /\ \A q \in Poll \ {p} : call'[q] = call[q]
  /\ UNCHANGED <<gone, flag, cancel, lockLapses>>

\* A step that walks on: the poll reads, checks, or gives up with no session issued.
Walks(p) ==
  /\ Moves(p)
  /\ UNCHANGED <<stored, live, given, faults>>
  /\ lock' \in Poll \cup {NoPoll}
  /\ call[p].at \in InFlight => call'[p].at \in InFlight /\ call'[p].rec = call[p].rec
  /\ call'[p].at \in InFlight => call[p].at \in InFlight
  /\ call'[p].at = "create" => Mine(p)' = NoPoll
  /\ call[p].at = "final" => call'[p].at = "release" /\ ~Issued(p)
  /\ call[p].at \in Done => call'[p].at \in Done
  /\ Calm => /\ OneInside'
             /\ call'[p].at \in Synced => call'[p].rec = stored

LEMMA WalkKeeps ==
  ASSUME LoginInv, NEW p \in Poll, Walks(p)
  PROVE  LoginInv'
  <1> USE DEF Walks, Moves
  <1>1. LoginTyped'
    BY DEF LoginInv, LoginTyped, LoginTypeOK, Call
  <1>2. HandsInv'
    <2> SUFFICES ASSUME NEW q \in Poll
                 PROVE  /\ q \in live => given[q] = q
                             \/ (Issued(q)' /\ call'[q].at \in InFlight \cup {"final"})
                        /\ given[q] # NoPoll => call'[q].at \in Done
                        /\ call'[q].at \in InFlight => Issued(q)'
                        /\ call'[q].at = "create" => Mine(q)' = NoPoll
      BY DEF HandsInv
    <2>1. CASE q = p
      BY <2>1 DEF LoginInv, HandsInv, Issued, Mine, Done
    <2>2. CASE q # p
      BY <2>2 DEF LoginInv, HandsInv, Issued, Mine
    <2> QED BY <2>1, <2>2
  <1>3. CancelInv'
    BY DEF LoginInv, CancelInv
  <1>4. ASSUME Calm PROVE CopyInv' /\ TokenInv' /\ GivenInv' /\ LiveInv'
    <2>0. CopyInv /\ TokenInv /\ GivenInv /\ LiveInv /\ LoginTypeOK
      BY <1>4 DEF LoginInv, CalmInv, LoginTyped
    <2>1. CopyInv'
      <3> SUFFICES ASSUME NEW q \in Poll
                   PROVE  /\ call'[q].at \in Synced => call'[q].rec = stored
                          /\ call'[q].at \in InFlight =>
                               /\ q \in live \/ flag
                               /\ stored.token[call'[q].role] = NoPoll
                               /\ \A r \in Role \ {call'[q].role} :
                                    call'[q].rec.token[r] = stored.token[r]
        BY DEF CopyInv
      <3>1. CASE q = p
        BY <1>4, <2>0, <3>1 DEF CopyInv
      <3>2. CASE q # p
        BY <2>0, <3>2 DEF CopyInv
      <3> QED BY <3>1, <3>2
    <2>2. \A q \in Poll : /\ call'[q].role = call[q].role
                          /\ call[q].at \in Done => call'[q].at \in Done
                          /\ call[q].at \in Done \cup {"final"} => call'[q].at \in Done \cup {"final"}
                          /\ call[q].at \in InFlight => call'[q].at \in InFlight
      BY DEF Done
    <2>3. \A r \in Role : stored.token[r] \in Poll \cup {NoPoll}
      BY <2>0 DEF LoginTypeOK, RecordData
    <2>4. TokenInv'
      BY <2>0, <2>2, <2>3 DEF TokenInv
    <2>5. \A q \in Poll : given[q] \in Poll \cup {NoPoll}
      BY <2>0 DEF LoginTypeOK
    <2>6. GivenInv'
      BY <2>0, <2>2, <2>5 DEF GivenInv
    <2>7. LiveInv'
      BY <2>0, <2>2 DEF LiveInv, LoginTypeOK
    <2> QED BY <2>1, <2>4, <2>6, <2>7
  <1> QED BY <1>1, <1>2, <1>3, <1>4 DEF LoginInv, CalmInv, Calm

\* Who is inside stays the only one, when nobody enters or leaves.
LEMMA OneStays ==
  ASSUME OneInside, NEW p \in Poll, Moves(p), UNCHANGED lock,
         call'[p].at \in Locked => call[p].at \in Locked
  PROVE  OneInside'
  BY DEF OneInside, Moves

\* The record that is stored takes a poll of either role to a step of the list.
LEMMA NextStepTyped ==
  ASSUME NEW role \in Role, NEW rec \in RecordData
  PROVE  NextStep(role, rec) \in {"approve", "release", "verify", "ready"}
  BY DEF NextStep, Role, RecordData

LEMMA MergedTyped ==
  ASSUME NEW copy \in RecordData, NEW fresh \in RecordData
  PROVE  Merged(copy, fresh) \in RecordData
  BY DEF Merged, RecordData

\* A copy that is behind adds nothing to what is read again.
LEMMA MergedIsStored ==
  ASSUME NEW copy \in RecordData, NEW fresh \in RecordData,
         copy.identity => fresh.identity,
         \A r \in Role : copy.token[r] \in {NoPoll, fresh.token[r]}
  PROVE  Merged(copy, fresh) = fresh
  <1>1. (copy.identity \/ fresh.identity) = fresh.identity
    BY DEF RecordData
  <1>2. \A r \in Role :
          (IF fresh.token[r] = NoPoll THEN copy.token[r] ELSE fresh.token[r]) = fresh.token[r]
    OBVIOUS
  <1>3. [r \in Role |-> IF fresh.token[r] = NoPoll THEN copy.token[r] ELSE fresh.token[r]]
          = fresh.token
    <2>1. fresh.token \in [Role -> Poll \cup {NoPoll}]
      BY DEF RecordData
    <2> QED BY <1>2, <2>1
  <1>4. fresh = [approved |-> fresh.approved, identity |-> fresh.identity, token |-> fresh.token]
    BY DEF RecordData
  <1> QED BY <1>1, <1>3, <1>4 DEF Merged

\* A poll that has issued no session, or has just read the record, walks.
LEMMA WalkSteps ==
  ASSUME LoginInv, Calm => SeenInv, NEW p \in Poll,
         \/ Begin(p) \/ TakeLock(p) \/ Reload(p) \/ Verify(p) \/ Release(p)
         \/ Pass(p, "ready", IF Mine(p) = NoPoll THEN "create" ELSE "final")
         \/ Pass(p, "approve", "approving") \/ Pass(p, "identify", "identifying")
         \/ Pass(p, "created", "save") \/ Pass(p, "save", "saving")
  PROVE  Walks(p)
  <1>0. LoginTyped /\ HandsInv
    BY DEF LoginInv
  <1>1. Calm => OneInside /\ CopyInv
    BY DEF LoginInv, CalmInv
  <1>2. CASE Begin(p)
    <2>1. PICK step \in {"lock", "ended"} :
            /\ Load(p, step, stored) /\ call[p].at = "idle"
            /\ UNCHANGED <<stored, gone, flag, lock, live, given, cancel, lockLapses, faults>>
      BY <1>2 DEF Begin
    <2>2. Moves(p) /\ call'[p].at = step
      BY <1>0, <2>1, LoadMoves DEF Moves, Step, LoginTyped, LoginTypeOK
    <2>3. Calm => OneInside'
      BY <1>1, <2>1, <2>2, OneStays DEF Locked, InFlight, Synced
    <2> QED BY <1>0, <2>1, <2>2, <2>3 DEF Walks, InFlight, Synced, Done, LoginTyped, LoginTypeOK
  <1>3. CASE TakeLock(p)
    <2>1. PICK step \in {"reload", "ended"} :
            /\ Go(p, step) /\ call[p].at = "lock"
            /\ step = "reload" => lock = NoPoll /\ lock' = p
            /\ step = "ended" => lock' = lock
            /\ UNCHANGED <<stored, gone, flag, live, given, cancel, lockLapses, faults>>
      BY <1>3 DEF TakeLock
    <2>2. Moves(p) /\ call'[p].at = step
      BY <1>0, <2>1, GoMoves DEF Moves, Step
    <2>3. Calm => OneInside'
      BY <1>1, <2>1, <2>2, NoPollIsNone DEF OneInside, Moves, Locked, InFlight, Synced
    <2> QED BY <1>0, <2>1, <2>2, <2>3 DEF Walks, InFlight, Synced, Done, LoginTyped, LoginTypeOK
  <1>4. CASE Reload(p)
    <2> DEFINE rec == Merged(call[p].rec, stored)
    <2>0. rec \in RecordData
      BY <1>0, MergedTyped DEF LoginTyped, LoginTypeOK
    <2>1. PICK step \in {"approve", "release", "verify", "ready"} :
            /\ Load(p, step, rec) /\ call[p].at = "reload"
            /\ UNCHANGED <<stored, gone, flag, lock, live, given, cancel, lockLapses, faults>>
      <3>1. NextStep(call[p].role, rec) \in {"approve", "release", "verify", "ready"}
        BY <1>0, <2>0, NextStepTyped DEF LoginTyped, LoginTypeOK
      <3> QED BY <1>4, <3>1 DEF Reload
    <2>2. Moves(p) /\ call'[p].at = step /\ call'[p].rec = rec
      BY <1>0, <2>0, <2>1, LoadMoves DEF Moves, Step
    <2>3. Calm => OneInside'
      BY <1>1, <2>1, <2>2, OneStays DEF Locked, InFlight, Synced
    <2>4. Calm => rec = stored
      BY <1>0, <2>1, MergedIsStored DEF SeenInv, Before, LoginTyped, LoginTypeOK
    <2> HIDE DEF rec
    <2> QED BY <1>0, <2>1, <2>2, <2>3, <2>4
            DEF Walks, InFlight, Synced, Done, LoginTyped, LoginTypeOK
  <1>5. CASE Verify(p)
    <2>1. PICK step \in {"identify", "release"} :
            /\ Go(p, step) /\ call[p].at = "verify"
            /\ UNCHANGED <<stored, gone, flag, lock, live, given, cancel, lockLapses, faults>>
      BY <1>5 DEF Verify
    <2>2. Moves(p) /\ call'[p].at = step /\ call'[p].rec = call[p].rec
      BY <1>0, <2>1, GoMoves DEF Moves, Step
    <2>3. Calm => OneInside'
      BY <1>1, <2>1, <2>2, OneStays DEF Locked, InFlight, Synced
    <2>4. Calm /\ step \in Synced => call'[p].rec = stored
      BY <1>1, <2>1, <2>2 DEF CopyInv, Synced
    <2> QED BY <1>0, <2>1, <2>2, <2>3, <2>4
            DEF Walks, InFlight, Synced, Done, LoginTyped, LoginTypeOK
  <1>6. CASE Release(p)
    <2>1. /\ Go(p, "ended") /\ call[p].at = "release"
          /\ lock' = IF lock = p THEN NoPoll ELSE lock
          /\ UNCHANGED <<stored, gone, flag, live, given, cancel, lockLapses, faults>>
      BY <1>6 DEF Release
    <2>2. Moves(p) /\ call'[p].at = "ended"
      BY <1>0, <2>1, GoMoves DEF Moves, Step
    <2>3. Calm => OneInside'
      BY <1>1, <2>1, <2>2 DEF OneInside, Moves, Locked, InFlight, Synced
    <2> QED BY <1>0, <2>1, <2>2, <2>3 DEF Walks, InFlight, Synced, Done, LoginTyped, LoginTypeOK
  <1>7. ASSUME NEW at, NEW step, Pass(p, at, step),
               <<at, step>> \in {<<"ready", "create">>, <<"ready", "final">>,
                                 <<"approve", "approving">>, <<"identify", "identifying">>,
                                 <<"created", "save">>, <<"save", "saving">>},
               step = "create" => Mine(p) = NoPoll
        PROVE  Walks(p)
    <2>1. /\ Go(p, step) /\ call[p].at = at /\ step \in Step
          /\ UNCHANGED <<stored, gone, flag, lock, live, given, cancel, lockLapses, faults>>
      BY <1>7 DEF Pass, Step
    <2>2. Moves(p) /\ call'[p].at = step /\ call'[p].rec = call[p].rec
      BY <1>0, <2>1, GoMoves DEF Moves
    <2>3. Calm => OneInside'
      BY <1>1, <1>7, <2>1, <2>2, OneStays DEF Locked, InFlight, Synced
    <2>4. Calm /\ step \in Synced => call'[p].rec = stored
      BY <1>1, <1>7, <2>1, <2>2 DEF CopyInv, Synced
    <2>5. step = "create" => Mine(p)' = NoPoll
      BY <1>7, <2>2 DEF Mine, Moves
    <2> QED BY <1>0, <1>7, <2>1, <2>2, <2>3, <2>4, <2>5
            DEF Walks, InFlight, Synced, Done, LoginTyped, LoginTypeOK
  <1> QED BY <1>2, <1>3, <1>4, <1>5, <1>6, <1>7

\* assertCurrent fails: a session that was issued is taken back.  One that is in the
\* record was issued by a poll that still holds the lock, so nobody was given it.
LEMMA ThrowKeeps ==
  ASSUME LoginInv, NEW p \in Poll,
         NEW step \in {"approve", "identify", "ready", "created", "save", "final"},
         Throw(p, step)
  PROVE  LoginInv'
  <1>0. LoginTyped /\ HandsInv /\ CancelInv
    BY DEF LoginInv
  <1>1. /\ call[p].at = step /\ ~Current(p) /\ Go(p, "release")
        /\ live' = IF Issued(p) THEN live \ {p} ELSE live
        /\ UNCHANGED <<stored, gone, flag, lock, given, cancel, lockLapses, faults>>
    BY DEF Throw
  <1>2. Moves(p) /\ call'[p].at = "release" /\ call'[p].rec = call[p].rec
    BY <1>0, <1>1, GoMoves DEF Moves, Step
  <1>3. Calm => OneInside'
    BY <1>1, <1>2, OneStays DEF LoginInv, CalmInv, Locked, InFlight, Synced
  <1>4. LoginTyped' /\ CancelInv'
    BY <1>0, <1>1, <1>2 DEF LoginTyped, LoginTypeOK, Call, Moves, CancelInv
  <1>5. HandsInv' /\ p \notin live' /\ live \ {p} = live' \ {p}
    <2>1. given[p] = NoPoll /\ (p \in live => Issued(p))
      BY <1>0, <1>1, NoPollIsNone DEF HandsInv, Done
    <2>2. p \notin live' /\ live \ {p} = live' \ {p}
      BY <1>1, <2>1
    <2>3. ASSUME NEW q \in Poll \ {p}
          PROVE  /\ q \in live' => given[q] = q
                      \/ (Issued(q)' /\ call'[q].at \in InFlight \cup {"final"})
                 /\ given[q] # NoPoll => call'[q].at \in Done
                 /\ call'[q].at \in InFlight => Issued(q)'
                 /\ call'[q].at = "create" => Mine(q)' = NoPoll
      BY <1>0, <1>2, <2>2 DEF HandsInv, Moves, Issued, Mine
    <2> QED BY <1>1, <1>2, <2>1, <2>2, <2>3 DEF HandsInv, Done, InFlight
  <1>6. ASSUME Calm PROVE CopyInv' /\ TokenInv' /\ GivenInv' /\ LiveInv'
    <2>0. OneInside /\ CopyInv /\ TokenInv /\ GivenInv /\ LiveInv /\ LoginTypeOK /\ lock = p
      BY <1>0, <1>1, <1>6 DEF LoginInv, CalmInv, LoginTyped, OneInside, Locked, InFlight, Synced
    <2>1. flag \/ gone
      BY <1>1, <2>0 DEF Current
    <2>2. \A q \in Poll : /\ call'[q].role = call[q].role
                          /\ call[q].at \in Done => call'[q].at \in Done /\ q # p
                          /\ call[q].at \in Done \cup {"final"} => call'[q].at \in Done \cup {"final"}
      BY <1>1, <1>2 DEF Done, Moves
    <2>3. CopyInv'
      <3> SUFFICES ASSUME NEW q \in Poll
                   PROVE  /\ call'[q].at \in Synced => call'[q].rec = stored
                          /\ call'[q].at \in InFlight =>
                               /\ q \in live' \/ flag
                               /\ stored.token[call'[q].role] = NoPoll
                               /\ \A r \in Role \ {call'[q].role} :
                                    call'[q].rec.token[r] = stored.token[r]
        BY <1>1 DEF CopyInv
      <3>1. CASE q = p
        BY <1>2, <3>1 DEF Synced, InFlight
      <3>2. CASE q # p
        BY <1>2, <1>5, <2>0, <3>2 DEF CopyInv, Moves
      <3> QED BY <3>1, <3>2
    <2>4. \A r \in Role : stored.token[r] \in Poll \cup {NoPoll}
      BY <2>0 DEF LoginTypeOK, RecordData
    <2>5. TokenInv'
      BY <1>1, <2>0, <2>1, <2>2, <2>4 DEF TokenInv
    <2>6. \A q \in Poll : given[q] \in Poll \cup {NoPoll}
      BY <2>0 DEF LoginTypeOK
    <2>7. GivenInv'
      BY <1>1, <1>5, <2>0, <2>2, <2>6 DEF GivenInv
    <2>8. LiveInv'
      <3> SUFFICES ASSUME NEW q \in live'
                   PROVE  call'[q].at \in InFlight \/ stored.token[call'[q].role] = q
        BY <1>1 DEF LiveInv
      <3>1. q \in live /\ q # p /\ q \in Poll
        BY <1>5, <2>0 DEF LoginTypeOK
      <3> QED BY <1>2, <2>0, <3>1 DEF LiveInv, Moves
    <2> QED BY <2>3, <2>5, <2>7, <2>8
  <1> QED BY <1>1, <1>3, <1>4, <1>5, <1>6 DEF LoginInv, CalmInv, Calm

\* Consent and identity are written under the lock, with the tokens that are stored.
LEMMA WriteKeeps ==
  ASSUME LoginInv, NEW p \in Poll, Approve(p) \/ Identify(p)
  PROVE  LoginInv'
  <1>0. LoginTyped /\ HandsInv /\ CancelInv /\ call[p].rec \in RecordData
    BY DEF LoginInv, LoginTyped, LoginTypeOK
  <1>1. PICK rec \in RecordData :
          /\ rec.token = call[p].rec.token
          /\ Write(p, call[p].at, rec)
          /\ call[p].at \in {"approving", "identifying"}
    <2>1. CASE Approve(p)
      BY <1>0, <2>1 DEF Approve, Write, RecordData
    <2>2. CASE Identify(p)
      BY <1>0, <2>2 DEF Identify, Write, RecordData
    <2> QED BY <2>1, <2>2
  <1>2. PICK step \in {"approve", "release", "verify", "ready"} :
          /\ Load(p, step, rec) /\ stored' = rec
          /\ UNCHANGED <<gone, flag, lock, live, given, cancel, lockLapses, faults>>
    <2>1. NextStep(call[p].role, rec) \in {"approve", "release", "verify", "ready"}
      BY <1>0, NextStepTyped DEF LoginTyped, LoginTypeOK
    <2> QED BY <1>1, <2>1 DEF Write
  <1>3. Moves(p) /\ call'[p].at = step /\ call'[p].rec = rec
    BY <1>0, <1>2, LoadMoves DEF Moves, Step
  <1>4. Calm => OneInside'
    BY <1>1, <1>2, <1>3, OneStays DEF LoginInv, CalmInv, Locked, InFlight, Synced
  <1>5. LoginTyped' /\ CancelInv'
    BY <1>0, <1>2, <1>3 DEF LoginTyped, LoginTypeOK, Call, Moves, CancelInv
  <1>6. HandsInv'
    BY <1>0, <1>1, <1>2, <1>3 DEF HandsInv, Moves, Issued, Mine, Done, InFlight
  <1>7. ASSUME Calm PROVE CopyInv' /\ TokenInv' /\ GivenInv' /\ LiveInv'
    <2>0. OneInside /\ CopyInv /\ TokenInv /\ GivenInv /\ LiveInv /\ LoginTypeOK /\ lock = p
      BY <1>0, <1>1, <1>7 DEF LoginInv, CalmInv, LoginTyped, OneInside, Locked, InFlight, Synced
    <2>1. stored'.token = stored.token
      BY <1>1, <1>2, <2>0 DEF CopyInv, Synced
    <2>2. \A q \in Poll : /\ call'[q].role = call[q].role
                          /\ call[q].at \in Done \cup {"final"} => call'[q].at = call[q].at
                          /\ call[q].at \in InFlight => call'[q].at \in InFlight
      BY <1>1, <1>3 DEF Done, Moves, InFlight
    <2>3. CopyInv'
      <3> SUFFICES ASSUME NEW q \in Poll
                   PROVE  /\ call'[q].at \in Synced => call'[q].rec = stored'
                          /\ call'[q].at \in InFlight =>
                               /\ q \in live \/ flag
                               /\ stored.token[call'[q].role] = NoPoll
                               /\ \A r \in Role \ {call'[q].role} :
                                    call'[q].rec.token[r] = stored.token[r]
        BY <1>2, <2>1 DEF CopyInv
      <3>1. CASE q = p
        BY <1>2, <1>3, <3>1 DEF Synced, InFlight
      <3>2. CASE q # p
        BY <1>3, <2>0, <3>2 DEF CopyInv, Moves, OneInside, Locked
      <3> QED BY <3>1, <3>2
    <2>4. \A r \in Role : stored.token[r] \in Poll \cup {NoPoll}
      BY <2>0 DEF LoginTypeOK, RecordData
    <2>5. TokenInv'
      BY <1>2, <2>0, <2>1, <2>2, <2>4 DEF TokenInv
    <2>6. GivenInv'
      BY <1>2, <2>0, <2>2 DEF GivenInv, LoginTypeOK
    <2>7. LiveInv'
      BY <1>2, <2>0, <2>1, <2>2 DEF LiveInv, LoginTypeOK
    <2> QED BY <2>3, <2>5, <2>6, <2>7
  <1> QED BY <1>2, <1>4, <1>5, <1>6, <1>7 DEF LoginInv, CalmInv, Calm

\* A session is issued under the poll's name, when none is stored for its role.
LEMMA CreateKeeps ==
  ASSUME LoginInv, NEW p \in Poll, Create(p)
  PROVE  LoginInv'
  <1>0. LoginTyped /\ HandsInv /\ CancelInv /\ call[p].rec \in RecordData /\ call[p].role \in Role
    BY DEF LoginInv, LoginTyped, LoginTypeOK
  <1>1. PICK rec \in RecordData :
          /\ rec.token = [call[p].rec.token EXCEPT ![call[p].role] = p]
          /\ Load(p, "created", rec)
    BY <1>0 DEF Create, RecordData
  <1>2. /\ call[p].at = "create" /\ live' = live \cup {p}
        /\ UNCHANGED <<stored, gone, flag, lock, given, cancel, lockLapses, faults>>
    BY DEF Create
  <1>3. /\ Moves(p) /\ call'[p].at = "created" /\ call'[p].rec = rec
        /\ call'[p].role = call[p].role
    BY <1>0, <1>1, <1>2, LoadMoves DEF Moves, Step
  <1>m. /\ rec.token[call[p].role] = p
        /\ \A r \in Role \ {call[p].role} : rec.token[r] = call[p].rec.token[r]
    BY <1>0, <1>1 DEF RecordData
  <1>4. Calm => OneInside'
    BY <1>2, <1>3, OneStays DEF LoginInv, CalmInv, Locked, InFlight, Synced
  <1>5. LoginTyped' /\ CancelInv'
    BY <1>0, <1>2, <1>3 DEF LoginTyped, LoginTypeOK, Call, Moves, CancelInv
  <1>6. Issued(p)'
    BY <1>3, <1>m DEF Issued, Mine
  <1>7. HandsInv'
    BY <1>0, <1>2, <1>3, <1>6 DEF HandsInv, Moves, Issued, Mine, Done, InFlight
  <1>8. ASSUME Calm PROVE CopyInv' /\ TokenInv' /\ GivenInv' /\ LiveInv'
    <2>0. OneInside /\ CopyInv /\ TokenInv /\ GivenInv /\ LiveInv /\ LoginTypeOK /\ lock = p
      BY <1>0, <1>2, <1>8 DEF LoginInv, CalmInv, LoginTyped, OneInside, Locked, InFlight, Synced
    <2>1. call[p].rec = stored /\ stored.token[call[p].role] = NoPoll
      BY <1>0, <1>2, <2>0 DEF CopyInv, HandsInv, Synced, Mine
    <2>2. \A q \in Poll \ {p} : call[q].at \notin Locked /\ call'[q] = call[q]
      BY <1>3, <2>0 DEF OneInside, Moves
    <2>3. CopyInv'
      <3>1. call'[p].at \notin Synced /\ p \in live' /\ stored'.token[call'[p].role] = NoPoll
        BY <1>2, <1>3, <2>1 DEF Synced
      <3>2. \A r \in Role \ {call'[p].role} : call'[p].rec.token[r] = stored'.token[r]
        BY <1>2, <1>3, <1>m, <2>1
      <3>3. \A q \in Poll \ {p} : call'[q].at \notin Synced \cup InFlight
        BY <2>2 DEF Locked
      <3> QED BY <3>1, <3>2, <3>3 DEF CopyInv
    <2>4. \A q \in Poll : /\ call'[q].role = call[q].role
                          /\ call[q].at \in Done \cup {"final"} => call'[q].at = call[q].at
                          /\ call[q].at \in InFlight => call'[q].at \in InFlight
      BY <1>2, <1>3 DEF Done, Moves, InFlight
    <2>5. \A r \in Role : stored.token[r] \in Poll \cup {NoPoll}
      BY <2>0 DEF LoginTypeOK, RecordData
    <2>6. TokenInv'
      BY <1>2, <2>0, <2>4, <2>5 DEF TokenInv
    <2>7. GivenInv'
      BY <1>2, <2>0, <2>4 DEF GivenInv, LoginTypeOK
    <2>8. LiveInv'
      BY <1>2, <1>3, <2>0, <2>4 DEF LiveInv, LoginTypeOK, InFlight
    <2> QED BY <2>3, <2>6, <2>7, <2>8
  <1> QED BY <1>2, <1>4, <1>5, <1>7, <1>8 DEF LoginInv, CalmInv, Calm

\* The save: the record takes the session, beside the other role's; an error takes
\* the session back.
LEMMA SavingKeeps ==
  ASSUME LoginInv, NEW p \in Poll, Saving(p)
  PROVE  LoginInv'
  <1>0. LoginTyped /\ HandsInv /\ CancelInv /\ call[p].rec \in RecordData
    BY DEF LoginInv, LoginTyped, LoginTypeOK
  <1>1. /\ call[p].at = "saving" /\ stored' \in {stored, call[p].rec}
        /\ UNCHANGED <<gone, flag, lock, given, cancel, lockLapses>>
    BY DEF Saving
  <1>2. /\ Issued(p) /\ given[p] = NoPoll
    BY <1>0, <1>1 DEF HandsInv, InFlight, Done, LoginTyped, LoginTypeOK
  <1>3. CASE Go(p, "release") /\ faults' = faults + 1 /\ live' = live \ {p}
    <2>1. Moves(p) /\ call'[p].at = "release" /\ call'[p].rec = call[p].rec
      BY <1>0, <1>1, <1>3, GoMoves DEF Moves, Step
    <2>2. LoginTyped' /\ CancelInv' /\ ~Calm'
      BY <1>0, <1>1, <1>3, <2>1 DEF LoginTyped, LoginTypeOK, Call, Moves, CancelInv, Calm
    <2>3. HandsInv'
      <3>1. ASSUME NEW q \in Poll \ {p}
            PROVE  /\ q \in live' => given[q] = q
                        \/ (Issued(q)' /\ call'[q].at \in InFlight \cup {"final"})
                   /\ given[q] # NoPoll => call'[q].at \in Done
                   /\ call'[q].at \in InFlight => Issued(q)'
                   /\ call'[q].at = "create" => Mine(q)' = NoPoll
        BY <1>0, <1>3, <2>1 DEF HandsInv, Moves, Issued, Mine
      <3> QED BY <1>1, <1>2, <1>3, <2>1, <3>1 DEF HandsInv, InFlight
    <2> QED BY <2>2, <2>3 DEF LoginInv, CalmInv
  <1>4. CASE stored' = call[p].rec /\ Go(p, "final") /\ UNCHANGED <<live, faults>>
    <2>1. Moves(p) /\ call'[p].at = "final" /\ call'[p].rec = call[p].rec
      BY <1>0, <1>1, <1>4, GoMoves DEF Moves, Step
    <2>2. LoginTyped' /\ CancelInv'
      BY <1>0, <1>1, <1>4, <2>1 DEF LoginTyped, LoginTypeOK, Call, Moves, CancelInv
    <2>3. HandsInv'
      BY <1>0, <1>1, <1>2, <1>4, <2>1 DEF HandsInv, Moves, Issued, Mine, InFlight
    <2>4. Calm => OneInside'
      BY <1>1, <2>1, OneStays DEF LoginInv, CalmInv, Locked, InFlight, Synced
    <2>5. ASSUME Calm PROVE CopyInv' /\ TokenInv' /\ GivenInv' /\ LiveInv'
      <3>0. OneInside /\ CopyInv /\ TokenInv /\ GivenInv /\ LiveInv /\ LoginTypeOK /\ lock = p
        BY <1>0, <1>1, <2>5 DEF LoginInv, CalmInv, LoginTyped, OneInside, Locked, InFlight
      <3>1. /\ p \in live \/ flag
            /\ stored.token[call[p].role] = NoPoll /\ stored'.token[call[p].role] = p
            /\ \A r \in Role \ {call[p].role} : stored'.token[r] = stored.token[r]
        BY <1>1, <1>2, <1>4, <3>0 DEF CopyInv, InFlight, Issued, Mine
      <3>2. \A q \in Poll \ {p} : call[q].at \notin Locked /\ call'[q] = call[q]
        BY <2>1, <3>0 DEF OneInside, Moves
      <3>3. CopyInv'
        <4>1. call'[p].rec = stored' /\ call'[p].at \notin InFlight
          BY <1>4, <2>1 DEF InFlight
        <4>2. \A q \in Poll \ {p} : call'[q].at \notin Synced \cup InFlight
          BY <3>2 DEF Locked
        <4> QED BY <4>1, <4>2 DEF CopyInv
      <3>4. \A q \in Poll : /\ call'[q].role = call[q].role
                            /\ call[q].at \in Done => call'[q].at = call[q].at
                            /\ call[q].at \in Done \cup {"final"} => call'[q].at = call[q].at
        BY <1>1, <2>1 DEF Done, Moves
      <3>5. \A r \in Role : stored.token[r] \in Poll \cup {NoPoll}
        BY <3>0 DEF LoginTypeOK, RecordData
      <3>6. TokenInv'
        <4> SUFFICES ASSUME NEW r \in Role, stored'.token[r] # NoPoll
                     PROVE  /\ call'[stored'.token[r]].role = r
                            /\ call'[stored'.token[r]].at \in Done \cup {"final"}
                            /\ flag \/ gone \/ stored'.token[r] \in live
          BY <1>1, <1>4 DEF TokenInv
        <4>1. CASE r = call[p].role
          BY <2>1, <3>1, <3>4, <4>1
        <4>2. CASE r # call[p].role
          BY <3>0, <3>1, <3>4, <3>5, <4>2 DEF TokenInv
        <4> QED BY <4>1, <4>2
      <3>7. GivenInv'
        BY <1>1, <1>4, <3>0, <3>4 DEF GivenInv, LoginTypeOK
      <3>8. LiveInv'
        <4> SUFFICES ASSUME NEW q \in live
                     PROVE  call'[q].at \in InFlight \/ stored'.token[call'[q].role] = q
          BY <1>4 DEF LiveInv
        <4>1. CASE q = p
          BY <2>1, <3>1, <3>4, <4>1
        <4>2. CASE q # p
          <5>1. q \in Poll /\ stored.token[call[q].role] = q /\ call[q].role \in Role
            BY <3>0, <3>2, <4>2 DEF LiveInv, LoginTypeOK, Locked
          <5>2. call[q].role # call[p].role
            BY <3>1, <5>1, NoPollIsNone
          <5> QED BY <3>1, <3>4, <5>1, <5>2
        <4> QED BY <4>1, <4>2
      <3> QED BY <3>3, <3>6, <3>7, <3>8
    <2> QED BY <1>1, <1>4, <2>2, <2>3, <2>4, <2>5 DEF LoginInv, CalmInv, Calm
  <1> QED BY <1>3, <1>4 DEF Saving

\* What is answered is the stored session of the role: its own poll has let go of the
\* lock, or answers now.
LEMMA AnswerKeeps ==
  ASSUME LoginInv, NEW p \in Poll, Answer(p)
  PROVE  LoginInv'
  <1>0. LoginTyped /\ HandsInv /\ CancelInv /\ Mine(p) \in Poll \cup {NoPoll}
    BY DEF LoginInv, LoginTyped, LoginTypeOK, Mine, RecordData
  <1>1. /\ call[p].at = "final" /\ Current(p) /\ Go(p, "release")
        /\ given' = [given EXCEPT ![p] = Mine(p)]
        /\ UNCHANGED <<stored, gone, flag, lock, live, cancel, lockLapses, faults>>
    BY DEF Answer
  <1>2. Moves(p) /\ call'[p].at = "release" /\ call'[p].rec = call[p].rec
    BY <1>0, <1>1, GoMoves DEF Moves, Step
  <1>3. given'[p] = Mine(p) /\ \A q \in Poll \ {p} : given'[q] = given[q]
    BY <1>0, <1>1 DEF LoginTyped, LoginTypeOK
  <1>4. LoginTyped' /\ CancelInv'
    <2>1. given' \in [Poll -> Poll \cup {NoPoll}]
      BY <1>0, <1>1 DEF LoginTyped, LoginTypeOK
    <2>2. CancelInv'
      BY <1>0, <1>1 DEF CancelInv
    <2> QED BY <1>0, <1>1, <1>2, <2>1, <2>2 DEF LoginTyped, LoginTypeOK, Call, Moves
  <1>5. HandsInv'
    <2>1. p \in live => Mine(p) = p
      BY <1>0, <1>1, NoPollIsNone DEF HandsInv, Done, Issued
    <2>2. ASSUME NEW q \in Poll \ {p}
          PROVE  /\ q \in live => given'[q] = q
                      \/ (Issued(q)' /\ call'[q].at \in InFlight \cup {"final"})
                 /\ given'[q] # NoPoll => call'[q].at \in Done
                 /\ call'[q].at \in InFlight => Issued(q)'
                 /\ call'[q].at = "create" => Mine(q)' = NoPoll
      BY <1>0, <1>2, <1>3 DEF HandsInv, Moves, Issued, Mine
    <2> QED BY <1>1, <1>2, <1>3, <2>1, <2>2 DEF HandsInv, InFlight, Done
  <1>6. Calm => OneInside'
    BY <1>1, <1>2, OneStays DEF LoginInv, CalmInv, Locked, InFlight, Synced
  <1>7. ASSUME Calm PROVE CopyInv' /\ TokenInv' /\ GivenInv' /\ LiveInv'
    <2>0. OneInside /\ CopyInv /\ TokenInv /\ GivenInv /\ LiveInv /\ LoginTypeOK /\ lock = p
      BY <1>0, <1>1, <1>7 DEF LoginInv, CalmInv, LoginTyped, Current
    <2>1. Mine(p) = stored.token[call[p].role] /\ call[p].role \in Role
      BY <1>1, <2>0 DEF CopyInv, Synced, Mine, LoginTypeOK
    <2>2. \A q \in Poll : /\ call'[q].role = call[q].role
                          /\ call[q].at \in Done \cup {"final"} => call'[q].at \in Done \cup {"final"}
                          /\ call[q].at \in Done => call'[q].at \in Done
                          /\ call[q].at \in InFlight => call'[q] = call[q]
      BY <1>1, <1>2 DEF Done, Moves, InFlight
    <2>3. CopyInv'
      <3>1. call'[p].at \notin Synced \cup InFlight
        BY <1>2 DEF Synced, InFlight
      <3>2. \A q \in Poll \ {p} : call[q].at \notin Synced \cup InFlight /\ call'[q] = call[q]
        BY <1>2, <2>0 DEF OneInside, Locked, Moves
      <3> QED BY <3>1, <3>2 DEF CopyInv
    <2>4. \A r \in Role : stored.token[r] \in Poll \cup {NoPoll}
      BY <2>0 DEF LoginTypeOK, RecordData
    <2>5. TokenInv'
      BY <1>1, <2>0, <2>2, <2>4 DEF TokenInv
    <2>6. Mine(p) # NoPoll => call'[Mine(p)].at \in Done /\ Mine(p) \in live
      <3> SUFFICES ASSUME Mine(p) # NoPoll PROVE call'[Mine(p)].at \in Done /\ Mine(p) \in live
        OBVIOUS
      <3>1. call[Mine(p)].at \in Done \cup {"final"} /\ Mine(p) \in live /\ Mine(p) \in Poll
        BY <1>0, <1>1, <2>0, <2>1 DEF TokenInv, Current
      <3>2. CASE Mine(p) = p
        BY <1>2, <3>1, <3>2 DEF Done
      <3>3. CASE Mine(p) # p
        BY <2>0, <2>2, <3>1, <3>3 DEF OneInside, Locked, Synced
      <3> QED BY <3>2, <3>3
    <2>7. GivenInv'
      BY <1>1, <1>3, <2>0, <2>2, <2>6 DEF GivenInv, LoginTypeOK
    <2>8. LiveInv'
      BY <1>1, <2>0, <2>2 DEF LiveInv, LoginTypeOK
    <2> QED BY <2>3, <2>5, <2>7, <2>8
  <1> QED BY <1>1, <1>4, <1>5, <1>6, <1>7 DEF LoginInv, CalmInv, Calm

\* What happens beside the polls: the flag is set before anything is revoked.
LEMMA OthersKeep ==
  ASSUME LoginInv,
         \/ \E c \in Canceller : CancelReads(c) \/ CancelFlags(c) \/ CancelRevokes(c)
         \/ LockLapses \/ Expire
  PROVE  LoginInv'
  <1>0. LoginTyped /\ HandsInv /\ CancelInv
    BY DEF LoginInv
  <1>1. /\ UNCHANGED <<stored, call, given, faults>>
        /\ live' \subseteq live /\ (live' = live \/ flag)
        /\ (flag => flag') /\ (gone => gone')
        /\ Calm' => Calm /\ lock' = lock
    <2>1. CASE \E c \in Canceller : CancelReads(c) \/ CancelFlags(c)
      BY <2>1 DEF CancelReads, CancelFlags, Calm
    <2>2. CASE \E c \in Canceller : CancelRevokes(c)
      BY <1>0, <2>2 DEF CancelRevokes, CancelInv, Calm
    <2>3. CASE LockLapses
      BY <1>0, <2>3 DEF LockLapses, Calm, LoginTyped
    <2>4. CASE Expire
      BY <2>4 DEF Expire, Calm
    <2> QED BY <2>1, <2>2, <2>3, <2>4
  <1>2. LoginTyped'
    <2>1. CASE \E c \in Canceller : CancelReads(c)
      BY <1>0, <2>1 DEF CancelReads, LoginTyped, LoginTypeOK
    <2>2. CASE \E c \in Canceller : CancelFlags(c)
      BY <1>0, <2>2 DEF CancelFlags, LoginTyped, LoginTypeOK
    <2>3. CASE \E c \in Canceller : CancelRevokes(c)
      BY <1>0, <2>3 DEF CancelRevokes, LoginTyped, LoginTypeOK
    <2>4. CASE LockLapses
      BY <1>0, <2>4 DEF LockLapses, LoginTyped, LoginTypeOK
    <2>5. CASE Expire
      BY <1>0, <2>5 DEF Expire, LoginTyped, LoginTypeOK
    <2> QED BY <2>1, <2>2, <2>3, <2>4, <2>5
  <1>3. CancelInv'
    <2>1. CASE \E c \in Canceller : CancelReads(c)
      BY <1>0, <2>1 DEF CancelReads, CancelInv, LoginTyped, LoginTypeOK
    <2>2. CASE \E c \in Canceller : CancelFlags(c)
      BY <1>0, <2>2 DEF CancelFlags, CancelInv
    <2>3. CASE \E c \in Canceller : CancelRevokes(c)
      BY <1>0, <2>3 DEF CancelRevokes, CancelInv, LoginTyped, LoginTypeOK
    <2>4. CASE LockLapses \/ Expire
      BY <1>0, <2>4 DEF LockLapses, Expire, CancelInv
    <2> QED BY <2>1, <2>2, <2>3, <2>4
  <1>4. HandsInv'
    BY <1>0, <1>1 DEF HandsInv, Issued, Mine
  <1>5. ASSUME Calm' PROVE OneInside' /\ CopyInv' /\ TokenInv' /\ GivenInv' /\ LiveInv'
    <2>0. OneInside /\ CopyInv /\ TokenInv /\ GivenInv /\ LiveInv /\ LoginTypeOK
      BY <1>0, <1>1, <1>5 DEF LoginInv, CalmInv, LoginTyped
    <2>1. OneInside'
      BY <1>1, <1>5, <2>0 DEF OneInside
    <2>2. CopyInv'
      BY <1>1, <2>0 DEF CopyInv
    <2>3. TokenInv'
      BY <1>1, <2>0 DEF TokenInv
    <2>4. GivenInv'
      BY <1>1, <2>0 DEF GivenInv
    <2>5. LiveInv'
      BY <1>1, <2>0 DEF LiveInv
    <2> QED BY <2>1, <2>2, <2>3, <2>4, <2>5
  <1> QED BY <1>2, <1>3, <1>4, <1>5 DEF LoginInv, CalmInv

\* What is stored only grows while the lock holds, and under one poll.
LEMMA SeenKept ==
  ASSUME LoginInv, Calm => SeenInv, [LoginNext]_loginVars, Calm'
  PROVE  SeenInv'
  <1>0. LoginTyped /\ HandsInv
    BY DEF LoginInv
  <1>1. ASSUME NEW p \in Poll, Calm,
               \/ Begin(p) \/ TakeLock(p) \/ Reload(p) \/ Verify(p) \/ Ready(p)
               \/ Check(p, "approve", "approving") \/ Approve(p)
               \/ Check(p, "identify", "identifying") \/ Identify(p)
               \/ Create(p) \/ Created(p) \/ Save(p) \/ Saving(p) \/ Answer(p)
               \/ Throw(p, "final") \/ Release(p)
        PROVE  SeenInv'
    <2>0. /\ OneInside /\ CopyInv /\ SeenInv /\ call[p] \in Call
          /\ stored \in RecordData
      BY <1>0, <1>1 DEF LoginInv, CalmInv, LoginTyped, LoginTypeOK, Call
    <2>1. \A q \in Poll \ {p} : call'[q] = call[q]
      BY <1>0, <1>1 DEF Begin, TakeLock, Reload, Verify, Ready, Check, Pass, Throw, Approve, Identify,
         Write, Create, Created, Save, Saving, Answer, Release, Go, Load, LoginTyped, LoginTypeOK
    <2>2. CASE Begin(p)
      <3>1. stored' = stored /\ call'[p].rec = stored /\ call'[p].at \in {"lock", "ended"}
        BY <1>0, <2>2 DEF Begin, Load, LoginTyped, LoginTypeOK
      <3> QED BY <2>0, <2>1, <3>1 DEF SeenInv, Before, InFlight
    <2>3. CASE \/ TakeLock(p) \/ Verify(p) \/ Answer(p) \/ Release(p)
               \/ Pass(p, "ready", IF Mine(p) = NoPoll THEN "create" ELSE "final")
               \/ Pass(p, "approve", "approving") \/ Pass(p, "identify", "identifying")
               \/ Pass(p, "created", "save") \/ Pass(p, "save", "saving")
               \/ \E step \in Step : Throw(p, step)
      <3>1. /\ stored' = stored /\ call'[p].rec = call[p].rec
            /\ call'[p].at \in Before => call[p].at \in Before
            /\ call'[p].at \in InFlight => call[p].at \in InFlight
        BY <1>0, <2>3 DEF TakeLock, Verify, Answer, Release, Pass, Throw, Go, Before, InFlight,
           LoginTyped, LoginTypeOK
      <3> QED BY <2>0, <2>1, <3>1 DEF SeenInv
    <2>4. CASE Reload(p)
      <3>1. /\ stored' = stored
            /\ call'[p].at \in {"approve", "release", "verify", "ready"}
        <4> DEFINE rec == Merged(call[p].rec, stored)
        <4>1. rec \in RecordData
          BY <2>0, MergedTyped DEF Call
        <4>2. NextStep(call[p].role, rec) \in {"approve", "release", "verify", "ready"}
          BY <2>0, <4>1, NextStepTyped DEF Call
        <4> QED BY <1>0, <2>4, <4>2 DEF Reload, Load, LoginTyped, LoginTypeOK
      <3> QED BY <2>0, <2>1, <3>1 DEF SeenInv, Before, InFlight
    <2>5. CASE Create(p)
      <3>1. /\ stored' = stored /\ call[p].rec = stored /\ call'[p].at = "created"
            /\ call'[p].rec.identity = call[p].rec.identity
        BY <1>0, <2>0, <2>5 DEF Create, Load, CopyInv, Synced, Call, RecordData, LoginTyped, LoginTypeOK
      <3> QED BY <2>0, <2>1, <3>1 DEF SeenInv, Before, InFlight
    <2>6. CASE Approve(p) \/ Identify(p) \/ Saving(p)
      <3>1. /\ call'[p].at \notin Before \cup InFlight
            /\ call[p].at \in Locked
            /\ stored.identity => stored'.identity
            /\ \A r \in Role : stored.token[r] \in {NoPoll, stored'.token[r]}
        <4>1. CASE Approve(p) \/ Identify(p)
          <5>1. /\ call[p].at \in {"approving", "identifying"}
                /\ call[p].rec = stored
            BY <2>0, <4>1 DEF Approve, Identify, Write, CopyInv, Synced
          <5>2. PICK rec \in RecordData :
                  /\ stored' = rec /\ Load(p, NextStep(call[p].role, rec), rec)
                  /\ rec.token = stored.token
                  /\ stored.identity => rec.identity
            BY <2>0, <4>1, <5>1 DEF Approve, Identify, Write, RecordData
          <5>3. NextStep(call[p].role, rec) \in {"approve", "release", "verify", "ready"}
            BY <2>0, NextStepTyped DEF Call
          <5>4. call'[p].at \in {"approve", "release", "verify", "ready"}
            BY <1>0, <5>2, <5>3 DEF Load, LoginTyped, LoginTypeOK
          <5>5. /\ stored.identity => stored'.identity
                /\ \A r \in Role : stored.token[r] \in {NoPoll, stored'.token[r]}
            <6>1. stored'.token = stored.token
              BY <5>2
            <6>2. \A r \in Role : stored.token[r] \in {NoPoll, stored'.token[r]}
              BY <6>1
            <6>3. stored.identity => stored'.identity
              BY <5>2, Zenon
            <6> QED BY <6>2, <6>3
          <5>6. call'[p].at \notin Before \cup InFlight /\ call[p].at \in Locked
            BY <5>1, <5>4 DEF Before, InFlight, Locked, Synced
          <5> QED BY <5>5, <5>6
        <4>2. CASE Saving(p)
          <5>1. /\ call[p].at = "saving" /\ call'[p].at = "final" /\ stored' = call[p].rec
            BY <1>0, <1>1, <4>2 DEF Saving, Go, Calm, LoginTyped, LoginTypeOK
          <5>2. /\ stored'.identity = stored.identity
                /\ stored.token[call[p].role] = NoPoll
                /\ \A r \in Role \ {call[p].role} : stored'.token[r] = stored.token[r]
            BY <2>0, <5>1 DEF SeenInv, CopyInv, InFlight
          <5> QED BY <5>1, <5>2 DEF Before, InFlight, Locked
        <4> QED BY <2>6, <4>1, <4>2
      <3>2. \A q \in Poll \ {p} : call[q].at \notin InFlight
        BY <2>0, <3>1 DEF OneInside, Locked
      <3>3. ASSUME NEW q \in Poll \ {p}, call[q].at \in Before
            PROVE  /\ call[q].rec.identity => stored'.identity
                   /\ \A r \in Role : call[q].rec.token[r] \in {NoPoll, stored'.token[r]}
        BY <2>0, <3>1, <3>3 DEF SeenInv
      <3> QED BY <2>1, <3>1, <3>2, <3>3 DEF SeenInv
    <2> QED BY <1>1, <2>2, <2>3, <2>4, <2>5, <2>6 DEF Ready, Check, Created, Save, Step
  <1>2. CASE \/ \E c \in Canceller : CancelReads(c) \/ CancelFlags(c) \/ CancelRevokes(c)
             \/ LockLapses \/ Expire \/ UNCHANGED loginVars
    <2>1. UNCHANGED <<stored, call>> /\ Calm
      BY <1>0, <1>2 DEF CancelReads, CancelFlags, CancelRevokes, LockLapses, Expire, loginVars,
         Calm, LoginTyped
    <2> QED BY <2>1 DEF SeenInv
  <1>3. ASSUME NEW p \in Poll,
               \/ Begin(p) \/ TakeLock(p) \/ Reload(p) \/ Verify(p) \/ Ready(p)
               \/ Check(p, "approve", "approving") \/ Approve(p)
               \/ Check(p, "identify", "identifying") \/ Identify(p)
               \/ Create(p) \/ Created(p) \/ Save(p) \/ Saving(p) \/ Answer(p)
               \/ Throw(p, "final") \/ Release(p)
        PROVE  Calm
    BY <1>0, <1>3 DEF Begin, TakeLock, Reload, Verify, Ready, Check, Pass, Throw, Approve, Identify,
       Write, Create, Created, Save, Saving, Answer, Release, Calm, LoginTyped
  <1> QED BY <1>1, <1>2, <1>3 DEF LoginNext

\* LoginInv is inductive, with SeenInv.
LEMMA NextLoginInv ==
  ASSUME LoginInv, Calm => SeenInv, [LoginNext]_loginVars
  PROVE  LoginInv'
  <1>1. ASSUME NEW p \in Poll,
               \/ Begin(p) \/ TakeLock(p) \/ Reload(p) \/ Verify(p) \/ Ready(p)
               \/ Check(p, "approve", "approving") \/ Approve(p)
               \/ Check(p, "identify", "identifying") \/ Identify(p)
               \/ Create(p) \/ Created(p) \/ Save(p) \/ Saving(p) \/ Answer(p)
               \/ Throw(p, "final") \/ Release(p)
        PROVE  LoginInv'
    <2>1. CASE \/ Throw(p, "ready") \/ Throw(p, "approve") \/ Throw(p, "identify")
               \/ Throw(p, "created") \/ Throw(p, "save") \/ Throw(p, "final")
      BY <2>1, ThrowKeeps
    <2>2. CASE \/ Begin(p) \/ TakeLock(p) \/ Reload(p) \/ Verify(p) \/ Release(p)
               \/ Pass(p, "ready", IF Mine(p) = NoPoll THEN "create" ELSE "final")
               \/ Pass(p, "approve", "approving") \/ Pass(p, "identify", "identifying")
               \/ Pass(p, "created", "save") \/ Pass(p, "save", "saving")
      BY <2>2, WalkSteps, WalkKeeps
    <2>3. CASE Approve(p) \/ Identify(p) \/ Create(p) \/ Saving(p) \/ Answer(p)
      BY <2>3, WriteKeeps, CreateKeeps, SavingKeeps, AnswerKeeps
    <2> QED BY <1>1, <2>1, <2>2, <2>3 DEF Ready, Check, Created, Save
  <1>2. CASE \/ \E c \in Canceller : CancelReads(c) \/ CancelFlags(c) \/ CancelRevokes(c)
             \/ LockLapses \/ Expire
    BY <1>2, OthersKeep
  <1>3. CASE UNCHANGED loginVars
    BY <1>3 DEF loginVars, LoginInv, LoginTyped, LoginTypeOK, HandsInv, Issued, Mine, CancelInv,
                CalmInv, Calm, OneInside, CopyInv, TokenInv, GivenInv, LiveInv
  <1> QED BY <1>1, <1>2, <1>3 DEF LoginNext

\* LoginInv holds: the argument of all that follows about a CLI login.
THEOREM LoginInvHolds == LoginSpec => []LoginInv
  <1> DEFINE Inv == LoginInv /\ (Calm => SeenInv)
  <1>1. LoginInit => Inv
    BY InitLoginInv DEF LoginInit, SeenInv, Before, InFlight
  <1>2. Inv /\ [LoginNext]_loginVars => Inv'
    BY NextLoginInv, SeenKept
  <1>3. Inv => LoginInv
    OBVIOUS
  <1> QED BY <1>1, <1>2, <1>3, PTL DEF LoginSpec

\* A session nobody was given does not stay live: whatever cancellation, expiry, lapse
\* of the lock or failing save cuts a poll short, it takes its session back
\* (assertCurrent and the revocations of readCliLogin).
THEOREM NoOrphanSessionHolds == LoginSpec => []NoOrphanSession
  <1>1. LoginInv => NoOrphanSession
    BY DEF LoginInv, LoginTyped, LoginTypeOK, HandsInv, NoOrphanSession, PollsEnded, InFlight
  <1> QED BY <1>1, LoginInvHolds, PTL

\* As long as no save fails and the lock holds, a role has one session, and every poll
\* of it is given that one and can use it until the login is cancelled, however late
\* it looked at the record.
THEOREM AnswerIsLiveHolds == LoginSpec => []AnswerIsLive
  <1>1. LoginInv => AnswerIsLive
    <2> SUFFICES ASSUME LoginInv, Calm PROVE GivenIsLive /\ OnePerRole
      BY DEF AnswerIsLive, Calm
    <2>1. GivenIsLive
      BY DEF LoginInv, CalmInv, GivenInv, GivenIsLive
    <2>2. OnePerRole
      <3> SUFFICES ASSUME PollsEnded, NEW s \in live, NEW t \in live,
                          call[s].role = call[t].role
                   PROVE  s = t
        BY DEF OnePerRole
      <3>1. \A q \in live : call[q].at \notin InFlight
        BY DEF PollsEnded, InFlight, LoginInv, LoginTyped, LoginTypeOK
      <3>2. stored.token[call[s].role] = s /\ stored.token[call[t].role] = t
        BY <3>1 DEF LoginInv, CalmInv, LiveInv
      <3> QED BY <3>2
    <2> QED BY <2>1, <2>2
  <1> QED BY <1>1, LoginInvHolds, PTL
=============================================================================
