----------------------- MODULE TopicMembershipProofs -----------------------
(***************************************************************************)
(* Proofs about TopicMembership, for every set of users, tokens and slots  *)
(* and every bound.                                                        *)
(*                                                                         *)
(* OnlyDoorsAdmit needs no more than types: it holds however requests      *)
(* interleave and stop.  TokenAdmitsOne and KicksDown hold while requests  *)
(* run one at a time, and rest on Alone: no request but one is under way,  *)
(* so what it has read still holds when it writes.                         *)
(***************************************************************************)
EXTENDS TopicMembership, TLAPS

\* One request at a time: one slot is taken.
Alone == OneAtATime => \A s, t \in Slot : slot[s] # Free /\ slot[t] # Free => s = t

\* A token that let somebody in did so once, and is used, or its request is about to say so.
Spent(t) ==
  \/ admitted[t] = 0
  \/ /\ admitted[t] = 1
     /\ token[t] = "used" \/ \E s \in Slot : slot[s].at = "mark" /\ slot[s].token = t

\* A join that is about to insert has a token nobody came in by.
Fresh(s) ==
  slot[s].at = "insert" /\ slot[s].token \in Token => admitted[slot[s].token] = 0

\* An admin's kick under way still faces a member, or nobody.
RankStands(s) ==
  slot[s].at = "delete" /\ slot[s].rank = "admin" => role[slot[s].on] \in {"member", None}

CalmInv ==
  OneAtATime => /\ \A t \in Token : Spent(t)
                /\ \A s \in Slot : Fresh(s) /\ RankStands(s)

TInv == TypeOK /\ Alone /\ CalmInv

-----------------------------------------------------------------------------
\* What a slot holds, by what its request does next.
LEMMA SlotFields ==
  ASSUME TypeOK, NEW s \in Slot
  PROVE  /\ slot[s] \in Request
         /\ slot[s].at = "issue" => slot[s].token \in Token
         /\ slot[s].at \in {"insert", "mark"}
              => slot[s] \in [at : {"insert", "mark"}, by : User, token : Token \cup {None}]
         /\ slot[s].at \in {"write", "demote"}
              => slot[s] \in [at : {"write", "demote"}, by : User, on : User, role : Role,
                              gone : BOOLEAN]
         /\ slot[s].at = "delete" => slot[s].on \in User
         /\ slot[s].at \in {"status", "admit"}
              => slot[s] \in [at : {"status", "admit"}, on : User,
                              verdict : {"approved", "rejected"}, gone : BOOLEAN]
         /\ slot[s].at = "retire" => slot[s].by \in User
         /\ slot[s] # Free => slot[s].at # "free"
  <1>1. slot[s] \in Request
    BY DEF TypeOK
  <1>2. Free.at = "free"
    BY DEF Free
  <1> QED BY <1>1, <1>2 DEF Request

\* A request begins: its record is one of those the handlers keep.
LEMMA TakeTyped ==
  ASSUME TypeOK, NEW s \in Slot, NEW r \in Request, Take(s, r)
  PROVE  /\ slot' \in [Slot -> Request] /\ overlapped' \in BOOLEAN
  BY DEF TypeOK, Take

\* A request ends.
LEMMA DoneTyped ==
  ASSUME TypeOK, NEW s \in Slot, Done(s)
  PROVE  slot' \in [Slot -> Request]
  <1>1. Free \in Request
    BY DEF Request
  <1> QED BY <1>1 DEF TypeOK, Done

\* The first statement of request s only takes its slot.
Starts(s) ==
  /\ \E r \in Request : r # Free /\ Take(s, r)
  /\ UNCHANGED <<role, token, request, account, admitted, crashes>>

\* The handlers' first statements, checks included, are such starts.
LEMMA BeginStarts ==
  ASSUME TypeOK, NEW s \in Slot, NEW u \in User,
         \/ \E t \in Token : Invite(s, u, t) \/ Join(s, u, t)
         \/ JoinPublic(s, u) \/ Withdraw(s, u)
         \/ \E v \in User :
              \/ \E r \in Role : Change(s, u, v, r)
              \/ Kick(s, u, v)
              \/ \E verdict \in {"approved", "rejected"} : Review(s, u, v, verdict)
  PROVE  Starts(s)
  <1>0. Free.at = "free" /\ \A v \in User : (v \in withdrawn) \in BOOLEAN
    BY DEF Free
  <1>1. ASSUME NEW t \in Token, Invite(s, u, t) PROVE Starts(s)
    <2> DEFINE r == [at |-> "issue", token |-> t]
    <2>1. r \in Request /\ r # Free
      BY <1>0 DEF Request
    <2> QED BY <1>1, <2>1 DEF Invite, Starts
  <1>2. ASSUME NEW t \in Token \cup {None}, Take(s, [at |-> "insert", by |-> u, token |-> t]),
               UNCHANGED <<role, token, request, account, admitted, crashes>>
        PROVE  Starts(s)
    <2> DEFINE r == [at |-> "insert", by |-> u, token |-> t]
    <2>1. r \in Request /\ r # Free
      BY <1>0 DEF Request
    <2> QED BY <1>2, <2>1 DEF Starts
  <1>3. CASE Withdraw(s, u)
    <2> DEFINE r == [at |-> "retire", by |-> u, had |-> role[u] # None]
    <2>1. r \in Request /\ r # Free
      BY <1>0 DEF Request
    <2> QED BY <1>3, <2>1 DEF Withdraw, Starts
  <1>4. ASSUME NEW v \in User, NEW q \in Role, Change(s, u, v, q) PROVE Starts(s)
    <2> DEFINE r == [at |-> "write", by |-> u, on |-> v, role |-> q, gone |-> v \in withdrawn]
    <2>1. r \in Request /\ r # Free
      BY <1>0 DEF Request
    <2> QED BY <1>4, <2>1 DEF Change, Starts
  <1>5. ASSUME NEW v \in User, Kick(s, u, v) PROVE Starts(s)
    <2> DEFINE r == [at |-> "delete", on |-> v, rank |-> role[u], gone |-> v \in withdrawn]
    <2>0. role[u] \in Role
      BY <1>5 DEF Kick, MayKick, RoleOf, Role, TypeOK
    <2>1. r \in Request /\ r # Free
      BY <1>0, <2>0 DEF Request
    <2> QED BY <1>5, <2>1 DEF Kick, Starts
  <1>6. ASSUME NEW v \in User, NEW w \in {"approved", "rejected"}, Review(s, u, v, w)
        PROVE  Starts(s)
    <2> DEFINE r == [at |-> "status", on |-> v, verdict |-> w, gone |-> v \in withdrawn]
    <2>1. r \in Request /\ r # Free
      BY <1>0 DEF Request
    <2> QED BY <1>6, <2>1 DEF Review, Starts
  <1> QED BY <1>1, <1>2, <1>3, <1>4, <1>5, <1>6 DEF Join, JoinPublic

\* Every step starts a request, or is one of a request under way, a leave or an expiry.
Works(s) ==
  \/ Issue(s) \/ Insert(s) \/ Mark(s) \/ Write(s) \/ Demote(s) \/ Delete(s)
  \/ Status(s) \/ Admit(s) \/ Retire(s) \/ Crash(s)

\* Types are kept.
LEMMA NextTypeOK ==
  ASSUME TypeOK, [TopicNext]_vars
  PROVE  TypeOK'
  <1>1. ASSUME NEW s \in Slot, Starts(s) PROVE TypeOK'
    BY <1>1, TakeTyped DEF Starts, TypeOK, account
  <1>2. ASSUME NEW s \in Slot, Works(s) PROVE TypeOK'
    <2>0. slot \in [Slot -> Request] /\ (Done(s) => slot' \in [Slot -> Request])
      BY DoneTyped DEF TypeOK
    <2>1. CASE Issue(s)
      BY <2>0, <2>1 DEF TypeOK, Issue, account
    <2>2. CASE Insert(s)
      <3>1. slot[s] \in [at : {"insert", "mark"}, by : User, token : Token \cup {None}]
        BY <2>2, SlotFields DEF Insert
      <3>2. [slot[s] EXCEPT !.at = "mark"] \in Request
        BY <3>1 DEF Request
      <3>3. slot' \in [Slot -> Request]
        BY <2>0, <2>2, <3>2 DEF Insert
      <3>4. admitted' \in [Token -> 0..2] /\ role' \in [User -> Role \cup {None}]
        BY <2>2, <3>1 DEF Insert, TypeOK, Role
      <3> QED BY <2>2, <3>3, <3>4 DEF Insert, TypeOK, account
    <2>3. CASE Mark(s)
      BY <2>0, <2>3 DEF TypeOK, Mark, account
    <2>4. CASE Write(s)
      <3>1. slot[s] \in [at : {"write", "demote"}, by : User, on : User, role : Role,
                         gone : BOOLEAN]
        BY <2>4, SlotFields DEF Write
      <3>2. [slot[s] EXCEPT !.at = "demote"] \in Request
        BY <3>1 DEF Request
      <3>3. slot' \in [Slot -> Request]
        BY <2>0, <2>4, <3>2 DEF Write
      <3>4. role' \in [User -> Role \cup {None}]
        BY <2>4, <3>1 DEF Write, TypeOK
      <3> QED BY <2>4, <3>3, <3>4 DEF Write, TypeOK, account
    <2>5. CASE Demote(s)
      BY <2>0, <2>5 DEF TypeOK, Demote, account, Role
    <2>6. CASE Delete(s)
      BY <2>0, <2>6 DEF TypeOK, Delete, account
    <2>7. CASE Status(s)
      <3>1. slot[s] \in [at : {"status", "admit"}, on : User,
                         verdict : {"approved", "rejected"}, gone : BOOLEAN]
        BY <2>7, SlotFields DEF Status
      <3>2. [slot[s] EXCEPT !.at = "admit"] \in Request
        BY <3>1 DEF Request
      <3>3. slot' \in [Slot -> Request]
        BY <2>0, <2>7, <3>2 DEF Status
      <3>4. request' \in [User -> {"none", "pending", "approved", "rejected"}]
        BY <2>7, <3>1 DEF Status, TypeOK
      <3> QED BY <2>7, <3>3, <3>4 DEF Status, TypeOK, account
    <2>8. CASE Admit(s)
      BY <2>0, <2>8 DEF TypeOK, Admit, account, Role
    <2>9. CASE Retire(s)
      <3>1. slot[s].by \in User
        BY <2>9, SlotFields DEF Retire
      <3> QED BY <2>0, <2>9, <3>1 DEF TypeOK, Retire
    <2>10. CASE Crash(s)
      BY <2>0, <2>10 DEF TypeOK, Crash, account
    <2> QED BY <1>2, <2>1, <2>2, <2>3, <2>4, <2>5, <2>6, <2>7, <2>8, <2>9, <2>10 DEF Works
  <1>3. ASSUME NEW u \in User, Leave(u) PROVE TypeOK'
    BY <1>3 DEF Leave, TypeOK, account
  <1>4. ASSUME NEW t \in Token, Expire(t) PROVE TypeOK'
    BY <1>4 DEF Expire, TypeOK, account
  <1>5. CASE UNCHANGED vars
    BY <1>5 DEF vars, TypeOK
  <1> QED BY <1>1, <1>2, <1>3, <1>4, <1>5, BeginStarts DEF TopicNext, Works

-----------------------------------------------------------------------------
\* Requests that ran one at a time did so before.
LEMMA StaysCalm ==
  ASSUME TypeOK, [TopicNext]_vars, OneAtATime'
  PROVE  OneAtATime
  <1>1. ASSUME NEW s \in Slot, Starts(s) PROVE OneAtATime
    BY <1>1 DEF Starts, Take, OneAtATime, TypeOK
  <1>2. ASSUME NEW s \in Slot, Works(s) PROVE OneAtATime
    BY <1>2 DEF Works, OneAtATime, TypeOK, Issue, Insert, Mark, Write, Demote, Delete, Status,
                Admit, Retire, Crash
  <1>3. ASSUME NEW u \in User, Leave(u) PROVE OneAtATime
    BY <1>3 DEF Leave, OneAtATime
  <1>4. ASSUME NEW t \in Token, Expire(t) PROVE OneAtATime
    BY <1>4 DEF Expire, OneAtATime
  <1>5. CASE UNCHANGED vars
    BY <1>5 DEF vars, OneAtATime
  <1> QED BY <1>1, <1>2, <1>3, <1>4, <1>5, BeginStarts DEF TopicNext, Works

\* Only a start fills a slot, and a second one at the same time is noted.
LEMMA NextAlone ==
  ASSUME TypeOK, Alone, [TopicNext]_vars
  PROVE  Alone'
  <1> SUFFICES ASSUME OneAtATime', NEW s \in Slot, NEW t \in Slot,
                      slot'[s] # Free, slot'[t] # Free
               PROVE  s = t
    BY DEF Alone
  <1>0. OneAtATime /\ \A x, y \in Slot : slot[x] # Free /\ slot[y] # Free => x = y
    BY StaysCalm DEF Alone
  <1>1. ASSUME NEW x \in Slot, Starts(x) PROVE s = t
    BY <1>1 DEF Starts, Take, OneAtATime, TypeOK
  <1>2. ASSUME NEW x \in Slot, Works(x)
        PROVE  slot[x] # Free /\ \A y \in Slot : y # x => slot'[y] = slot[y]
    <2>1. Free.at = "free" /\ slot \in [Slot -> Request]
      BY DEF Free, TypeOK
    <2> QED BY <1>2, <2>1 DEF Works, Issue, Insert, Mark, Write, Demote, Delete, Status, Admit,
                              Retire, Crash, Done
  <1>3. ASSUME NEW u \in User, Leave(u) PROVE slot' = slot
    BY <1>3 DEF Leave
  <1>4. ASSUME NEW x \in Token, Expire(x) PROVE slot' = slot
    BY <1>4 DEF Expire
  <1>5. CASE UNCHANGED vars
    BY <1>0, <1>5 DEF vars
  <1> QED BY <1>0, <1>1, <1>2, <1>3, <1>4, <1>5, BeginStarts DEF TopicNext, Works

\* A request starts when no other runs: what it has checked is so.
LEMMA CalmStarts ==
  ASSUME TInv, OneAtATime, OneAtATime', NEW x \in Slot, Starts(x),
         slot'[x].at = "insert" /\ slot'[x].token \in Token
           => token[slot'[x].token] = "unused",
         slot'[x].at = "delete" /\ slot'[x].rank = "admin"
           => role[slot'[x].on] \in {"member", None}
  PROVE  CalmInv'
  <1>0. Free.at = "free"
    BY DEF Free
  <1>1. /\ \A s \in Slot : slot[s] = Free
        /\ \A s \in Slot : s # x => slot'[s] = Free
        /\ UNCHANGED <<role, token, admitted>>
    BY DEF Starts, Take, OneAtATime, TInv, TypeOK
  <1>2. \A t \in Token : admitted[t] = 0 \/ (admitted[t] = 1 /\ token[t] = "used")
    <2>1. \A s \in Slot : slot[s].at # "mark"
      BY <1>0, <1>1
    <2> QED BY <2>1 DEF TInv, CalmInv, Spent
  <1>3. \A t \in Token : Spent(t)'
    BY <1>1, <1>2 DEF Spent
  <1>4. ASSUME NEW s \in Slot PROVE Fresh(s)' /\ RankStands(s)'
    <2>1. CASE s # x
      BY <1>0, <1>1, <2>1 DEF Fresh, RankStands
    <2>2. CASE s = x
      <3>1. Fresh(s)'
        BY <1>1, <1>2, <2>2 DEF Fresh
      <3>2. RankStands(s)'
        BY <1>1, <2>2 DEF RankStands
      <3> QED BY <3>1, <3>2
    <2> QED BY <2>1, <2>2
  <1> QED BY <1>3, <1>4 DEF CalmInv

\* It goes on, alone: it inserts a first user, marks its token, or touches neither.
LEMMA CalmWorks ==
  ASSUME TInv, OneAtATime, OneAtATime', NEW x \in Slot, Works(x)
  PROVE  CalmInv'
  <1>0. Free.at = "free" /\ slot \in [Slot -> Request] /\ None \notin Token
    BY NoneIsNull DEF Free, TInv, TypeOK
  <1>1. \A s \in Slot : s # x => slot[s] = Free /\ slot'[s] = Free
    <2>1. slot[x] # Free /\ \A s \in Slot : s # x => slot'[s] = slot[s]
      BY <1>0 DEF Works, Issue, Insert, Mark, Write, Demote, Delete, Status, Admit, Retire, Crash, Done
    <2> QED BY <2>1 DEF TInv, Alone
  <1>2. slot'[x].at \in {"free", "mark", "demote", "admit"}
    <2>1. slot'[x] \in {Free, [slot[x] EXCEPT !.at = "mark"], [slot[x] EXCEPT !.at = "demote"],
                      [slot[x] EXCEPT !.at = "admit"]}
      BY <1>0 DEF Works, Issue, Insert, Mark, Write, Demote, Delete, Status, Admit, Retire, Crash, Done
    <2>2. ~Crash(x)
      BY DEF Crash, OneAtATime, TInv, TypeOK
    <2>3. CASE Insert(x)
      <3>1. slot[x] \in [at : {"insert", "mark"}, by : User, token : Token \cup {None}]
        BY <2>3, SlotFields DEF Insert, TInv
      <3> QED BY <1>0, <2>3, <3>1 DEF Insert, Done
    <2>4. CASE Write(x)
      <3>1. slot[x] \in [at : {"write", "demote"}, by : User, on : User, role : Role,
                         gone : BOOLEAN]
        BY <2>4, SlotFields DEF Write, TInv
      <3> QED BY <1>0, <2>4, <3>1 DEF Write, Done
    <2>5. CASE Status(x)
      <3>1. slot[x] \in [at : {"status", "admit"}, on : User,
                         verdict : {"approved", "rejected"}, gone : BOOLEAN]
        BY <2>5, SlotFields DEF Status, TInv
      <3> QED BY <1>0, <2>5, <3>1 DEF Status, Done
    <2> QED BY <1>0, <2>2, <2>3, <2>4, <2>5
            DEF Works, Issue, Mark, Demote, Delete, Admit, Retire, Done
  <1>3. \A s \in Slot : Fresh(s)' /\ RankStands(s)'
    BY <1>0, <1>1, <1>2 DEF Fresh, RankStands
  <1>4. ASSUME NEW t \in Token PROVE Spent(t)'
    <2>1. Spent(t) /\ Fresh(x)
      BY DEF TInv, CalmInv
    <2>2. CASE Insert(x)
      <3>1. slot[x] \in [at : {"insert", "mark"}, by : User, token : Token \cup {None}]
        BY <2>2, SlotFields DEF Insert, TInv
      <3>2. admitted[t] = 0 \/ (admitted[t] = 1 /\ token[t] = "used")
        <4>1. \A s \in Slot : slot[s].at # "mark"
          BY <1>0, <1>1, <2>2 DEF Insert
        <4> QED BY <2>1, <4>1 DEF Spent
      <3>3. CASE admitted' = admitted
        BY <2>2, <3>2, <3>3 DEF Insert, Spent
      <3>4. CASE /\ admitted' = [v \in Token |-> IF v = slot[x].token /\ admitted[v] < 2
                                                  THEN admitted[v] + 1 ELSE admitted[v]]
                 /\ IF slot[x].token = None THEN Done(x) ELSE slot' = [slot EXCEPT ![x].at = "mark"]
        <4>1. CASE slot[x].token # t
          <5>1. admitted'[t] = admitted[t]
            BY <3>4, <4>1
          <5> QED BY <2>2, <3>2, <5>1 DEF Insert, Spent
        <4>2. CASE slot[x].token = t
          <5>1. admitted[t] = 0
            BY <2>1, <2>2, <4>2 DEF Fresh, Insert
          <5>2. admitted'[t] = 1
            BY <3>1, <3>4, <4>2, <5>1
          <5>3. slot'[x].at = "mark" /\ slot'[x].token = t
            BY <1>0, <3>1, <3>4, <4>2
          <5> QED BY <5>2, <5>3 DEF Spent
        <4> QED BY <4>1, <4>2
      <3> QED BY <2>2, <3>3, <3>4 DEF Insert
    <2>3. CASE Mark(x)
      <3>1. admitted' = admitted /\ token' = [token EXCEPT ![slot[x].token] = "used"]
        BY <2>3 DEF Mark
      <3>2. token[t] = "used" => token'[t] = "used"
        BY <3>1 DEF TInv, TypeOK
      <3>3. ASSUME NEW s \in Slot, slot[s].at = "mark", slot[s].token = t PROVE token'[t] = "used"
        BY <1>0, <1>1, <3>1, <3>3 DEF TInv, TypeOK
      <3> QED BY <2>1, <3>1, <3>2, <3>3 DEF Spent
    <2>4. CASE slot[x].at # "mark" /\ admitted' = admitted /\ (token[t] = "used" => token'[t] = "used")
      BY <1>0, <1>1, <2>1, <2>4 DEF Spent
    <2>5. CASE Issue(x)
      <3>1. slot[x].at = "issue" /\ admitted' = admitted
            /\ token' = [token EXCEPT ![slot[x].token] = IF @ = "none" THEN "unused" ELSE @]
        BY <2>5 DEF Issue
      <3>2. token[t] = "used" => token'[t] = "used"
        BY <3>1 DEF TInv, TypeOK
      <3> QED BY <2>4, <3>1, <3>2
    <2>6. ~Crash(x)
      BY DEF Crash, OneAtATime, TInv, TypeOK
    <2> QED BY <2>2, <2>3, <2>4, <2>5, <2>6
            DEF Works, Write, Demote, Delete, Status, Admit, Retire
  <1> QED BY <1>3, <1>4 DEF CalmInv

\* While requests run one at a time, tokens are spent and ranks stand.
LEMMA NextCalm ==
  ASSUME TInv, [TopicNext]_vars
  PROVE  CalmInv'
  <1> SUFFICES ASSUME OneAtATime' PROVE CalmInv'
    BY DEF CalmInv
  <1>0. OneAtATime /\ TypeOK /\ Free.at = "free" /\ None \notin Token
    BY StaysCalm, NoneIsNull DEF TInv, Free
  <1>1. ASSUME NEW s \in Slot, NEW u \in User,
               \/ \E t \in Token : Invite(s, u, t) \/ Join(s, u, t)
               \/ JoinPublic(s, u) \/ Withdraw(s, u)
               \/ \E v \in User :
                    \/ \E r \in Role : Change(s, u, v, r)
                    \/ Kick(s, u, v)
                    \/ \E verdict \in {"approved", "rejected"} : Review(s, u, v, verdict)
        PROVE  CalmInv'
    <2>1. Starts(s)
      BY <1>0, <1>1, BeginStarts
    <2>2. \A r : Take(s, r) => slot'[s] = r
      BY <1>0 DEF Take, TypeOK
    <2>3. /\ slot'[s].at = "insert" /\ slot'[s].token \in Token => token[slot'[s].token] = "unused"
          /\ slot'[s].at = "delete" /\ slot'[s].rank = "admin" => role[slot'[s].on] \in {"member", None}
      <3>1. ASSUME NEW v \in User, Kick(s, u, v) PROVE <2>3
        <4>1. slot'[s] = [at |-> "delete", on |-> v, rank |-> role[u], gone |-> v \in withdrawn]
          BY <2>2, <3>1 DEF Kick
        <4>2. role[u] = "admin" => role[v] = "member"
          BY <3>1, NoneIsNull DEF Kick, MayKick, RoleOf
        <4> QED BY <4>1, <4>2
      <3>2. ASSUME NEW t \in Token, Join(s, u, t) PROVE <2>3
        <4>1. slot'[s] = [at |-> "insert", by |-> u, token |-> t] /\ token[t] = "unused"
          BY <2>2, <3>2 DEF Join
        <4> QED BY <4>1
      <3>3. ASSUME JoinPublic(s, u) PROVE <2>3
        <4>1. slot'[s] = [at |-> "insert", by |-> u, token |-> None]
          BY <2>2, <3>3 DEF JoinPublic
        <4> QED BY <1>0, <4>1
      <3>4. ASSUME \/ \E t \in Token : Invite(s, u, t)
                   \/ Withdraw(s, u)
                   \/ \E v \in User :
                        \/ \E r \in Role : Change(s, u, v, r)
                        \/ \E verdict \in {"approved", "rejected"} : Review(s, u, v, verdict)
            PROVE  slot'[s].at \notin {"insert", "delete"}
        <4>1. ASSUME NEW t \in Token, Invite(s, u, t) PROVE slot'[s].at = "issue"
          BY <2>2, <4>1 DEF Invite
        <4>2. Withdraw(s, u) => slot'[s].at = "retire"
          BY <2>2 DEF Withdraw
        <4>3. ASSUME NEW v \in User, NEW r \in Role, Change(s, u, v, r)
              PROVE  slot'[s].at = "write"
          BY <2>2, <4>3 DEF Change
        <4>4. ASSUME NEW v \in User, NEW verdict \in {"approved", "rejected"},
                     Review(s, u, v, verdict)
              PROVE  slot'[s].at = "status"
          BY <2>2, <4>4 DEF Review
        <4> QED BY <3>4, <4>1, <4>2, <4>3, <4>4
      <3> QED BY <1>1, <3>1, <3>2, <3>3, <3>4
    <2> QED BY <1>0, <2>1, <2>3, CalmStarts
  <1>2. ASSUME NEW s \in Slot, Works(s) PROVE CalmInv'
    BY <1>0, <1>2, CalmWorks
  <1>3. ASSUME NEW u \in User, Leave(u) PROVE CalmInv'
    <2>1. /\ UNCHANGED <<token, slot, admitted>>
          /\ \A v \in User : role'[v] \in {role[v], None}
      BY <1>0, <1>3 DEF Leave, TypeOK
    <2>2. \A s \in Slot : slot[s].at = "delete" => slot[s].on \in User
      BY <1>0, SlotFields
    <2> QED BY <1>0, <2>1, <2>2 DEF TInv, CalmInv, Spent, Fresh, RankStands
  <1>4. ASSUME NEW t \in Token, Expire(t) PROVE CalmInv'
    <2>1. /\ UNCHANGED <<role, slot, admitted>>
          /\ \A v \in Token : token[v] = "used" => token'[v] = "used"
      BY <1>0, <1>4 DEF Expire, TypeOK
    <2> QED BY <1>0, <2>1 DEF TInv, CalmInv, Spent, Fresh, RankStands
  <1>5. CASE UNCHANGED vars
    BY <1>0, <1>5 DEF vars, TInv, CalmInv, Spent, Fresh, RankStands
  <1> QED BY <1>1, <1>2, <1>3, <1>4, <1>5 DEF TopicNext, Works

-----------------------------------------------------------------------------
\* The topic starts typed, with nothing under way.
LEMMA InitTInv == TopicInit => TInv
  <1> SUFFICES ASSUME TopicInit PROVE TInv
    OBVIOUS
  <1>1. Free \in Request /\ Free.at = "free"
    BY DEF Request, Free
  <1>2. TypeOK
    <2>1. role \in [User -> Role \cup {None}] /\ slot \in [Slot -> Request]
      BY <1>1 DEF TopicInit, Role
    <2>2. /\ token \in [Token -> {"none", "unused", "used", "expired"}]
          /\ request \in [User -> {"none", "pending", "approved", "rejected"}]
          /\ admitted \in [Token -> 0..2] /\ withdrawn \subseteq User
      BY DEF TopicInit
    <2>3. overlapped \in BOOLEAN
      BY Zenon DEF TopicInit
    <2>5. crashes = 0
      BY Zenon DEF TopicInit
    <2>4. public \in BOOLEAN
      BY Zenon DEF TopicInit
    <2> QED BY <2>1, <2>2, <2>3, <2>4, <2>5 DEF TypeOK
  <1>3. Alone /\ CalmInv
    BY <1>1 DEF TopicInit, Alone, CalmInv, Spent, Fresh, RankStands
  <1> QED BY <1>2, <1>3 DEF TInv

\* In every reachable state the types hold, and what calm requests have read stands.
THEOREM MembershipSafety == TopicSpec => []TInv
  <1>1. TInv /\ [TopicNext]_vars => TInv'
    BY NextTypeOK, NextAlone, NextCalm DEF TInv
  <1> QED BY <1>1, InitTInv, PTL DEF TopicSpec

\* A single-use token opens the topic once, requests running one at a time (insert and
\* mark are two statements of POST join/[inviteCode]).
THEOREM TokenAdmitsOneHolds == TopicSpec => []TokenAdmitsOne
  <1>1. TInv => TokenAdmitsOne
    <2> SUFFICES ASSUME TInv, OneAtATime, NEW t \in Token PROVE admitted[t] <= 1
      BY DEF TokenAdmitsOne
    <2>1. admitted[t] = 0 \/ admitted[t] = 1
      BY DEF TInv, CalmInv, Spent
    <2> QED BY <2>1
  <1> QED BY <1>1, MembershipSafety, PTL

\* An admin's kick removes a member only, requests running one at a time.
THEOREM KicksDownHolds == TopicSpec => KicksDown
  <1>1. TInv => (OneAtATime => SparesAdmins)
    BY DEF TInv, CalmInv, RankStands, SparesAdmins
  <1> QED BY <1>1, MembershipSafety, PTL DEF TopicSpec, KicksDown

\* Whatever interleaves or stops half way, a user comes in by an insert of its own join
\* or by an approval, as a member, and not under a retired id by a join.
LEMMA DoorStep ==
  ASSUME TypeOK, [TopicNext]_vars, NEW u \in User, role[u] = None, role'[u] # None
  PROVE  /\ role'[u] = "member"
         /\ \E s \in Slot : \/ slot[s].at = "insert" /\ slot[s].by = u /\ u \notin withdrawn
                            \/ slot[s].at = "admit" /\ slot[s].on = u
  <1>0. role \in [User -> Role \cup {None}]
    BY DEF TypeOK
  <1>1. ASSUME NEW s \in Slot, Starts(s) PROVE FALSE
    BY <1>1 DEF Starts
  <1>2. ASSUME NEW s \in Slot, Works(s), ~Insert(s), ~Admit(s) PROVE FALSE
    BY <1>0, <1>2 DEF Works, Issue, Mark, Write, Demote, Delete, Status, Retire, Crash, RoleOf
  <1>3. ASSUME NEW v \in User, Leave(v) PROVE FALSE
    BY <1>0, <1>3 DEF Leave
  <1>4. ASSUME NEW t \in Token, Expire(t) PROVE FALSE
    BY <1>4 DEF Expire
  <1>5. role' # role
    OBVIOUS
  <1>6. PICK s \in Slot : Insert(s) \/ Admit(s)
    BY <1>1, <1>2, <1>3, <1>4, <1>5, BeginStarts DEF TopicNext, Works, vars
  <1> QED BY <1>0, <1>6 DEF Insert, Admit

\* The doors of OnlyDoorsAdmit are the only ones, for every interleaving and any
\* number of stops.
THEOREM OnlyDoorsAdmitHolds == TopicSpec => OnlyDoorsAdmit
  <1>1. TInv /\ [TopicNext]_vars
          => [\A u \in User : role[u] = None /\ role'[u] # None =>
               /\ role'[u] = "member"
               /\ \E s \in Slot : \/ slot[s].at = "insert" /\ slot[s].by = u /\ u \notin withdrawn
                                  \/ slot[s].at = "admit" /\ slot[s].on = u]_vars
    BY DoorStep DEF TInv
  <1> QED BY <1>1, MembershipSafety, PTL DEF TopicSpec, OnlyDoorsAdmit
=============================================================================
