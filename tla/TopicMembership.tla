-------------------------- MODULE TopicMembership --------------------------
(***************************************************************************)
(* The members of one topic, their roles, its single-use invite tokens and *)
(* its join requests.  From the routes invite, join/[inviteCode], join,    *)
(* leave, members (role change, transfer, kick), requests (review) and     *)
(* account (withdrawal).  All but the last use no transaction: a request   *)
(* checks, then writes, one statement at a time, other requests fall       *)
(* between, and a process may stop half way.  No route files a join        *)
(* request any more: rows that older versions left pending are reviewed.   *)
(*                                                                         *)
(* A user is an account row.  A withdrawal renames the row's id, and every *)
(* foreign key follows: an id read before it names nobody afterwards.      *)
(***************************************************************************)
EXTENDS Integers, FiniteSets

CONSTANTS
  User,
  Creator,     \* topics.creator_id, never rewritten
  Token,       \* single-use invite tokens
  Slot,        \* bound: requests under way together
  None,        \* not a member; no token
  MaxPending,  \* pending requests of a topic that is not public
  MaxMishaps   \* bound: withdrawn accounts and requests that stop half way, together

ASSUME CreatorIsUser == Creator \in User
ASSUME NoneIsNull == None \notin Token \cup {"owner", "admin", "member"}

VARIABLES
  role,      \* user -> topic_members.role, or None
  token,     \* token -> its row
  request,   \* user -> the join request
  slot,      \* slot -> the request under way in it
  public,    \* topics.visibility is public
  withdrawn, \* accounts whose id is retired
  admitted,  \* token -> how often it has let somebody in: 0, 1, or 2 for more
  overlapped, \* two requests have been under way together
  crashes

vars == <<role, token, request, slot, public, withdrawn, admitted, overlapped, crashes>>

account == <<public, withdrawn>>

Mishaps ==
  crashes + Cardinality(withdrawn) + Cardinality({s \in Slot : slot[s].at = "retire"})

Role == {"owner", "admin", "member"}
Free == [at |-> "free"]

TopicInit ==
  /\ role = [u \in User |-> IF u = Creator THEN "owner" ELSE None]
  /\ token = [t \in Token |-> "none"]
  /\ request \in [User -> {"none", "pending"}]
  /\ request[Creator] = "none"
  /\ public \in BOOLEAN
  /\ Cardinality({u \in User : request[u] = "pending"}) = IF public THEN 0 ELSE MaxPending
  /\ slot = [s \in Slot |-> Free]
  /\ withdrawn = {}
  /\ admitted = [t \in Token |-> 0]
  /\ overlapped = FALSE
  /\ crashes = 0

Take(s, r) ==
  /\ slot[s] = Free
  /\ slot' = [slot EXCEPT ![s] = r]
  /\ overlapped' = (overlapped \/ \E t \in Slot : slot[t] # Free)
Done(s)    == slot' = [slot EXCEPT ![s] = Free]

\* What a session of u finds: its user id is the one the account had at sign-in.
RoleOf(u) == IF u \in withdrawn THEN None ELSE role[u]
Runs(u)   == RoleOf(u) \in {"owner", "admin"}

\* u's membership is deleted by a withdrawal that has not committed: every
\* statement that touches the row waits.
Leaving(u) == \E s \in Slot : slot[s].at = "retire" /\ slot[s].by = u /\ slot[s].had

\* The id that request r read is still v's.
Names(r, v) == r.gone = (v \in withdrawn)

-----------------------------------------------------------------------------
\* POST invite.
Invite(s, u, t) ==
  /\ Runs(u) \/ (public /\ RoleOf(u) # None)
  /\ token[t] = "none"
  /\ Take(s, [at |-> "issue", token |-> t])
  /\ UNCHANGED <<role, token, request, account, admitted, crashes>>

Issue(s) ==
  /\ slot[s].at = "issue"
  /\ token' = [token EXCEPT ![slot[s].token] = IF @ = "none" THEN "unused" ELSE @]
  /\ Done(s)
  /\ UNCHANGED <<role, request, account, admitted, overlapped, crashes>>

Expire(t) ==
  /\ token[t] = "unused"
  /\ token' = [token EXCEPT ![t] = "expired"]
  /\ UNCHANGED <<role, request, slot, account, admitted, overlapped, crashes>>

\* POST join/[inviteCode]: an unused token, of someone who is not a member.
Join(s, u, t) ==
  /\ token[t] = "unused" /\ role[u] = None /\ u \notin withdrawn
  /\ Take(s, [at |-> "insert", by |-> u, token |-> t])
  /\ UNCHANGED <<role, token, request, account, admitted, crashes>>

\* POST join: a public topic asks for no token (nor does its fixed invite code).
JoinPublic(s, u) ==
  /\ public /\ role[u] = None /\ u \notin withdrawn
  /\ Take(s, [at |-> "insert", by |-> u, token |-> None])
  /\ UNCHANGED <<role, token, request, account, admitted, crashes>>

\* The row is unique and its user id a foreign key: a second insert of the same user,
\* and one of an id that was retired since, fail the request.
Insert(s) ==
  LET u == slot[s].by  t == slot[s].token IN
  /\ slot[s].at = "insert" /\ ~Leaving(u)
  /\ IF role[u] = None /\ u \notin withdrawn
     THEN /\ role' = [role EXCEPT ![u] = "member"]
          /\ admitted' = [v \in Token |-> IF v = t /\ admitted[v] < 2
                                          THEN admitted[v] + 1 ELSE admitted[v]]
          /\ IF t = None THEN Done(s) ELSE slot' = [slot EXCEPT ![s].at = "mark"]
     ELSE Done(s) /\ UNCHANGED <<role, admitted>>
  /\ UNCHANGED <<token, request, account, overlapped, crashes>>

\* Mutant of Mark: the token is not used up.
MarkSkipped(s) ==
  /\ slot[s].at = "mark"
  /\ Done(s)
  /\ UNCHANGED <<role, token, request, account, admitted, overlapped, crashes>>

Mark(s) ==
  /\ slot[s].at = "mark"
  /\ token' = [token EXCEPT ![slot[s].token] = "used"]
  /\ Done(s)
  /\ UNCHANGED <<role, request, account, admitted, overlapped, crashes>>

\* POST leave: refused to the creator.
Leave(u) ==
  /\ RoleOf(u) # None /\ u # Creator /\ ~Leaving(u)
  /\ role' = [role EXCEPT ![u] = None]
  /\ UNCHANGED <<token, request, slot, account, admitted, overlapped, crashes>>

-----------------------------------------------------------------------------
\* PATCH members: the owner gives another member a role.
Change(s, u, v, r) ==
  /\ RoleOf(u) = "owner" /\ u # v /\ role[v] # None
  /\ Take(s, [at |-> "write", by |-> u, on |-> v, role |-> r, gone |-> v \in withdrawn])
  /\ UNCHANGED <<role, token, request, account, admitted, crashes>>

\* Mutants of Write: an upsert; a transfer that keeps the old owner.
WriteUpserts(s) ==
  LET r == slot[s] IN
  /\ r.at = "write" /\ ~Leaving(r.on)
  /\ role' = [role EXCEPT ![r.on] = r.role]
  /\ IF r.role = "owner" THEN slot' = [slot EXCEPT ![s].at = "demote"] ELSE Done(s)
  /\ UNCHANGED <<token, request, account, admitted, overlapped, crashes>>
WriteShares(s) ==
  LET r == slot[s] IN
  /\ r.at = "write" /\ ~Leaving(r.on)
  /\ role' = [role EXCEPT ![r.on] = IF @ = None THEN None ELSE r.role]
  /\ Done(s)
  /\ UNCHANGED <<token, request, account, admitted, overlapped, crashes>>

\* UPDATE: nothing to write if the member has gone.
Write(s) ==
  LET r == slot[s] IN
  /\ r.at = "write" /\ ~Leaving(r.on)
  /\ role' = [role EXCEPT ![r.on] = IF @ # None /\ Names(r, r.on) THEN r.role ELSE @]
  /\ IF r.role = "owner" THEN slot' = [slot EXCEPT ![s].at = "demote"] ELSE Done(s)
  /\ UNCHANGED <<token, request, account, admitted, overlapped, crashes>>

\* The second half of a transfer.
Demote(s) ==
  LET u == slot[s].by IN
  /\ slot[s].at = "demote" /\ ~Leaving(u)
  /\ role' = [role EXCEPT ![u] = IF RoleOf(u) = None THEN @ ELSE "admin"]
  /\ Done(s)
  /\ UNCHANGED <<token, request, account, admitted, overlapped, crashes>>

\* Mutant of MayKick: admins are peers.
MayKickPeers(u, v) == u # v /\ Runs(u) /\ role[v] # None

\* DELETE members: an admin kicks members only.
MayKick(u, v) ==
  /\ u # v /\ role[v] # None
  /\ RoleOf(u) = "owner" \/ (RoleOf(u) = "admin" /\ role[v] = "member")

Kick(s, u, v) ==
  /\ MayKick(u, v)
  /\ Take(s, [at |-> "delete", on |-> v, rank |-> role[u],
              gone |-> v \in withdrawn])
  /\ UNCHANGED <<role, token, request, account, admitted, crashes>>

Delete(s) ==
  /\ slot[s].at = "delete" /\ ~Leaving(slot[s].on)
  /\ role' = [role EXCEPT ![slot[s].on] = IF Names(slot[s], slot[s].on) THEN None ELSE @]
  /\ Done(s)
  /\ UNCHANGED <<token, request, account, admitted, overlapped, crashes>>

-----------------------------------------------------------------------------
\* PATCH requests: a pending request is approved or rejected.
Review(s, u, v, verdict) ==
  /\ Runs(u) /\ request[v] = "pending"
  /\ Take(s, [at |-> "status", on |-> v, verdict |-> verdict,
              gone |-> v \in withdrawn])
  /\ UNCHANGED <<role, token, request, account, admitted, crashes>>

\* The status first, the membership second; who is in already stays as they are, and
\* an id that was retired in between is nobody's.
Status(s) ==
  LET r == slot[s] IN
  /\ r.at = "status"
  /\ request' = [request EXCEPT ![r.on] = r.verdict]
  /\ IF r.verdict = "approved" THEN slot' = [slot EXCEPT ![s].at = "admit"] ELSE Done(s)
  /\ UNCHANGED <<role, token, account, admitted, overlapped, crashes>>

Admit(s) ==
  LET u == slot[s].on IN
  /\ slot[s].at = "admit" /\ ~Leaving(u)
  /\ role' = [role EXCEPT ![u] = IF @ = None /\ Names(slot[s], u) THEN "member" ELSE @]
  /\ Done(s)
  /\ UNCHANGED <<token, request, account, admitted, overlapped, crashes>>

-----------------------------------------------------------------------------
\* DELETE account: refused to the creator of a topic.  The transaction deletes the
\* memberships it sees; one withdrawal of an account at a time.
Withdraw(s, u) ==
  /\ u # Creator /\ u \notin withdrawn /\ Mishaps < MaxMishaps
  /\ \A t \in Slot : slot[t].at = "retire" => slot[t].by # u
  /\ Take(s, [at |-> "retire", by |-> u, had |-> role[u] # None])
  /\ UNCHANGED <<role, token, request, account, admitted, crashes>>

\* It commits: the memberships it saw are gone, and the id is retired.  A row inserted
\* after the delete follows the rename.
Retire(s) ==
  LET u == slot[s].by IN
  /\ slot[s].at = "retire"
  /\ role' = [role EXCEPT ![u] = IF slot[s].had THEN None ELSE @]
  /\ withdrawn' = withdrawn \cup {u}
  /\ Done(s)
  /\ UNCHANGED <<token, request, public, admitted, overlapped, crashes>>

\* The process stops between two writes of a request.  One that stops before its first
\* write, or in a withdrawal's transaction, leaves no trace.
Crash(s) ==
  /\ slot[s].at \in {"mark", "demote", "admit"} /\ Mishaps < MaxMishaps
  /\ crashes' = crashes + 1
  /\ Done(s)
  /\ UNCHANGED <<role, token, request, account, admitted, overlapped>>

TopicNext ==
  \/ \E s \in Slot, u \in User :
       \/ \E t \in Token : Invite(s, u, t) \/ Join(s, u, t)
       \/ JoinPublic(s, u) \/ Withdraw(s, u)
       \/ \E v \in User :
            \/ \E r \in Role : Change(s, u, v, r)
            \/ Kick(s, u, v)
            \/ \E verdict \in {"approved", "rejected"} : Review(s, u, v, verdict)
  \/ \E s \in Slot :
       \/ Issue(s) \/ Insert(s) \/ Mark(s) \/ Write(s) \/ Demote(s) \/ Delete(s)
       \/ Status(s) \/ Admit(s) \/ Retire(s) \/ Crash(s)
  \/ \E u \in User : Leave(u)
  \/ \E t \in Token : Expire(t)

TopicSpec == TopicInit /\ [][TopicNext]_vars

-----------------------------------------------------------------------------
\* Type correctness.
Request ==
  {Free}
  \cup [at : {"issue"}, token : Token]
  \cup [at : {"insert", "mark"}, by : User, token : Token \cup {None}]
  \cup [at : {"write", "demote"}, by : User, on : User, role : Role, gone : BOOLEAN]
  \cup [at : {"delete"}, on : User, rank : Role, gone : BOOLEAN]
  \cup [at : {"status", "admit"}, on : User, verdict : {"approved", "rejected"},
        gone : BOOLEAN]
  \cup [at : {"retire"}, by : User, had : BOOLEAN]
TypeOK ==
  /\ role \in [User -> Role \cup {None}]
  /\ token \in [Token -> {"none", "unused", "used", "expired"}]
  /\ request \in [User -> {"none", "pending", "approved", "rejected"}]
  /\ slot \in [Slot -> Request]
  /\ public \in BOOLEAN /\ withdrawn \subseteq User
  /\ admitted \in [Token -> 0..2]
  /\ overlapped \in BOOLEAN /\ crashes \in Nat

Quiet == \A s \in Slot : slot[s] = Free
Owners == {u \in User : role[u] = "owner"}

\* Requests one at a time, each to its end; leaves and expiring tokens still fall
\* between the statements of one.
OneAtATime == ~overlapped /\ crashes = 0

\* A transfer moves the topic: through any sequence of requests there are never two
\* owners.
AtMostOneOwner == Quiet /\ OneAtATime => Cardinality(Owners) <= 1

\* A single-use token opens the topic once: not to a second user, nor again to the
\* one it let in, after that user left.
TokenAdmitsOne == OneAtATime => \A t \in Token : admitted[t] <= 1

\* A member who has left or was kicked comes back through a door only: a role
\* change, a transfer or a review that was on its way, or stopped half way, never
\* makes a member, nobody enters as more than a member, and a join that was on its way
\* when its account was withdrawn does not enter.
OnlyDoorsAdmit ==
  [][\A u \in User : role[u] = None /\ role'[u] # None =>
       /\ role'[u] = "member"
       /\ \E s \in Slot : \/ slot[s].at = "insert" /\ slot[s].by = u /\ u \notin withdrawn
                          \/ slot[s].at = "admit" /\ slot[s].on = u]_vars

\* An admin's kick that checked a member ...
SparesAdmins ==
  \A s \in Slot :
    /\ slot[s].at = "delete" /\ slot[s].rank = "admin" /\ slot'[s] = Free
    /\ role[slot[s].on] # None /\ role'[slot[s].on] = None
    => role[slot[s].on] = "member"

\* ... removes a member, not an admin or the owner, when no other request runs.
KicksDown == [][OneAtATime => SparesAdmins]_vars

\* leave: an owner must not walk out, "a topic nobody can administer".
AlwaysAnOwner == Owners # {}

\* account: "removes all memberships".
WithdrawnHaveLeft == \A u \in withdrawn : role[u] = None

\* account: "Fails if the user owns any topics (must transfer ownership first)".
OwnersStay ==
  [][\A u \in User : RoleOf(u) = "owner" => u \notin withdrawn']_vars

\* schema: an invite token is single-use.
TokenIsSingleUse == \A t \in Token : admitted[t] <= 1

\* members: "Admin can only kick members (not other admins or owner)".
AdminKicksMembers == [][SparesAdmins]_vars
=============================================================================
