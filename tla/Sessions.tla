------------------------------ MODULE Sessions ------------------------------
(***************************************************************************)
(* The sessions of one account on its phones: their records and the        *)
(* account's index in Redis (src/lib/sessionStore.ts), the gate that       *)
(* lets one phone at a time in (src/lib/deviceTakeoverGate.ts), and        *)
(* sign-in, refresh and sign-out, each a sequence of calls to Redis that   *)
(* other requests fall between.                                            *)
(***************************************************************************)
EXTENDS Integers, FiniteSets

CONSTANTS
  Phone,      \* the account's phones
  None, Unknown, \* no record; the id of a request that names no device
  MaxSessions, \* bound: sessions minted
  MaxSignIns,  \* bound: sign-ins under way together
  MaxRefresh,  \* bound: refreshes
  MaxLapses    \* bound: times the index reaches its own TTL

ASSUME SessionConstants ==
  /\ MaxSessions \in Nat
  /\ {None, Unknown} \cap Phone = {} /\ None # Unknown /\ None \notin Nat

Sid == 1..MaxSessions

VARIABLES
  minted,   \* sessions minted
  owner,    \* session -> the phone it was minted for, or None
  record,   \* session -> the device id of its record, or None
  index,    \* the account's set of session ids
  holds,    \* phone -> the session of its token, or None
  login,    \* phone -> its sign-in
  kill,     \* phone -> sessions its request is revoking, the one in hand
  logout,   \* phones that are signing out
  refresh,  \* phone -> its refresh
  told,     \* phones whose person has been told of another phone
  alarmed,  \* phones told of one when no other phone was signed in
  ended,    \* sessions that were signed out or taken over
  overlapped, \* two sign-ins have been under way together
  crossed,  \* sessions that were ended while a refresh of them was under way
  refreshes, lapses

vars == <<minted, owner, record, index, holds, login, kill, logout, refresh, told,
          alarmed, ended, overlapped, crossed, refreshes, lapses>>

\* Where a sign-in is, and what it has listed: ids to look at, live ones, dead ones,
\* those of the live that are its own.
NoLogin   == [at |-> "idle", takeover |-> FALSE, ids |-> {}, live |-> {}, dead |-> {},
              mine |-> {}, sid |-> 0]
Indexing(s) == [at |-> "index", takeover |-> FALSE, ids |-> {}, live |-> {}, dead |-> {},
                mine |-> {}, sid |-> s]
NoKill    == [todo |-> {}, cut |-> 0]
NoRefresh == [at |-> "idle", sid |-> 0]

SessionsInit ==
  /\ minted = 0
  /\ owner = [s \in Sid |-> None] /\ record = [s \in Sid |-> None]
  /\ index = {}
  /\ holds = [d \in Phone |-> None]
  /\ login = [d \in Phone |-> NoLogin] /\ kill = [d \in Phone |-> NoKill]
  /\ logout = {}
  /\ refresh = [d \in Phone |-> NoRefresh]
  /\ told = {} /\ alarmed = {} /\ ended = {}
  /\ overlapped = FALSE /\ crossed = {}
  /\ refreshes = 0 /\ lapses = 0

Live == {s \in Sid : record[s] # None}
Idle(d) == login[d] = NoLogin /\ d \notin logout
Busy == {d \in Phone : login[d] # NoLogin}

IsMine(d, s) == record[s] = d

\* liveDeviceSessions: SMEMBERS of the index ...
Listing(at, takeover) ==
  [at |-> at, takeover |-> takeover, ids |-> index, live |-> {}, dead |-> {}, mine |-> {},
   sid |-> 0]

-----------------------------------------------------------------------------
\* Sign-in: the gate lists the phones' sessions.  A person who has been told of
\* another phone may confirm the takeover.
SignIn(d, takeover) ==
  /\ Idle(d) /\ refresh[d] = NoRefresh
  /\ minted < MaxSessions /\ Cardinality(Busy) < MaxSignIns
  /\ takeover => d \in told
  /\ login' = [login EXCEPT ![d] = Listing("decide", takeover)]
  /\ overlapped' = (overlapped \/ Busy # {})
  /\ UNCHANGED <<minted, owner, record, index, holds, kill, logout, refresh, told,
                 alarmed, ended, refreshes, lapses, crossed>>

\* ... and one GET after the other: an id without a record is dead, and the record
\* of a live one tells whether it is the phone's own.
Look(d, s) ==
  LET l == login[d] IN
  /\ s \in l.ids
  /\ login' = [login EXCEPT ![d] =
       [at |-> l.at, takeover |-> l.takeover, ids |-> l.ids \ {s},
        live |-> l.live \cup ({s} \cap Live), dead |-> l.dead \cup ({s} \ Live),
        mine |-> l.mine \cup {t \in {s} : IsMine(d, t)}, sid |-> l.sid]]
  /\ UNCHANGED <<minted, owner, record, index, holds, kill, logout, refresh, told,
                 alarmed, ended, refreshes, lapses, overlapped, crossed>>

\* Mutant of Decide: the index is written as it was listed.
DecideRewrites(d) ==
  LET others == login[d].live \ login[d].mine IN
  /\ login[d].at = "decide" /\ login[d].ids = {}
  /\ index' = login[d].live
  /\ kill' = [kill EXCEPT ![d].todo = login[d].mine]
  /\ login' = [login EXCEPT ![d].at =
                 IF others = {} THEN "mint"
                 ELSE IF login[d].takeover THEN "again" ELSE "conflict"]
  /\ UNCHANGED <<minted, owner, record, holds, logout, refresh, told, alarmed,
                 ended, refreshes, lapses, overlapped, crossed>>

\* The dead ids are pruned and the phone's own sessions retired; then another
\* phone's session is a conflict, or is taken over, or there is none.
Decide(d) ==
  LET others == login[d].live \ login[d].mine IN
  /\ login[d].at = "decide" /\ login[d].ids = {}
  /\ index' = index \ login[d].dead
  /\ kill' = [kill EXCEPT ![d].todo = login[d].mine]
  /\ login' = [login EXCEPT ![d].at =
                 IF others = {} THEN "mint"
                 ELSE IF login[d].takeover THEN "again" ELSE "conflict"]
  /\ UNCHANGED <<minted, owner, record, holds, logout, refresh, told, alarmed,
                 ended, refreshes, lapses, overlapped, crossed>>

\* Mutant of Conflict: goes on as if the person had been asked.
ConflictIgnored(d) ==
  /\ login[d].at = "conflict" /\ kill[d] = NoKill
  /\ login' = [login EXCEPT ![d].at = "again"]
  /\ UNCHANGED <<minted, owner, record, index, holds, kill, logout, refresh, told,
                 alarmed, ended, refreshes, lapses, overlapped, crossed>>

\* The sign-in is refused and the other phone named.
Conflict(d) ==
  /\ login[d].at = "conflict" /\ kill[d] = NoKill
  /\ login' = [login EXCEPT ![d] = NoLogin]
  /\ told' = told \cup {d}
  /\ alarmed' = IF \A s \in login[d].live : owner[s] = d THEN alarmed \cup {d}
                ELSE alarmed
  /\ UNCHANGED <<minted, owner, record, index, holds, kill, logout, refresh,
                 ended, refreshes, lapses, overlapped, crossed>>

\* Mutant of TakeOver: the sessions of the first list stay.
TakeOverNone(d) ==
  /\ login[d].at = "again" /\ kill[d] = NoKill
  /\ login' = [login EXCEPT ![d].at = "mint"]
  /\ UNCHANGED <<minted, owner, record, index, holds, kill, logout, refresh, told,
                 alarmed, ended, refreshes, lapses, overlapped, crossed>>

\* revokeDeviceSessions: lists again.
TakeOver(d) ==
  /\ login[d].at = "again" /\ kill[d] = NoKill
  /\ login' = [login EXCEPT ![d] = Listing("retire", @.takeover)]
  /\ UNCHANGED <<minted, owner, record, index, holds, kill, logout, refresh, told,
                 alarmed, ended, refreshes, lapses, overlapped, crossed>>

\* It prunes the dead ids too, and ends every session it listed.
Retire(d) ==
  /\ login[d].at = "retire" /\ login[d].ids = {}
  /\ index' = index \ login[d].dead
  /\ kill' = [kill EXCEPT ![d].todo = login[d].live]
  /\ login' = [login EXCEPT ![d].at = "mint"]
  /\ UNCHANGED <<minted, owner, record, holds, logout, refresh, told, alarmed,
                 ended, refreshes, lapses, overlapped, crossed>>

\* revokeSession: the record first.
Revoke(d, s) ==
  /\ s \in kill[d].todo /\ kill[d].cut = 0
  /\ record' = [record EXCEPT ![s] = None]
  /\ ended' = ended \cup {s}
  /\ crossed' = crossed \cup {t \in {s} : \E e \in Phone : refresh[e].sid = t}
  /\ kill' = [kill EXCEPT ![d] = [todo |-> @.todo \ {s}, cut |-> s]]
  /\ UNCHANGED <<minted, owner, index, holds, login, logout, refresh, told,
                 alarmed, refreshes, lapses, overlapped>>

\* Then its id in the index.
Unindex(d) ==
  /\ kill[d].cut # 0
  /\ index' = index \ {kill[d].cut}
  /\ kill' = [kill EXCEPT ![d].cut = 0]
  /\ UNCHANGED <<minted, owner, record, holds, login, logout, refresh, told,
                 alarmed, ended, refreshes, lapses, overlapped, crossed>>

\* Mutant of Mint: a phone that has a token keeps its session id.
MintSame(d) ==
  LET s == IF holds[d] = None THEN minted + 1 ELSE holds[d] IN
  /\ login[d].at = "mint" /\ kill[d] = NoKill /\ minted < MaxSessions
  /\ minted' = minted + 1
  /\ owner' = [owner EXCEPT ![s] = d]
  /\ record' = [record EXCEPT ![s] = d]
  /\ login' = [login EXCEPT ![d] = Indexing(s)]
  /\ UNCHANGED <<index, holds, kill, logout, refresh, told, alarmed, ended,
                 refreshes, lapses, overlapped, crossed>>

\* createSession and rememberSession: the record, then the index.
Mint(d) ==
  /\ login[d].at = "mint" /\ kill[d] = NoKill /\ minted < MaxSessions
  /\ minted' = minted + 1
  /\ owner' = [owner EXCEPT ![minted + 1] = d]
  /\ record' = [record EXCEPT ![minted + 1] = d]
  /\ login' = [login EXCEPT ![d] = Indexing(minted + 1)]
  /\ UNCHANGED <<index, holds, kill, logout, refresh, told, alarmed, ended,
                 refreshes, lapses, overlapped, crossed>>

Index(d) ==
  /\ login[d].at = "index"
  /\ index' = index \cup {login[d].sid}
  /\ holds' = [holds EXCEPT ![d] = login[d].sid]
  /\ login' = [login EXCEPT ![d] = NoLogin]
  /\ UNCHANGED <<minted, owner, record, kill, logout, refresh, told, alarmed,
                 ended, refreshes, lapses, overlapped, crossed>>

-----------------------------------------------------------------------------
Holds(d) == holds[d] # None /\ record[holds[d]] # None

\* Refresh: the session is verified, re-minted under the same id, and indexed.
Refresh(d) ==
  /\ refresh[d] = NoRefresh /\ Holds(d) /\ refreshes < MaxRefresh
  /\ refreshes' = refreshes + 1
  /\ refresh' = [refresh EXCEPT ![d] = [at |-> "write", sid |-> holds[d]]]
  /\ UNCHANGED <<minted, owner, record, index, holds, login, kill, logout, told,
                 alarmed, ended, lapses, overlapped, crossed>>

\* The device id comes from the request's header, if the client sends one.
RefreshWrites(d) ==
  /\ refresh[d].at = "write"
  /\ \E id \in {d, Unknown} : record' = [record EXCEPT ![refresh[d].sid] = id]
  /\ refresh' = [refresh EXCEPT ![d].at = "index"]
  /\ UNCHANGED <<minted, owner, index, holds, login, kill, logout, told, alarmed,
                 ended, refreshes, lapses, overlapped, crossed>>

RefreshIndexes(d) ==
  /\ refresh[d].at = "index"
  /\ index' = index \cup {refresh[d].sid}
  /\ refresh' = [refresh EXCEPT ![d] = NoRefresh]
  /\ UNCHANGED <<minted, owner, record, holds, login, kill, logout, told, alarmed,
                 ended, refreshes, lapses, overlapped, crossed>>

\* Sign-out: the session is verified and revoked; the phone forgets its token.
SignOut(d) ==
  /\ Idle(d) /\ Holds(d)
  /\ logout' = logout \cup {d}
  /\ kill' = [kill EXCEPT ![d].todo = {holds[d]}]
  /\ UNCHANGED <<minted, owner, record, index, holds, login, refresh, told,
                 alarmed, ended, refreshes, lapses, overlapped, crossed>>

SignedOut(d) ==
  /\ d \in logout /\ kill[d] = NoKill
  /\ logout' = logout \ {d}
  /\ holds' = [holds EXCEPT ![d] = None]
  /\ UNCHANGED <<minted, owner, record, index, login, kill, refresh, told,
                 alarmed, ended, refreshes, lapses, overlapped, crossed>>

\* Thirty days without a request end a record.
Lapse(s) ==
  /\ record[s] # None /\ \A d \in Phone : refresh[d].sid # s
  /\ record' = [record EXCEPT ![s] = None]
  /\ UNCHANGED <<minted, owner, index, holds, login, kill, logout, refresh, told,
                 alarmed, ended, refreshes, lapses, overlapped, crossed>>

\* Thirty days without a write end the index, whatever requests touched.
IndexLapses ==
  /\ Busy = {} /\ logout = {} /\ \A d \in Phone : refresh[d] = NoRefresh
  /\ index # {} /\ lapses < MaxLapses
  /\ lapses' = lapses + 1
  /\ index' = {}
  /\ UNCHANGED <<minted, owner, record, holds, login, kill, logout, refresh, told,
                 alarmed, ended, refreshes, overlapped, crossed>>

SessionsNext ==
  \/ \E d \in Phone :
       \/ \E takeover \in BOOLEAN : SignIn(d, takeover)
       \/ Decide(d) \/ Conflict(d) \/ TakeOver(d) \/ Retire(d) \/ Mint(d) \/ Index(d)
       \/ Refresh(d) \/ RefreshWrites(d) \/ RefreshIndexes(d)
       \/ SignOut(d) \/ SignedOut(d) \/ Unindex(d)
       \/ \E s \in Sid : Look(d, s) \/ Revoke(d, s)
  \/ \E s \in Sid : Lapse(s)
  \/ IndexLapses

SessionsSpec == SessionsInit /\ [][SessionsNext]_vars

-----------------------------------------------------------------------------
SignInStep == {"idle", "decide", "conflict", "again", "retire", "mint", "index"}

\* Type correctness.
TypeOK ==
  /\ minted \in 0..MaxSessions
  /\ owner \in [Sid -> Phone \cup {None}]
  /\ record \in [Sid -> Phone \cup {None, Unknown}]
  /\ index \subseteq Sid /\ ended \subseteq Sid
  /\ holds \in [Phone -> Sid \cup {None}]
  /\ login \in [Phone -> [at : SignInStep,
                          takeover : BOOLEAN, ids : SUBSET Sid, live : SUBSET Sid,
                          dead : SUBSET Sid, mine : SUBSET Sid, sid : 0..MaxSessions]]
  /\ kill \in [Phone -> [todo : SUBSET Sid, cut : 0..MaxSessions]]
  /\ refresh \in [Phone -> [at : {"idle", "write", "index"}, sid : 0..MaxSessions]]
  /\ overlapped \in BOOLEAN /\ crossed \subseteq Sid
  /\ logout \subseteq Phone /\ told \subseteq Phone /\ alarmed \subseteq Phone

Quiet == Busy = {} /\ logout = {} /\ \A d \in Phone : refresh[d] = NoRefresh

\* One phone, one session: while sign-ins do not overlap at most one session lives
\* between them, however sign-outs, lapses, refreshes and takeovers interleave with
\* a sign-in, as long as nothing is ended under a refresh and the index stands.
OnePhone ==
  Quiet /\ ~overlapped /\ crossed = {} /\ lapses = 0 => \A s, t \in Live : s = t

\* The gate sees every phone, also of sign-ins that overlap: what is live is in the
\* index when nothing is under way, whatever was pruned or revoked while it was
\* written.
SeenByGate == Quiet /\ crossed = {} /\ lapses = 0 => Live \subseteq index

\* A session that was signed out or taken over is over, unless a refresh of it was
\* under way.
EndedStaysEnded == \A s \in ended \ crossed : record[s] = None

\* Nobody is signed out by a phone whose person was not told first, in whatever
\* order two phones sign in.
NoSilentTakeover ==
  [][\A s \in ended' \ ended :
       \A d \in Phone : s \in kill[d].todo /\ s \notin kill'[d].todo =>
         owner[s] = d \/ d \in told]_vars

\* deviceTakeoverGate: signing in on a new phone "ends the session on the old one".
NewPhoneEndsOld == Quiet => \A s, t \in Live : s = t

\* sessionStore: "signing out must actually end the session".
SignOutEnds == \A s \in ended : record[s] = None

\* sessionStore: the index is "the set of live session ids for one account".
IndexNamesLive == Quiet => Live \subseteq index

\* deviceTakeoverGate: a phone's own session never makes it look like two phones,
\* "the exact false alarm this function exists to remove".
NoFalseAlarm == alarmed = {}
=============================================================================
