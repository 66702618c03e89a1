------------------------- MODULE PostFeedbackProofs -------------------------
(***************************************************************************)
(* Proofs about PostFeedback, for every set of users and options and every *)
(* number of requests and faults.                                          *)
(*                                                                         *)
(* RecordsAgree holds however requests interleave and wherever they stop.  *)
(* It rests on Filed: a request that has inserted its row carries the      *)
(* content of that row.  RecordedIsShown holds as long as no edit overlaps *)
(* a record and none stops: ShownInv says why an edit that begins then     *)
(* finds nothing on the chain.                                             *)
(*                                                                         *)
(* The counters rest on accounts of what has happened in each table and    *)
(* has not reached its counter yet: CountsAddUp and ScoreIsCurrent read    *)
(* them off when nothing is under way.                                     *)
(***************************************************************************)
EXTENDS PostFeedback, FiniteSetTheorems, TLAPS

ContentKind == {"options", "edit", "delete", "record"}
Kind == {"vote", "comment", "uncomment", "choose", "unchoose"} \cup ContentKind

Shaped(q) ==
  q = [kind |-> q.kind, by |-> q.by, arg |-> q.arg, seen |-> q.seen, step |-> q.step]

\* What a request under way may be.
Known(q) ==
  /\ Shaped(q)
  /\ IF q.step = "done" THEN q.kind = "none" ELSE q.kind \in Kind
  /\ q.step \in {"score", "store"} => q.kind = "vote"
  /\ q.step = "clear" => q.kind \in {"choose", "unchoose"}
  /\ q.kind = "record" => q.by \in User

ReqInv ==
  /\ begun \in Nat
  /\ request = [r \in Request |-> request[r]]
  /\ \A r \in Request : Known(request[r]) /\ (r > begun => request[r] = Ended)

Row == [status : {"none", "pending", "confirmed", "failed"}, hash : Content \cup {None}]

\* A record past its reads knows the content; past its insert, the row has it too.
Filed(r) ==
  request[r].kind = "record" =>
    /\ request[r].step \in {"insert", "chain", "confirm", "fail"} => request[r].seen \in Content
    /\ request[r].step \in {"chain", "confirm", "fail"}
         => record[request[r].by].hash = request[r].seen
    /\ request[r].step = "confirm" => chain[request[r].by] # None

RecInv ==
  /\ content \in Content
  /\ record \in [User -> Row] /\ chain \in [User -> Content \cup {None}]
  /\ mempool \in [User -> Content \cup {None}]
  /\ \A u \in User : mempool[u] # None => record[u].hash = mempool[u]
  /\ \A r \in Request : Filed(r)
  /\ RecordsAgree

-----------------------------------------------------------------------------
\* Nulls, ended requests and requests' names are what they are.
LEMMA NullsAreNoContent ==
  /\ None \notin Content /\ NoRow.hash = None /\ NoRow \in Row
  /\ Known(Ended) /\ Ended.step = "done" /\ Ended.kind = "none"
  /\ Request \subseteq Content /\ MaxRequests \in Nat
  BY PostConstants DEF Content, NoRow, Row, Known, Shaped, Ended, Request

\* A request that ends, goes on or learns something is one of its kind.
LEMMA GoKnown ==
  ASSUME ReqInv, NEW r \in Request, NEW step,
         step \in {"score", "store"} => request[r].kind = "vote",
         step \notin {"clear", "done"}, request[r].step # "done", Go(r, step)
  PROVE  /\ request' = [x \in Request |-> request'[x]]
         /\ \A x \in Request \ {r} : request'[x] = request[x]
         /\ Known(request'[r]) /\ request'[r].kind = request[r].kind
         /\ request'[r].by = request[r].by /\ request'[r].arg = request[r].arg
         /\ request'[r].seen = request[r].seen /\ request'[r].step = step
  <1>1. request'[r] = [request[r] EXCEPT !.step = step]
    BY DEF Go, ReqInv
  <1>2. request'[r] = [kind |-> request[r].kind, by |-> request[r].by, arg |-> request[r].arg,
                       seen |-> request[r].seen, step |-> step]
    BY <1>1 DEF ReqInv, Known, Shaped
  <1> QED BY <1>2 DEF Go, ReqInv, Known, Shaped

\* What request r does changes no other request, and only adds to what is tangled.
Turns(r) ==
  /\ request[r].step # "done"
  /\ request' = [x \in Request |-> request'[x]]
  /\ \A x \in Request \ {r} : request'[x] = request[x]
  /\ \/ request'[r] = Ended
     \/ /\ Known(request'[r]) /\ request'[r].kind = request[r].kind
        /\ request'[r].by = request[r].by /\ request'[r].arg = request[r].arg
        /\ request'[r].step # "done"
  /\ begun' = begun /\ tangled \subseteq tangled'

\* A request that ends is a turn.
LEMMA DoneTurns ==
  ASSUME ReqInv, NEW r \in Request, request[r].step # "done", Done(r),
         begun' = begun, tangled \subseteq tangled'
  PROVE  Turns(r) /\ request'[r] = Ended
  BY DEF ReqInv, Done, Turns

\* One that goes on is a turn.
LEMMA GoTurns ==
  ASSUME ReqInv, NEW r \in Request, NEW step, request[r].step # "done", Go(r, step),
         step \notin {"done", "clear"}, step \in {"score", "store"} => request[r].kind = "vote",
         begun' = begun, tangled \subseteq tangled'
  PROVE  Turns(r) /\ request'[r].seen = request[r].seen /\ request'[r].step = step
  BY GoKnown DEF Turns

\* A request that reads keeps what it saw.
Sees(r, seen, step) == request' = [request EXCEPT ![r].seen = seen, ![r].step = step]

\* One that reads is a turn.
LEMMA SeenTurns ==
  ASSUME ReqInv, NEW r \in Request, NEW seen, NEW step, request[r].step # "done",
         Sees(r, seen, step),
         step \notin {"done", "clear"}, step \in {"score", "store"} => request[r].kind = "vote",
         begun' = begun, tangled \subseteq tangled'
  PROVE  Turns(r) /\ request'[r].seen = seen /\ request'[r].step = step
  <1>1. request'[r] = [[request[r] EXCEPT !.seen = seen] EXCEPT !.step = step]
    BY DEF ReqInv, Sees
  <1>2. request'[r] = [kind |-> request[r].kind, by |-> request[r].by, arg |-> request[r].arg,
                       seen |-> seen, step |-> step]
    BY <1>1 DEF ReqInv, Known, Shaped
  <1> QED BY <1>2 DEF ReqInv, Known, Shaped, Turns, Sees

\* The statements that no record and no content depends on.
Plainly(r) ==
  \/ WriteVote(r) \/ CountVote(r) \/ ReadCount(r) \/ StoreScore(r)
  \/ WriteComment(r) \/ CountComment(r)
  \/ ClearChoice(r) \/ WriteChoice(r) \/ CheckFrozen(r) \/ ReplaceOptions(r)

\* They are turns, of requests other than records.
LEMMA PlainlyTurns ==
  ASSUME ReqInv, NEW r \in Request, Plainly(r)
  PROVE  /\ Turns(r) /\ UNCHANGED contentVars
         /\ request[r].kind # "record" /\ request[r].kind \in Kind
  <1>1. CASE WriteVote(r)
    BY <1>1, DoneTurns, GoTurns DEF WriteVote, At, still, Kind
  <1>2. CASE CountVote(r)
    BY <1>2, GoTurns DEF CountVote, At, AfterCount, Kind
  <1>3. CASE ReadCount(r)
    <2>1. /\ request[r].kind = "vote" /\ request[r].step = "score"
          /\ Sees(r, upvoteCount, "store")
          /\ begun' = begun /\ tangled' = tangled /\ UNCHANGED contentVars
      BY <1>3 DEF ReadCount, At, still, Sees
    <2>2. Turns(r)
      BY <2>1, SeenTurns
    <2> QED BY <2>1, <2>2 DEF Kind
  <1>4. CASE StoreScore(r)
    BY <1>4, DoneTurns DEF StoreScore, At, still, Kind
  <1>5. CASE WriteComment(r)
    BY <1>5, GoTurns DEF WriteComment, At, still, Kind
  <1>6. CASE CountComment(r)
    BY <1>6, DoneTurns DEF CountComment, At, still, Kind
  <1>7. CASE ClearChoice(r)
    <2>1. request[r].kind \in {"choose", "unchoose"}
      BY <1>7 DEF ClearChoice, ReqInv, Known
    <2> QED BY <1>7, <2>1, DoneTurns, GoTurns DEF ClearChoice, still, Kind
  <1>8. CASE WriteChoice(r)
    BY <1>8, DoneTurns DEF WriteChoice, At, still, Kind
  <1>9. CASE CheckFrozen(r)
    BY <1>9, DoneTurns, GoTurns DEF CheckFrozen, At, still, Kind, ContentKind
  <1>10. CASE ReplaceOptions(r)
    BY <1>10, DoneTurns DEF ReplaceOptions, At, still, Kind, ContentKind
  <1> QED BY <1>1, <1>2, <1>3, <1>4, <1>5, <1>6, <1>7, <1>8, <1>9, <1>10 DEF Plainly

-----------------------------------------------------------------------------
\* The statements of a content, and of a record.
LEMMA ContentTurns ==
  ASSUME ReqInv, NEW r \in Request,
         \/ WriteContent(r) \/ WipeContent(r) \/ ReadContent(r) \/ InsertRecord(r)
         \/ Submit(r) \/ Answer(r) \/ CountRecord(r) \/ Stop(r)
  PROVE  Turns(r)
  <1>1. CASE WriteContent(r)
    BY <1>1, DoneTurns, GoTurns DEF WriteContent, At, still
  <1>2. CASE WipeContent(r)
    BY <1>2, DoneTurns DEF WipeContent, At, still
  <1>3. CASE ReadContent(r)
    <2>1. /\ request[r].step = "read"
          /\ Sees(r, content, "insert")
          /\ begun' = begun /\ tangled' = tangled
      BY <1>3 DEF ReadContent, At, still, Sees
    <2> QED BY <2>1, SeenTurns
  <1>4. CASE InsertRecord(r)
    BY <1>4, DoneTurns, GoTurns DEF InsertRecord, At, still
  <1>5. CASE Submit(r)
    BY <1>5, GoTurns DEF Submit, At
  <1>6. CASE Answer(r)
    BY <1>6, DoneTurns, GoTurns DEF Answer, At, still
  <1>7. CASE CountRecord(r)
    BY <1>7, DoneTurns DEF CountRecord, At, still
  <1>8. CASE Stop(r)
    BY <1>8, DoneTurns DEF Stop, InFlight
  <1> QED BY <1>1, <1>2, <1>3, <1>4, <1>5, <1>6, <1>7, <1>8

\* Every step of a request is a turn.
LEMMA ProceedTurns ==
  ASSUME ReqInv, NEW r \in Request, Proceed(r)
  PROVE  Turns(r)
  BY PlainlyTurns, ContentTurns DEF Proceed, Plainly

\* A turn keeps what is known of requests.
LEMMA TurnsKeep ==
  ASSUME ReqInv, NEW r \in Request, Turns(r)
  PROVE  ReqInv'
  BY NullsAreNoContent DEF ReqInv, Turns

\* Two requests on the content meet, unless both record it.
Meet(q, s) ==
  q.kind \in ContentKind /\ s.kind \in ContentKind /\ ~(q.kind = "record" /\ s.kind = "record")

Contended == <<"content", None>>

\* So do two votes of one user, and two requests on one comment.
SameVote(q, s) == q.kind = "vote" /\ s.kind = "vote" /\ q.by = s.by
OnComment == {"comment", "uncomment"}
SameComment(q, s) == q.kind \in OnComment /\ s.kind \in OnComment /\ q.arg = s.arg

\* What a request in place r has found when it begins.
Found(q, r) ==
  /\ q.kind = "edit" => Editable
  /\ q.kind = "vote" => q.by \in User /\ q.arg \in {1, -1} /\ q.seen = vote[q.by]
  /\ q.kind = "comment" => q.arg = r
  /\ q.kind = "uncomment" => q.arg \in comments
  /\ q.kind \in {"vote", "comment", "uncomment"} => q.step = "write"
  /\ q.kind = "record" => q.step = "read"

\* A request arrives in a place of its own, and changes nothing yet; one that meets
\* another is noted.
Arrives(r) ==
  /\ r \in Request
  /\ request' = [x \in Request |-> request'[x]]
  /\ \A x \in Request \ {r} : request'[x] = request[x]
  /\ request[r] = Ended /\ Known(request'[r]) /\ request'[r].kind \in Kind
  /\ request'[r].step \in {"write", "clear", "frozen", "read"}
  /\ Found(request'[r], r)
  /\ begun' = begun + 1 /\ r = begun + 1 /\ tangled \subseteq tangled'
  /\ \A x \in InFlight :
       /\ Meet(request'[r], request[x]) => Contended \in tangled'
       /\ SameVote(request'[r], request[x]) => <<"vote", request[x].by>> \in tangled'
       /\ SameComment(request'[r], request[x]) => <<"comment", request[x].arg>> \in tangled'
  /\ UNCHANGED <<postVars, contentVars>>

\* Every request on the content works on one thing.
LEMMA ContentThing ==
  ASSUME NEW kind \in ContentKind, NEW by, NEW arg
  PROVE  Thing(kind, by, arg) = Contended
  BY DEF Thing, Contended, ContentKind

\* A vote is about its user, a comment about itself.
LEMMA OtherThings ==
  /\ \A by, arg : Thing("vote", by, arg) = <<"vote", by>>
  /\ \A kind \in OnComment : \A by, arg : Thing(kind, by, arg) = <<"comment", arg>>
  BY DEF Thing, OnComment

\* So does every request that begins with its first reads.
LEMMA BeginArrives ==
  ASSUME ReqInv, NEW kind \in Kind, NEW by, NEW arg, NEW seen,
         NEW step \in {"write", "clear", "frozen", "read"},
         step = "clear" => kind \in {"choose", "unchoose"},
         kind = "record" => by \in User,
         Found([kind |-> kind, by |-> by, arg |-> arg, seen |-> seen, step |-> step], begun + 1),
         Begin(kind, by, arg, seen, step)
  PROVE  \E r \in Request : Arrives(r)
  <1> DEFINE r == begun + 1
             q == [kind |-> kind, by |-> by, arg |-> arg, seen |-> seen, step |-> step]
  <1>1. r \in Request /\ r > begun /\ begun' = r
    BY NullsAreNoContent DEF ReqInv, Begin, Request
  <1>2. /\ request' = [request EXCEPT ![r] = q] /\ tangled \subseteq tangled'
        /\ UNCHANGED <<postVars, contentVars>>
    BY DEF Begin
  <1>3. Known(q) /\ q.kind = kind /\ q.step = step
    BY DEF Known, Shaped
  <1>4. ASSUME NEW x \in InFlight, Meet(q, request[x]) PROVE Contended \in tangled'
    <2>1. Thing(kind, by, arg) = Contended /\ ThingOf(x) = Contended
      BY <1>3, <1>4, ContentThing DEF Meet, ThingOf
    <2>2. x \in Request /\ ~(kind = "record" /\ request[x].kind = "record")
      BY <1>3, <1>4 DEF Meet, InFlight
    <2> QED BY <2>1, <2>2 DEF Begin
  <1>5. ASSUME NEW x \in InFlight, SameVote(q, request[x]) PROVE <<"vote", request[x].by>> \in tangled'
    <2>1. /\ kind = "vote" /\ request[x].kind = "vote" /\ request[x].by = by
          /\ Thing(kind, by, arg) = <<"vote", request[x].by>> /\ ThingOf(x) = <<"vote", request[x].by>>
      BY <1>5, OtherThings DEF SameVote, ThingOf
    <2> QED BY <2>1 DEF Begin, InFlight
  <1>6. ASSUME NEW x \in InFlight, SameComment(q, request[x])
        PROVE  <<"comment", request[x].arg>> \in tangled'
    <2>1. /\ kind \in OnComment /\ kind # "record" /\ request[x].kind \in OnComment /\ request[x].arg = arg
      BY <1>6 DEF SameComment, OnComment
    <2>2. /\ Thing(kind, by, arg) = <<"comment", request[x].arg>>
          /\ ThingOf(x) = <<"comment", request[x].arg>>
      BY <2>1, OtherThings DEF ThingOf
    <2> QED BY <2>1, <2>2 DEF Begin, InFlight
  <1>7. request'[r] = q /\ request[r] = Ended
    BY <1>1, <1>2 DEF ReqInv
  <1>8. /\ request' = [x \in Request |-> request'[x]]
        /\ \A x \in Request \ {r} : request'[x] = request[x]
    BY <1>1, <1>2 DEF ReqInv
  <1> QED BY <1>1, <1>2, <1>3, <1>4, <1>5, <1>6, <1>7, <1>8 DEF Arrives

\* Every request that comes in arrives so.
LEMMA ArriveArrives ==
  ASSUME ReqInv, Arrive
  PROVE  \E r \in Request : Arrives(r)
  <1>1. ASSUME NEW u \in User, Unchoose(u) PROVE \E r \in Request : Arrives(r)
    BY <1>1, BeginArrives DEF Found, Unchoose, Kind
  <1>2. ASSUME NEW u \in User, Record(u) PROVE \E r \in Request : Arrives(r)
    BY <1>2, BeginArrives DEF Found, Record, Kind, ContentKind
  <1>3. ASSUME NEW u \in User, NEW value \in {1, -1}, Vote(u, value)
        PROVE  \E r \in Request : Arrives(r)
    BY <1>3, BeginArrives DEF Found, Vote, Kind
  <1>4. ASSUME NEW u \in User, NEW o \in Option, Choose(u, o)
        PROVE  \E r \in Request : Arrives(r)
    BY <1>4, BeginArrives DEF Found, Choose, Kind
  <1>5. ASSUME Comment PROVE \E r \in Request : Arrives(r)
    BY <1>5, BeginArrives DEF Found, Comment, Kind
  <1>6. ASSUME NEW c \in Request, Uncomment(c) PROVE \E r \in Request : Arrives(r)
    BY <1>6, BeginArrives DEF Found, Uncomment, Kind
  <1>7. ASSUME Edit PROVE \E r \in Request : Arrives(r)
    BY <1>7, BeginArrives DEF Found, Edit, Kind, ContentKind
  <1>8. ASSUME EditOptions PROVE \E r \in Request : Arrives(r)
    BY <1>8, BeginArrives DEF Found, EditOptions, Kind, ContentKind
  <1>9. ASSUME Delete PROVE \E r \in Request : Arrives(r)
    BY <1>9, BeginArrives DEF Found, Delete, Kind, ContentKind
  <1> QED BY <1>1, <1>2, <1>3, <1>4, <1>5, <1>6, <1>7, <1>8, <1>9 DEF Arrive

\* A step that is no request's: rows, counts and requests stay.
Quietly == UNCHANGED <<postVars, content, isDeleted, recordCount, record, request, begun, tangled>>

\* Such is a transaction that is mined when nobody waits for it.
LEMMA MineQuietly ==
  ASSUME UNCHANGED vars \/ \E u \in User : Mine(u)
  PROVE  Quietly
  BY DEF Mine, Quietly, still, vars, contentVars

\* Nothing is under way at the start.
LEMMA InitReqInv == Init => ReqInv
  BY NullsAreNoContent DEF Init, ReqInv

\* Requests stay typed.
LEMMA NextReqInv == ReqInv /\ [Next]_vars => ReqInv'
  <1>1. ASSUME ReqInv, NEW r \in Request, Arrives(r) PROVE ReqInv'
    BY <1>1 DEF ReqInv, Arrives, Request
  <1>2. ASSUME ReqInv, Quietly PROVE ReqInv'
    BY <1>2 DEF ReqInv, Quietly
  <1> QED BY <1>1, <1>2, ArriveArrives, ProceedTurns, TurnsKeep, MineQuietly DEF Next

-----------------------------------------------------------------------------
\* Rows and chain stand: what the others know of them does too.
LEMMA OthersFiled ==
  ASSUME RecInv, NEW r \in Request, \A x \in Request \ {r} : request'[x] = request[x],
         UNCHANGED <<record, chain, mempool>>, content' \in Content, Filed(r)'
  PROVE  RecInv'
  BY DEF RecInv, Filed, RecordsAgree

\* Filed, where only the request has moved.
LEMMA EndedIsFiled ==
  ASSUME NEW r \in Request,
         request'[r] = Ended \/ request'[r].kind # "record"
           \/ request'[r].step \notin {"insert", "chain", "confirm", "fail"}
  PROVE  Filed(r)'
  BY NullsAreNoContent DEF Filed

\* The row of r's recorder is inserted, once.
LEMMA InsertKeeps ==
  ASSUME ReqInv, RecInv, NEW r \in Request, InsertRecord(r)
  PROVE  RecInv'
  <1> DEFINE u == request[r].by
             seen == request[r].seen
  <1>1. /\ u \in User /\ seen \in Content /\ Turns(r)
        /\ record \in [User -> Row] /\ NoRow.hash = None /\ None \notin Content
    BY ContentTurns, NullsAreNoContent DEF InsertRecord, At, ReqInv, Known, RecInv, Filed
  <1>2. CASE record[u] # NoRow
    <2>1. request'[r] = Ended /\ UNCHANGED <<record, chain, mempool, content>>
      BY <1>2, DoneTurns DEF InsertRecord, RowIsFree, At, still
    <2> QED BY <1>1, <2>1, EndedIsFiled, OthersFiled DEF Turns, RecInv
  <1>3. CASE record[u] = NoRow
    <2>1. /\ record' = [record EXCEPT ![u] = [status |-> "pending", hash |-> seen]]
          /\ UNCHANGED <<chain, mempool, content>>
          /\ request'[r].step = "chain" /\ request'[r].seen = seen
      BY <1>3, GoTurns DEF InsertRecord, RowIsFree, At, still
    <2>2. /\ record'[u].hash = seen /\ record'[u].status = "pending"
          /\ \A v \in User \ {u} : record'[v] = record[v]
          /\ record' \in [User -> Row]
      BY <1>1, <2>1 DEF Row
    <2>3. request'[r].kind = "record" => request'[r].by = u
      BY <1>1, NullsAreNoContent DEF Turns
    <2>4. Filed(r)'
      BY <1>1, <2>1, <2>2, <2>3 DEF Filed
    <2>5. ASSUME NEW x \in Request \ {r} PROVE Filed(x)'
      <3>1. request'[x] = request[x] /\ Filed(x) /\ chain' = chain
        BY <1>1, <2>1 DEF Turns, RecInv
      <3>2. request[x].kind = "record" => request[x].by \in User
        BY DEF ReqInv, Known
      <3> QED BY <1>1, <1>3, <2>2, <3>1, <3>2 DEF Filed
    <2>6. chain[u] = None /\ mempool[u] = None
      BY <1>1, <1>3 DEF RecInv, RecordsAgree
    <2>7. RecordsAgree'
      BY <2>1, <2>2, <2>6 DEF RecInv, RecordsAgree
    <2>8. \A v \in User : mempool'[v] # None => record'[v].hash = mempool'[v]
      BY <2>1, <2>2, <2>6 DEF RecInv
    <2> QED BY <2>1, <2>2, <2>4, <2>5, <2>7, <2>8 DEF RecInv
  <1> QED BY <1>2, <1>3

\* The contract takes the content of the row, or nothing.
LEMMA SubmitKeeps ==
  ASSUME ReqInv, RecInv, NEW r \in Request, Submit(r)
  PROVE  RecInv'
  <1> DEFINE u == request[r].by
             seen == request[r].seen
  <1>1. /\ u \in User /\ seen \in Content /\ record[u].hash = seen /\ Turns(r)
        /\ chain \in [User -> Content \cup {None}] /\ None \notin Content
        /\ request[r].kind = "record" /\ UNCHANGED <<record, content>>
    BY ContentTurns, NullsAreNoContent DEF Submit, At, ReqInv, Known, RecInv, Filed
  <1>2. /\ request'[r].kind = "record" /\ request'[r].by = u /\ request'[r].seen = seen
        /\ request'[r].step \in {"confirm", "fail"}
    BY <1>1, GoKnown DEF Submit, At
  <1>3. /\ chain' \in [User -> Content \cup {None}]
        /\ \A v \in User : chain'[v] = chain[v] \/ (v = u /\ chain'[v] = seen)
        /\ \A v \in User : chain[v] # None => chain'[v] = chain[v]
        /\ request'[r].step = "confirm" => chain'[u] # None
    <2>1. CASE Append(u, seen)
      BY <1>1, <2>1 DEF Append
    <2>2. CASE chain' = chain /\ Go(r, "fail")
      <3>1. request'[r].step = "fail"
        BY <1>1, <2>2, GoKnown DEF Submit, At
      <3> QED BY <1>1, <2>2, <3>1
    <2> QED BY <2>1, <2>2 DEF Submit
  <1>4. ASSUME NEW x \in Request PROVE Filed(x)'
    <2>1. CASE x = r
      BY <1>1, <1>2, <1>3, <2>1 DEF Filed
    <2>2. CASE x # r
      <3>1. request'[x] = request[x] /\ Filed(x)
        BY <1>1, <2>2 DEF Turns, RecInv
      <3>2. request[x].kind = "record" => request[x].by \in User
        BY DEF ReqInv, Known
      <3> QED BY <1>1, <1>3, <3>1, <3>2 DEF Filed
    <2> QED BY <2>1, <2>2
  <1>5. RecordsAgree'
    BY <1>1, <1>3 DEF RecInv, RecordsAgree
  <1>6. /\ mempool' \in [User -> Content \cup {None}]
        /\ \A v \in User : mempool'[v] # None => record'[v].hash = mempool'[v]
    <2>1. mempool' = mempool \/ mempool' = [mempool EXCEPT ![u] = seen]
      BY DEF Submit
    <2> QED BY <1>1, <2>1 DEF RecInv
  <1> QED BY <1>1, <1>3, <1>4, <1>5, <1>6 DEF RecInv

\* So does a transaction that is mined when nobody waits for it.
LEMMA MineKeeps ==
  ASSUME ReqInv, RecInv, NEW u \in User, Mine(u)
  PROVE  RecInv'
  <1>1. /\ mempool[u] \in Content /\ record[u].hash = mempool[u] /\ None \notin Content
        /\ UNCHANGED <<request, record, content>>
    BY NullsAreNoContent DEF Mine, RecInv
  <1>2. /\ chain' \in [User -> Content \cup {None}]
        /\ \A v \in User : chain'[v] = chain[v] \/ (v = u /\ chain'[v] = mempool[u])
        /\ \A v \in User : chain[v] # None => chain'[v] = chain[v]
    BY <1>1 DEF Mine, Append, RecInv
  <1>3. /\ mempool' \in [User -> Content \cup {None}]
        /\ \A v \in User : mempool'[v] \in {None, mempool[v]}
    BY DEF Mine, RecInv
  <1>4. ASSUME NEW x \in Request PROVE Filed(x)'
    BY <1>1, <1>2 DEF Filed, RecInv, ReqInv, Known
  <1>5. RecordsAgree'
    BY <1>1, <1>2 DEF RecInv, RecordsAgree
  <1> QED BY <1>1, <1>2, <1>3, <1>4, <1>5 DEF RecInv

\* The row says confirmed only of what is on the chain.
LEMMA AnswerKeeps ==
  ASSUME ReqInv, RecInv, NEW r \in Request, Answer(r)
  PROVE  RecInv'
  <1> DEFINE u == request[r].by
  <1>1. /\ u \in User /\ record \in [User -> Row] /\ Turns(r)
        /\ request[r].kind = "record" /\ UNCHANGED <<chain, mempool, content>>
        /\ request[r].step = "confirm" => chain[u] # None
    BY ContentTurns DEF Answer, At, ReqInv, Known, RecInv, Filed
  <1>2. request'[r] = Ended \/ request'[r].step = "count"
    BY <1>1, DoneTurns, GoTurns DEF Answer, At, still
  <1>3. PICK s \in {"confirmed", "failed"} :
          /\ record' = [record EXCEPT ![u].status = s]
          /\ s = "confirmed" => request[r].step = "confirm"
    BY DEF Answer, At
  <1>4. /\ record' \in [User -> Row] /\ \A v \in User : record'[v].hash = record[v].hash
        /\ \A v \in User \ {u} : record'[v] = record[v]
        /\ record'[u].status = s
    BY <1>1, <1>3 DEF Row
  <1>5. ASSUME NEW x \in Request PROVE Filed(x)'
    <2>1. CASE x = r
      BY <1>2, <2>1, NullsAreNoContent DEF Filed
    <2>2. CASE x # r
      <3>1. request'[x] = request[x] /\ Filed(x)
        BY <1>1, <2>2 DEF Turns, RecInv
      <3>2. request[x].kind = "record" => request[x].by \in User
        BY DEF ReqInv, Known
      <3> QED BY <1>1, <1>4, <3>1, <3>2 DEF Filed
    <2> QED BY <2>1, <2>2
  <1>6. RecordsAgree'
    BY <1>1, <1>3, <1>4 DEF RecInv, RecordsAgree
  <1> QED BY <1>1, <1>4, <1>5, <1>6 DEF RecInv

\* Rows, chain and the records under way agree after every step.
LEMMA NextRecInv ==
  ASSUME ReqInv, RecInv, [Next]_vars
  PROVE  RecInv'
  <1>1. ASSUME NEW r \in Request, Arrives(r) PROVE RecInv'
    <2>1. Filed(r)'
      BY <1>1, EndedIsFiled DEF Arrives
    <2> QED BY <1>1, <2>1, OthersFiled DEF Arrives, contentVars, RecInv
  <1>2. ASSUME NEW r \in Request, Plainly(r) PROVE RecInv'
    <2>1. Turns(r) /\ UNCHANGED contentVars /\ request[r].kind # "record"
      BY <1>2, PlainlyTurns
    <2>2. Filed(r)'
      BY <2>1, EndedIsFiled DEF Turns
    <2> QED BY <2>1, <2>2, OthersFiled DEF Turns, contentVars, RecInv
  <1>3. ASSUME NEW r \in Request, WriteContent(r) \/ WipeContent(r) \/ CountRecord(r) \/ Stop(r)
        PROVE  RecInv'
    <2>1. Turns(r)
      BY <1>3, ContentTurns
    <2>2. UNCHANGED <<record, chain, mempool>> /\ content' \in Content
      BY <1>3, NullsAreNoContent
         DEF WriteContent, WipeContent, CountRecord, Stop, RecInv, Content, contentVars
    <2>3. request'[r] = Ended \/ request'[r].kind # "record"
      BY <1>3, <2>1, DoneTurns DEF WriteContent, WipeContent, CountRecord, Stop, Done, ReqInv,
                                   At, Turns
    <2>4. Filed(r)'
      BY <2>3, EndedIsFiled
    <2> QED BY <2>1, <2>2, <2>4, OthersFiled DEF Turns
  <1>4. ASSUME NEW r \in Request, ReadContent(r) PROVE RecInv'
    <2>1. /\ request[r].step = "read" /\ Sees(r, content, "insert") /\ UNCHANGED contentVars
          /\ begun' = begun /\ tangled' = tangled
      BY <1>4 DEF ReadContent, At, still, Sees
    <2>2. Turns(r) /\ request'[r].step = "insert" /\ request'[r].seen = content
      BY <2>1, SeenTurns
    <2>3. Filed(r)'
      BY <2>1, <2>2 DEF Filed, RecInv, contentVars
    <2> QED BY <2>1, <2>2, <2>3, OthersFiled DEF Turns, contentVars, RecInv
  <1>5. CASE UNCHANGED vars
    BY <1>5 DEF vars, contentVars, RecInv, Filed, RecordsAgree
  <1> QED BY <1>1, <1>2, <1>3, <1>4, <1>5, ArriveArrives, InsertKeeps, SubmitKeeps, AnswerKeeps,
             MineKeeps
          DEF Next, Proceed, Plainly

\* Nothing is on the chain at the start.
LEMMA InitRecInv == Init => RecInv
  <1> SUFFICES ASSUME Init PROVE RecInv
    OBVIOUS
  <1>1. /\ record \in [User -> Row] /\ chain \in [User -> Content \cup {None}]
        /\ mempool = [u \in User |-> None] /\ content \in Content
    BY NullsAreNoContent DEF Init, Content
  <1>2. \A r \in Request : Filed(r)
    BY NullsAreNoContent DEF Init, Filed
  <1>3. RecordsAgree
    BY DEF Init, RecordsAgree, NoRow
  <1> QED BY <1>1, <1>2, <1>3 DEF RecInv

\* A row that says confirmed is on the chain, and everything there has its row,
\* however requests interleave and wherever they stop (POST record).
THEOREM RecordsAgreeHolds == Spec => []RecordsAgree
  <1>1. Init => ReqInv /\ RecInv
    BY InitReqInv, InitRecInv
  <1>2. ReqInv /\ RecInv /\ [Next]_vars => (ReqInv /\ RecInv)'
    BY NextReqInv, NextRecInv
  <1>3. RecInv => RecordsAgree
    BY DEF RecInv
  <1> QED BY <1>1, <1>2, <1>3, PTL DEF Spec

-----------------------------------------------------------------------------
\* What is on the chain keeps an edit from beginning: it is counted, or is to be.
Sealed(u) ==
  \/ recordCount > 0
  \/ \E r \in Request : /\ request[r].kind = "record" /\ request[r].by = u
                        /\ request[r].step \in {"confirm", "count"}

\* An edit under way found nothing on the chain, a record has what is shown.
Shown ==
  /\ \A u \in User : chain[u] \in {None, content} /\ (chain[u] # None => Sealed(u))
  /\ \A r \in Request :
       /\ request[r].kind = "record" /\ request[r].step \in {"insert", "chain"}
            => request[r].seen = content
       /\ request[r].kind = "edit" => \A u \in User : chain[u] = None

NoMeeting == \A r, s \in InFlight : Meet(request[r], request[s]) => r = s

ShownInv ==
  /\ recordCount \in Nat
  /\ Plain("content") =>
       NoMeeting /\ (\A u \in User : mempool[u] = None) /\ (~isDeleted => Shown)

\* What is tangled stays so.
LEMMA CalmBefore ==
  ASSUME tangled \subseteq tangled', Plain("content")'
  PROVE  Plain("content") /\ Contended \notin tangled'
  BY DEF Plain, Contended

\* Requests that go on meet nobody new; one that arrives does not, or is noted.
LEMMA NextNoMeeting ==
  ASSUME ReqInv, ShownInv, Plain("content")', NEW r \in Request, Turns(r) \/ Arrives(r)
  PROVE  NoMeeting' /\ NoMeeting /\ Plain("content") /\ Contended \notin tangled'
  <1>1. tangled \subseteq tangled'
    BY DEF Turns, Arrives
  <1>2. NoMeeting /\ Plain("content") /\ Contended \notin tangled'
    BY <1>1, CalmBefore DEF ShownInv
  <1>3. CASE Turns(r)
    <2>1. ASSUME NEW x \in InFlight' PROVE x \in InFlight /\ request'[x].kind = request[x].kind
      BY <1>3, <2>1, NullsAreNoContent DEF Turns, InFlight
    <2> QED BY <1>2, <2>1 DEF NoMeeting, Meet
  <1>4. CASE Arrives(r)
    <2>1. ASSUME NEW x \in InFlight' PROVE x = r \/ (x \in InFlight /\ request'[x] = request[x])
      BY <1>4, <2>1 DEF Arrives, InFlight
    <2>2. ASSUME NEW x \in InFlight PROVE ~Meet(request'[r], request[x])
      BY <1>2, <1>4, <2>2 DEF Arrives
    <2> QED BY <1>2, <2>1, <2>2 DEF NoMeeting, Meet
  <1> QED BY <1>2, <1>3, <1>4

\* What a step that leaves content, chain and count alone must see to.
LEMMA ShownFrame ==
  ASSUME Shown, NEW r \in Request, \A x \in Request \ {r} : request'[x] = request[x],
         UNCHANGED <<content, chain>>, recordCount' = recordCount,
         request[r].kind = "record" /\ request[r].step \in {"confirm", "count"}
           => /\ request'[r].kind = "record" /\ request'[r].by = request[r].by
              /\ request'[r].step = "count",
         request'[r].kind = "record" /\ request'[r].step \in {"insert", "chain"}
           => request'[r].seen = content,
         request'[r].kind = "edit" => \A u \in User : chain[u] = None
  PROVE  Shown'
  <1>1. ASSUME NEW u \in User, Sealed(u) PROVE Sealed(u)'
    <2>1. CASE recordCount > 0
      BY <2>1 DEF Sealed
    <2>2. ASSUME NEW x \in Request, request[x].kind = "record", request[x].by = u,
                 request[x].step \in {"confirm", "count"}
          PROVE  /\ request'[x].kind = "record" /\ request'[x].by = u
                 /\ request'[x].step \in {"confirm", "count"}
      BY <2>2
    <2> QED BY <1>1, <2>1, <2>2 DEF Sealed
  <1> QED BY <1>1 DEF Shown

\* An edit that arrives finds nothing on the chain.
LEMMA ArrivesShown ==
  ASSUME ReqInv, ShownInv, NEW r \in Request, Arrives(r), Plain("content")', ~isDeleted'
  PROVE  Shown'
  <1>1. Shown /\ NoMeeting' /\ Contended \notin tangled'
    BY NextNoMeeting DEF ShownInv, Arrives, contentVars
  <1>2. ASSUME request'[r].kind = "edit", NEW u \in User PROVE chain[u] = None
    <2>1. recordCount = 0
      BY <1>2 DEF Arrives, Found, Editable
    <2>2. ASSUME NEW x \in Request, request[x].kind = "record",
                 request[x].step \in {"confirm", "count"}
          PROVE  FALSE
      <3>1. x \in InFlight /\ Meet(request'[r], request[x])
        BY <1>2, <2>2 DEF InFlight, Meet, ContentKind
      <3> QED BY <1>1, <3>1 DEF Arrives
    <2>3. ~Sealed(u)
      BY <2>1, <2>2 DEF Sealed
    <2> QED BY <1>1, <2>3 DEF Shown
  <1>3. request[r].kind # "record" /\ request'[r].step \notin {"insert", "chain"}
    BY NullsAreNoContent DEF Arrives
  <1> QED BY <1>1, <1>2, <1>3, ShownFrame DEF Arrives, contentVars

\* A statement of an edit: nothing on chain, and no record under way.
LEMMA WriteContentShown ==
  ASSUME ReqInv, ShownInv, NEW r \in Request, WriteContent(r), Plain("content")', ~isDeleted'
  PROVE  Shown'
  <1>1. /\ Turns(r) /\ request'[r].kind # "record" /\ r \in InFlight /\ request[r].kind = "edit"
        /\ UNCHANGED <<isDeleted, chain, recordCount>>
    BY ContentTurns, NullsAreNoContent DEF WriteContent, At, still, InFlight, Turns
  <1>2. Shown /\ NoMeeting
    BY <1>1, NextNoMeeting DEF ShownInv
  <1>3. \A u \in User : chain'[u] = None
    BY <1>1, <1>2 DEF Shown
  <1>4. ASSUME NEW x \in Request, request'[x].kind = "record", request'[x].step # "done"
        PROVE  FALSE
    <2>1. x # r /\ request'[x] = request[x]
      BY <1>1, <1>4, NullsAreNoContent DEF Turns
    <2>2. x \in InFlight /\ Meet(request[r], request[x])
      BY <1>1, <1>4, <2>1 DEF InFlight, Meet, ContentKind
    <2> QED BY <1>1, <1>2, <2>1, <2>2 DEF NoMeeting
  <1> QED BY <1>3, <1>4 DEF Shown

\* The chain takes what is shown, and its record is to be counted.
LEMMA SubmitShown ==
  ASSUME ReqInv, RecInv, ShownInv, NEW r \in Request, Submit(r), Plain("content")', ~isDeleted'
  PROVE  Shown'
  <1> DEFINE u == request[r].by
  <1>1. /\ Turns(r) /\ r \in InFlight /\ request[r].kind = "record" /\ request[r].step = "chain"
        /\ u \in User /\ UNCHANGED <<isDeleted, content, recordCount>>
        /\ chain \in [User -> Content \cup {None}]
    BY ContentTurns DEF Submit, At, InFlight, ReqInv, Known, RecInv
  <1>2. Shown /\ NoMeeting /\ Contended \notin tangled'
    BY <1>1, NextNoMeeting DEF ShownInv
  <1>3. ThingOf(r) = Contended
    BY <1>1, ContentThing DEF ThingOf, ContentKind
  <1>4. CASE Append(u, request[r].seen) /\ chain[u] = None /\ Go(r, "confirm")
    <2>1. /\ request'[r].kind = "record" /\ request'[r].by = u /\ request'[r].step = "confirm"
      BY <1>1, <1>4, GoKnown
    <2>2. /\ \A v \in User \ {u} : chain'[v] = chain[v]
          /\ chain'[u] = content
      BY <1>1, <1>2, <1>4 DEF Append, Shown
    <2>3. ASSUME NEW v \in User, v = u PROVE Sealed(v)'
      BY <2>1, <2>3 DEF Sealed
    <2>4. ASSUME NEW v \in User, Sealed(v) PROVE Sealed(v)'
      BY <1>1, <2>4 DEF Sealed, Turns
    <2>5. ASSUME NEW x \in Request, request'[x].kind = "edit" PROVE FALSE
      <3>1. x # r /\ request[x].kind = "edit" /\ request[x] = request'[x]
        BY <1>1, <2>1, <2>5 DEF Turns
      <3>2. request[x].step # "done"
        BY <3>1 DEF ReqInv, Known
      <3> QED BY <1>1, <1>2, <3>1, <3>2 DEF NoMeeting, Meet, ContentKind, InFlight
    <2>6. ASSUME NEW x \in Request, request'[x].kind = "record",
                 request'[x].step \in {"insert", "chain"}
          PROVE  request'[x].seen = content
      BY <1>1, <1>2, <2>1, <2>6 DEF Turns, Shown
    <2>7. ASSUME NEW v \in User
          PROVE  chain'[v] \in {None, content'} /\ (chain'[v] # None => Sealed(v)')
      <3>1. CASE v = u
        BY <1>1, <2>2, <2>3, <3>1
      <3>2. CASE v # u
        <4>1. chain'[v] = chain[v]
          BY <2>2, <3>2
        <4> QED BY <1>1, <1>2, <2>4, <4>1 DEF Shown
      <3> QED BY <3>1, <3>2
    <2> QED BY <1>1, <2>5, <2>6, <2>7 DEF Shown
  <1>5. CASE chain' = chain /\ Go(r, "fail")
    <2>1. request'[r].kind = "record" /\ request'[r].step = "fail"
      BY <1>1, <1>5, GoKnown
    <2> QED BY <1>1, <1>2, <1>5, <2>1, ShownFrame DEF Turns
  <1> QED BY <1>2, <1>3, <1>4, <1>5 DEF Submit

\* The other statements leave content and chain alone.
LEMMA TurnShown ==
  ASSUME ReqInv, ShownInv, NEW r \in Request, Plain("content")', ~isDeleted',
         \/ Plainly(r) \/ ReadContent(r) \/ InsertRecord(r) \/ Answer(r) \/ CountRecord(r)
         \/ Stop(r)
  PROVE  Shown'
  <1>1. Turns(r) /\ UNCHANGED <<content, chain, isDeleted>>
    BY PlainlyTurns, ContentTurns
       DEF ReadContent, InsertRecord, Answer, CountRecord, Stop, contentVars
  <1>2. Shown /\ NoMeeting /\ Contended \notin tangled' /\ recordCount \in Nat
    BY <1>1, NextNoMeeting DEF ShownInv
  <1>3. request'[r].kind = "edit" => \A u \in User : chain[u] = None
    BY <1>1, <1>2, NullsAreNoContent DEF Turns, Shown
  <1>4. CASE Plainly(r)
    <2>1. request[r].kind # "record" /\ request'[r].kind # "record" /\ recordCount' = recordCount
      BY <1>1, <1>4, PlainlyTurns, NullsAreNoContent DEF Turns, contentVars
    <2> QED BY <1>1, <1>2, <1>3, <2>1, ShownFrame DEF Turns
  <1>5. CASE ReadContent(r)
    <2>1. /\ request[r].step = "read" /\ Sees(r, content, "insert") /\ recordCount' = recordCount
          /\ begun' = begun /\ tangled' = tangled
      BY <1>5 DEF ReadContent, At, still, Sees, contentVars
    <2>2. request'[r].seen = content
      BY <2>1, SeenTurns
    <2> QED BY <1>1, <1>2, <1>3, <2>1, <2>2, ShownFrame DEF Turns
  <1>6. CASE InsertRecord(r)
    <2>1. /\ request[r].step = "insert" /\ request[r].kind = "record" /\ recordCount' = recordCount
          /\ request'[r] = Ended \/ request'[r].seen = request[r].seen
      BY <1>6, DoneTurns, GoTurns DEF InsertRecord, At, still
    <2>2. request[r].seen = content
      BY <1>2, <2>1 DEF Shown
    <2> QED BY <1>1, <1>2, <1>3, <2>1, <2>2, NullsAreNoContent, ShownFrame DEF Turns
  <1>7. CASE Answer(r)
    <2>1. /\ request[r].kind = "record" /\ recordCount' = recordCount
          /\ \/ request[r].step = "confirm" /\ request'[r].step = "count"
             \/ request[r].step = "fail" /\ request'[r] = Ended
      BY <1>7, DoneTurns, GoTurns DEF Answer, At, still
    <2>2. /\ request[r].kind = "record" /\ request[r].step \in {"confirm", "count"}
               => /\ request'[r].kind = "record" /\ request'[r].by = request[r].by
                  /\ request'[r].step = "count"
          /\ ~(request'[r].kind = "record" /\ request'[r].step \in {"insert", "chain"})
      BY <1>1, <2>1, NullsAreNoContent DEF Turns
    <2> QED BY <1>1, <1>2, <1>3, <2>1, <2>2, ShownFrame DEF Turns
  <1>8. CASE CountRecord(r)
    <2>1. request'[r] = Ended /\ recordCount' > 0
      BY <1>2, <1>8, DoneTurns DEF CountRecord, At, still
    <2>2. ASSUME NEW x \in Request, request'[x].kind \in {"record", "edit"}
          PROVE  request'[x] = request[x]
      BY <1>1, <2>1, <2>2, NullsAreNoContent DEF Turns
    <2>3. \A u \in User : chain'[u] \in {None, content'} /\ recordCount' > 0
      BY <1>1, <1>2, <2>1 DEF Shown
    <2>4. ASSUME NEW x \in Request
          PROVE  /\ request'[x].kind = "record" /\ request'[x].step \in {"insert", "chain"}
                      => request'[x].seen = content'
                 /\ request'[x].kind = "edit" => \A u \in User : chain'[u] = None
      BY <1>1, <1>2, <2>2 DEF Shown
    <2> QED BY <2>3, <2>4 DEF Shown, Sealed
  <1>9. CASE Stop(r)
    <2>1. request[r].kind \notin ContentKind
      <3>1. SUFFICES ASSUME request[r].kind \in ContentKind PROVE Contended \in tangled'
        BY <1>2
      <3>2. request[r].step \notin {"score", "store"} /\ ThingOf(r) = Contended
        BY <3>1, ContentThing DEF ReqInv, Known, ContentKind, ThingOf
      <3> QED BY <1>9, <3>2 DEF Stop
    <2>2. request'[r] = Ended /\ recordCount' = recordCount
      BY <1>9, DoneTurns DEF Stop, InFlight, contentVars
    <2> QED BY <1>1, <1>2, <1>3, <2>1, <2>2, NullsAreNoContent, ShownFrame DEF Turns, ContentKind
  <1> QED BY <1>4, <1>5, <1>6, <1>7, <1>8, <1>9

\* As long as the content is not contended, the chain says what is shown.
LEMMA NextShownInv ==
  ASSUME ReqInv, RecInv, ShownInv, [Next]_vars
  PROVE  ShownInv'
  <1>1. recordCount' \in Nat
    <2>1. ASSUME NEW r \in Request, Arrives(r) \/ Plainly(r) PROVE recordCount' = recordCount
      BY <2>1, PlainlyTurns DEF Arrives, contentVars
    <2>2. ASSUME NEW r \in Request, Proceed(r), ~Plainly(r) PROVE recordCount' \in Nat
      BY <2>2 DEF Proceed, Plainly, WriteContent, WipeContent, ReadContent, InsertRecord,
                  Submit, Answer, CountRecord, Stop, contentVars, ShownInv
    <2> QED BY <2>1, <2>2, ArriveArrives, MineQuietly DEF Next, Quietly, ShownInv
  <1> DEFINE Unsent == \A u \in User : mempool[u] = None
  <1>2. ASSUME Plain("content")', tangled \subseteq tangled' PROVE Plain("content") /\ Unsent
    BY <1>2, CalmBefore DEF ShownInv
  <1>3. ASSUME Plain("content")' PROVE Unsent'
    <2>1. ASSUME NEW r \in Request, Arrives(r) PROVE Unsent'
      BY <1>2, <1>3, <2>1 DEF Arrives, contentVars
    <2>2. ASSUME NEW r \in Request, Proceed(r) PROVE Unsent'
      <3>1. Unsent /\ Contended \notin tangled'
        BY <1>2, <1>3, <2>2, ProceedTurns DEF Turns, Plain, Contended
      <3>2. CASE Submit(r)
        <4>1. ThingOf(r) = Contended
          BY <3>2, ContentThing DEF Submit, At, ThingOf, ContentKind
        <4> QED BY <3>1, <3>2, <4>1 DEF Submit
      <3>3. CASE ~Submit(r)
        BY <2>2, <3>1, <3>3, PlainlyTurns
           DEF Proceed, Plainly, WriteContent, WipeContent, ReadContent, InsertRecord, Answer,
               CountRecord, Stop, contentVars
      <3> QED BY <3>2, <3>3
    <2>3. ASSUME NEW u \in User, Mine(u) PROVE FALSE
      BY <1>2, <1>3, <2>3 DEF Mine, still
    <2> QED BY <1>2, <1>3, <2>1, <2>2, <2>3, ArriveArrives DEF Next, vars, contentVars
  <1>4. ASSUME Plain("content")' PROVE NoMeeting' /\ (~isDeleted' => Shown')
    <2>1. ASSUME NEW r \in Request, Arrives(r) PROVE <1>4!2
      BY <1>4, <2>1, NextNoMeeting, ArrivesShown
    <2>2. ASSUME NEW r \in Request, Proceed(r) PROVE <1>4!2
      <3>1. NoMeeting'
        BY <1>4, <2>2, ProceedTurns, NextNoMeeting
      <3>2. WipeContent(r) => isDeleted'
        BY DEF WipeContent
      <3> QED BY <1>4, <2>2, <3>1, <3>2, WriteContentShown, SubmitShown, TurnShown
              DEF Proceed, Plainly
    <2>3. CASE UNCHANGED vars
      BY <1>4, <2>3 DEF vars, contentVars, ShownInv, NoMeeting, Shown, Sealed, Plain, InFlight,
                        Meet
    <2>4. ASSUME NEW u \in User, Mine(u) PROVE FALSE
      BY <1>2, <1>4, <2>4 DEF Mine, still
    <2> QED BY <2>1, <2>2, <2>3, <2>4, ArriveArrives DEF Next
  <1> QED BY <1>1, <1>3, <1>4 DEF ShownInv

\* Nothing is on the chain at the start.
LEMMA InitShownInv == Init => ShownInv
  BY NullsAreNoContent DEF Init, ShownInv, NoMeeting, InFlight, Shown

\* What is on the chain is what the post shows until it is deleted, as long as no edit
\* overlaps a record and neither stops half way (PATCH of the post, POST record).
THEOREM RecordedIsShownHolds == Spec => []RecordedIsShown
  <1>1. Init => ReqInv /\ RecInv /\ ShownInv
    BY InitReqInv, InitRecInv, InitShownInv
  <1>2. ReqInv /\ RecInv /\ ShownInv /\ [Next]_vars => (ReqInv /\ RecInv /\ ShownInv)'
    BY NextReqInv, NextRecInv, NextShownInv
  <1>3. ShownInv => RecordedIsShown
    BY DEF ShownInv, Shown, RecordedIsShown
  <1> QED BY <1>1, <1>2, <1>3, PTL DEF Spec

-----------------------------------------------------------------------------
\* The score: at most one update of it is under way, and what it read is the count.
Scoring == {r \in Request : request[r].step \in {"score", "store"}}

ScoreInv ==
  Plain("score") =>
    /\ \A r, s \in Scoring : r = s
    /\ Scoring = {} => score = upvoteCount
    /\ \A r \in Request : request[r].step = "store" => request[r].seen = upvoteCount

\* What is not tangled now was not before.
LEMMA PlainBefore ==
  ASSUME tangled \subseteq tangled', NEW what, Plain(what)'
  PROVE  Plain(what)
  BY DEF Plain

\* A statement that moves no request to or from the score, and not the count.
LEMMA ScoreFrame ==
  ASSUME ScoreInv, NEW r \in Request, \A x \in Request \ {r} : request'[x] = request[x],
         UNCHANGED <<score, upvoteCount>>, tangled \subseteq tangled',
         request[r].step \notin {"score", "store"}, request'[r].step \notin {"score", "store"}
  PROVE  ScoreInv'
  <1>1. Scoring' = Scoring
    BY DEF Scoring
  <1> QED BY <1>1, PlainBefore DEF ScoreInv

\* The statements that are not a vote's leave votes, count and score alone.
VoteTurn(r) == WriteVote(r) \/ CountVote(r) \/ ReadCount(r) \/ StoreScore(r) \/ Stop(r)

LEMMA OtherTurns ==
  ASSUME ReqInv, NEW r \in Request, Proceed(r), ~VoteTurn(r)
  PROVE  /\ Turns(r) /\ UNCHANGED <<vote, upvoteCount, score>>
         /\ request[r].kind # "vote" /\ request'[r].kind # "vote"
         /\ request'[r].step \notin {"score", "store"}
  <1>1. Turns(r)
    BY ProceedTurns
  <1>2. request[r].kind # "vote"
    <2>1. CASE ClearChoice(r)
      BY <2>1 DEF ClearChoice, ReqInv, Known
    <2> QED BY <2>1
         DEF Proceed, VoteTurn, At, WriteComment, CountComment, WriteChoice, WriteContent,
             CheckFrozen, ReplaceOptions, WipeContent, ReadContent, InsertRecord, Submit, Answer,
             CountRecord
  <1>3. request'[r].kind # "vote" /\ request'[r].step \notin {"score", "store"}
    BY <1>1, <1>2, NullsAreNoContent DEF Turns, Known
  <1>4. UNCHANGED <<vote, upvoteCount, score>>
    BY DEF Proceed, VoteTurn, WriteComment, CountComment, ClearChoice, WriteChoice, WriteContent,
           CheckFrozen, ReplaceOptions, WipeContent, ReadContent, InsertRecord, Submit, Answer,
           CountRecord, postVars
  <1> QED BY <1>1, <1>2, <1>3, <1>4

\* Nothing is scored at the start.
LEMMA InitScoreInv == Init => ScoreInv
  BY NullsAreNoContent DEF Init, ScoreInv, Scoring

\* Another update of the count while one is scored is noted, and so is a stop there.
LEMMA NextScoreInv ==
  ASSUME ReqInv, ScoreInv, [Next]_vars
  PROVE  ScoreInv'
  <1>1. ASSUME NEW r \in Request, Arrives(r) PROVE ScoreInv'
    BY <1>1, NullsAreNoContent, ScoreFrame DEF Arrives, postVars
  <1>2. ASSUME NEW r \in Request, WriteVote(r) PROVE ScoreInv'
    <2>1. request[r].step = "write" /\ request'[r].step \in {"done", "count"}
      BY <1>2, DoneTurns, GoTurns, NullsAreNoContent DEF WriteVote, At, still
    <2>2. Turns(r) /\ UNCHANGED <<score, upvoteCount>>
      BY <1>2, ProceedTurns DEF Proceed, WriteVote
    <2> QED BY <2>1, <2>2, ScoreFrame DEF Turns
  <1>3. ASSUME NEW r \in Request, CountVote(r) PROVE ScoreInv'
    <2>1. /\ request[r].step = "count" /\ request'[r].step = "score"
          /\ \A x \in Request \ {r} : request'[x] = request[x]
      BY <1>3, GoKnown DEF CountVote, At, AfterCount
    <2>2. SUFFICES ASSUME Plain("score")' PROVE ScoreInv!2'
      BY DEF ScoreInv
    <2>3. Score \notin tangled'
      BY <2>2 DEF Plain, Score
    <2>4. Scoring = {}
      BY <1>3, <2>3 DEF CountVote, Scoring, InFlight
    <2>5. Scoring' = {r}
      BY <2>1, <2>4 DEF Scoring
    <2> QED BY <2>1, <2>4, <2>5 DEF Scoring
  <1>4. ASSUME NEW r \in Request, ReadCount(r) PROVE ScoreInv'
    <2>1. /\ request[r].step = "score" /\ Sees(r, upvoteCount, "store")
          /\ request[r].kind = "vote"
          /\ UNCHANGED <<upvoteCount, score>> /\ begun' = begun /\ tangled' = tangled
      BY <1>4 DEF ReadCount, At, still, Sees, postVars
    <2>2. Turns(r) /\ request'[r].step = "store" /\ request'[r].seen = upvoteCount
      BY <2>1, SeenTurns
    <2>3. Scoring' = Scoring /\ r \in Scoring
      BY <2>1, <2>2 DEF Scoring, Turns
    <2> QED BY <2>1, <2>2, <2>3 DEF ScoreInv, Turns, Plain, Scoring
  <1>5. ASSUME NEW r \in Request, StoreScore(r) PROVE ScoreInv'
    <2>1. /\ request[r].step = "store" /\ request'[r] = Ended /\ Turns(r)
          /\ score' = request[r].seen /\ UNCHANGED <<upvoteCount, tangled>>
      BY <1>5, DoneTurns DEF StoreScore, At, still
    <2>2. SUFFICES ASSUME Plain("score")' PROVE ScoreInv!2'
      BY DEF ScoreInv
    <2>3. Plain("score") /\ r \in Scoring /\ request[r].seen = upvoteCount
      BY <2>1, <2>2 DEF ScoreInv, Scoring, Plain
    <2>4. Scoring' = {}
      BY <2>1, <2>3, NullsAreNoContent DEF ScoreInv, Scoring, Turns
    <2> QED BY <2>1, <2>3, <2>4 DEF Scoring
  <1>6. ASSUME NEW r \in Request, Stop(r) PROVE ScoreInv'
    <2>1. Turns(r) /\ request'[r] = Ended /\ UNCHANGED <<upvoteCount, score>>
      BY <1>6, DoneTurns DEF Stop, InFlight, postVars
    <2>2. CASE request[r].step \in {"score", "store"}
      <3>1. Score \in tangled'
        BY <1>6, <2>2 DEF Stop
      <3> QED BY <3>1 DEF ScoreInv, Plain, Score
    <2>3. CASE request[r].step \notin {"score", "store"}
      BY <2>1, <2>3, NullsAreNoContent, ScoreFrame DEF Turns
    <2> QED BY <2>2, <2>3
  <1>7. ASSUME NEW r \in Request, Proceed(r), ~VoteTurn(r) PROVE ScoreInv'
    <2>1. request[r].step \notin {"score", "store"}
      BY <1>7, OtherTurns DEF ReqInv, Known
    <2> QED BY <1>7, <2>1, OtherTurns, ScoreFrame DEF Turns
  <1>8. CASE Quietly
    BY <1>8 DEF Quietly, postVars, ScoreInv, Scoring, Plain
  <1> QED BY <1>1, <1>2, <1>3, <1>4, <1>5, <1>6, <1>7, <1>8, ArriveArrives, MineQuietly
          DEF Next, VoteTurn

\* When no vote is on its way the score is that of the count, unless two updates of it
\* overlapped (updatePostScore runs after the answer of POST vote).
THEOREM ScoreIsCurrentHolds == Spec => []ScoreIsCurrent
  <1>1. Init => ReqInv /\ ScoreInv
    BY InitReqInv, InitScoreInv
  <1>2. ReqInv /\ ScoreInv /\ [Next]_vars => (ReqInv /\ ScoreInv)'
    BY NextReqInv, NextScoreInv
  <1>3. ScoreInv => ScoreIsCurrent
    BY DEF ScoreInv, Scoring, ScoreIsCurrent, InFlight
  <1> QED BY <1>1, <1>2, <1>3, PTL DEF Spec

-----------------------------------------------------------------------------
\* The counters.  The users, and the requests, are finitely many.
LEMMA Finite ==
  ASSUME NEW S, S \subseteq Request \/ S \subseteq User
  PROVE  IsFiniteSet(S)
  <1>1. IsFiniteSet(Request)
    BY PostConstants, FS_Interval DEF Request
  <1> QED BY <1>1, PostConstants, FS_Subset

Holds(x, S) == IF x \in S THEN 1 ELSE 0

\* Sets that differ in one element at most differ by as much in size.
LEMMA OneElement ==
  ASSUME NEW S, NEW T, NEW x, IsFiniteSet(S), S \ {x} = T \ {x}
  PROVE  /\ Cardinality(S) \in Nat /\ Cardinality(T) \in Nat
         /\ Cardinality(T) = Cardinality(S) + Holds(x, T) - Holds(x, S)
  <1> DEFINE U == S \ {x}
  <1>1. /\ IsFiniteSet(U) /\ Cardinality(U) \in Nat /\ Cardinality(S) \in Nat
        /\ Cardinality(U) = Cardinality(S) - Holds(x, S)
    BY FS_RemoveElement, FS_CardinalityType DEF Holds
  <1>2. CASE x \in T
    <2>1. T = U \cup {x} /\ x \notin U
      BY <1>2
    <2>2. Cardinality(T) = Cardinality(U) + 1
      BY <1>1, <2>1, FS_AddElement
    <2> QED BY <1>1, <1>2, <2>2 DEF Holds
  <1>3. CASE x \notin T
    <2>1. T = U
      BY <1>3
    <2> QED BY <1>1, <1>3, <2>1 DEF Holds
  <1> QED BY <1>2, <1>3

\* What the votes are, and what requests on their way to the count know.
VoteTyped ==
  /\ vote \in [User -> {-1, 0, 1}] /\ upvoteCount \in Int
  /\ \A r \in Request : request[r].kind = "vote" =>
       request[r].arg \in {1, -1} /\ request[r].by \in User

VoteSum == Cardinality(Votes(1)) - Cardinality(Votes(-1))
OnItsWay == Cardinality(Uncounted(1)) - Cardinality(Uncounted(-1))
            + 2 * (Cardinality(Uncounted(2)) - Cardinality(Uncounted(-2)))

VotesApart == \A r, s \in InFlight : SameVote(request[r], request[s]) => r = s

VoteInv ==
  Plain("vote") =>
    /\ VotesApart
    /\ \A r \in Request : At(r, "vote", "write") => request[r].seen = vote[request[r].by]
    /\ upvoteCount + OnItsWay = VoteSum

\* A vote that changes changes the sum by as much.
LEMMA VoteSumMoves ==
  ASSUME VoteTyped, NEW u \in User, NEW b \in {-1, 0, 1}, vote' = [vote EXCEPT ![u] = b]
  PROVE  VoteSum \in Int /\ VoteSum' = VoteSum + b - vote[u]
  <1>1. \A v \in {1, -1} : Votes(v) \ {u} = Votes(v)' \ {u}
    BY DEF Votes, VoteTyped
  <1>2. \A v \in {1, -1} : IsFiniteSet(Votes(v))
    BY Finite DEF Votes
  <1>3. \A v \in {1, -1} :
          /\ Cardinality(Votes(v)) \in Nat /\ Cardinality(Votes(v)') \in Nat
          /\ Cardinality(Votes(v)') = Cardinality(Votes(v)) + Holds(u, Votes(v)') - Holds(u, Votes(v))
    BY <1>1, <1>2, OneElement
  <1>4. /\ \A v \in {1, -1} : Holds(u, Votes(v)') = IF b = v THEN 1 ELSE 0
        /\ \A v \in {1, -1} : Holds(u, Votes(v)) = IF vote[u] = v THEN 1 ELSE 0
    BY DEF Holds, Votes, VoteTyped
  <1>5. vote[u] \in {-1, 0, 1}
    BY DEF VoteTyped
  <1>6. /\ Cardinality(Votes(1)') = Cardinality(Votes(1)) + (IF b = 1 THEN 1 ELSE 0)
                                       - (IF vote[u] = 1 THEN 1 ELSE 0)
        /\ Cardinality(Votes(-1)') = Cardinality(Votes(-1)) + (IF b = -1 THEN 1 ELSE 0)
                                        - (IF vote[u] = -1 THEN 1 ELSE 0)
        /\ Cardinality(Votes(1)) \in Nat /\ Cardinality(Votes(-1)) \in Nat
    BY <1>3, <1>4
  <1> QED BY <1>5, <1>6 DEF VoteSum

\* What a request still has to bring to the count.
Brings(r) == IF r \in Counting("vote") THEN Delta(r) ELSE 0

\* A step of one request changes what is on its way by what that one brings.
LEMMA OnItsWayMoves ==
  ASSUME VoteTyped, VoteTyped', NEW r \in Request,
         \A x \in Request \ {r} : request'[x] = request[x]
  PROVE  /\ OnItsWay \in Int /\ Brings(r) \in Int /\ Brings(r)' \in Int
         /\ OnItsWay' = OnItsWay + Brings(r)' - Brings(r)
  <1> DEFINE D == {1, -1, 2, -2}
  <1>1. /\ r \in Counting("vote") => Delta(r) \in D
        /\ r \in Counting("vote")' => Delta(r)' \in D
    BY DEF Counting, At, Delta, VoteTyped
  <1>2. \A d \in D : Uncounted(d) \ {r} = Uncounted(d)' \ {r}
    BY DEF Uncounted, Counting, At, Delta
  <1>3. \A d \in D : IsFiniteSet(Uncounted(d))
    BY Finite DEF Uncounted, Counting
  <1>4. \A d \in D :
          /\ Cardinality(Uncounted(d)) \in Nat /\ Cardinality(Uncounted(d)') \in Nat
          /\ Cardinality(Uncounted(d)')
               = Cardinality(Uncounted(d)) + Holds(r, Uncounted(d)') - Holds(r, Uncounted(d))
    BY <1>2, <1>3, OneElement
  <1>5. /\ Brings(r) \in D \cup {0} /\ Brings(r)' \in D \cup {0}
        /\ \A d \in D : Holds(r, Uncounted(d)) = IF Brings(r) = d THEN 1 ELSE 0
        /\ \A d \in D : Holds(r, Uncounted(d)') = IF Brings(r)' = d THEN 1 ELSE 0
    BY <1>1 DEF Brings, Holds, Uncounted
  <1>6. \A d \in D :
          /\ Cardinality(Uncounted(d)) \in Nat /\ Cardinality(Uncounted(d)') \in Nat
          /\ Cardinality(Uncounted(d)') = Cardinality(Uncounted(d))
               + (IF Brings(r)' = d THEN 1 ELSE 0) - (IF Brings(r) = d THEN 1 ELSE 0)
    BY <1>4, <1>5
  <1> HIDE DEF D
  <1>7. 1 \in D /\ -1 \in D /\ 2 \in D /\ -2 \in D /\ \A b \in D : b \in {1, -1, 2, -2}
    BY DEF D
  <1> QED BY <1>5, <1>6, <1>7 DEF OnItsWay

\* Votes under way stay apart, or the meeting is noted.
LEMMA NextVotesApart ==
  ASSUME ReqInv, VoteInv, Plain("vote")', NEW r \in Request, Turns(r) \/ Arrives(r)
  PROVE  VotesApart' /\ VotesApart /\ Plain("vote")
  <1>1. tangled \subseteq tangled'
    BY DEF Turns, Arrives
  <1>2. VotesApart /\ Plain("vote")
    BY <1>1, PlainBefore DEF VoteInv
  <1>3. CASE Turns(r)
    <2>1. ASSUME NEW x \in InFlight'
          PROVE  /\ x \in InFlight /\ request'[x].kind = request[x].kind
                 /\ request'[x].by = request[x].by
      BY <1>3, <2>1, NullsAreNoContent DEF Turns, InFlight
    <2> QED BY <1>2, <2>1 DEF VotesApart, SameVote
  <1>4. CASE Arrives(r)
    <2>1. ASSUME NEW x \in InFlight' PROVE x = r \/ (x \in InFlight /\ request'[x] = request[x])
      BY <1>4, <2>1 DEF Arrives, InFlight
    <2>2. ASSUME NEW x \in InFlight PROVE ~SameVote(request'[r], request[x])
      <3>1. SUFFICES ASSUME SameVote(request'[r], request[x]) PROVE FALSE
        OBVIOUS
      <3>2. <<"vote", request[x].by>> \in tangled'
        BY <1>4, <3>1 DEF Arrives
      <3> QED BY <3>2 DEF Plain
    <2> QED BY <1>2, <2>1, <2>2 DEF VotesApart, SameVote
  <1> QED BY <1>2, <1>3, <1>4

\* The row takes what the vote brings, and the vote is on its way to the count.
LEMMA WriteVoteKeeps ==
  ASSUME ReqInv, VoteTyped, VoteInv, NEW r \in Request, WriteVote(r)
  PROVE  VoteTyped' /\ VoteInv'
  <1> DEFINE u == request[r].by
             value == request[r].arg
             seen == request[r].seen
  <1>1. /\ Turns(r) /\ request[r].kind = "vote" /\ request[r].step = "write"
        /\ u \in User /\ value \in {1, -1} /\ vote \in [User -> {-1, 0, 1}]
        /\ upvoteCount' = upvoteCount /\ tangled' = tangled /\ upvoteCount \in Int
    BY ProceedTurns DEF Proceed, WriteVote, At, VoteTyped, still
  <1>2. \/ /\ seen = value /\ vote' = [vote EXCEPT ![u] = 0] /\ Go(r, "count")
        \/ /\ seen = -value /\ vote' = [vote EXCEPT ![u] = IF vote[u] = 0 THEN 0 ELSE value]
           /\ Go(r, "count")
        \/ /\ seen = 0 /\ vote[u] = 0 /\ vote' = [vote EXCEPT ![u] = value] /\ Go(r, "count")
        \/ /\ seen = 0 /\ vote[u] # 0 /\ Done(r) /\ vote' = vote
    BY DEF WriteVote
  <1>3. VoteTyped'
    <2>1. vote' \in [User -> {-1, 0, 1}]
      BY <1>1, <1>2
    <2>2. ASSUME NEW x \in Request, request'[x].kind = "vote"
          PROVE  request'[x].arg \in {1, -1} /\ request'[x].by \in User
      BY <1>1, <2>2, NullsAreNoContent DEF Turns, VoteTyped
    <2> QED BY <1>1, <2>1, <2>2 DEF VoteTyped
  <1>4. ASSUME Plain("vote")' PROVE VoteInv!2'
    <2>1. /\ VotesApart' /\ VotesApart /\ seen = vote[u] /\ upvoteCount + OnItsWay = VoteSum
      BY <1>1, <1>4, NextVotesApart DEF VoteInv, At
    <2>2. PICK b \in {-1, 0, 1} :
            /\ vote' = [vote EXCEPT ![u] = b] /\ Go(r, "count")
            /\ \/ seen = value /\ b = 0
               \/ seen = -value /\ b = value
               \/ seen = 0 /\ b = value
      BY <1>1, <1>2, <2>1
    <2>3. /\ request'[r].kind = "vote" /\ request'[r].step = "count"
          /\ request'[r].seen = seen /\ request'[r].arg = value
      BY <1>1, <2>2, GoKnown
    <2>4. Brings(r) = 0 /\ Brings(r)' = b - vote[u]
      <3>1. r \notin Counting("vote") /\ r \in Counting("vote")'
        BY <1>1, <2>3 DEF Counting, At
      <3>2. Delta(r)' = b - vote[u]
        BY <1>1, <2>1, <2>2, <2>3 DEF Delta
      <3> QED BY <3>1, <3>2 DEF Brings
    <2>5. /\ OnItsWay \in Int /\ OnItsWay' = OnItsWay + Brings(r)' - Brings(r)
          /\ VoteSum \in Int /\ VoteSum' = VoteSum + b - vote[u]
      BY <1>1, <1>3, <2>2, OnItsWayMoves, VoteSumMoves DEF Turns
    <2>6. upvoteCount' + OnItsWay' = VoteSum'
      BY <1>1, <2>1, <2>4, <2>5
    <2>7. ASSUME NEW x \in Request, At(x, "vote", "write")'
          PROVE  request'[x].seen = vote'[request'[x].by]
      <3>1. x # r /\ request'[x] = request[x]
        BY <1>1, <2>3, <2>7 DEF At, Turns
      <3>2. /\ At(x, "vote", "write") /\ x \in InFlight /\ r \in InFlight
            /\ request[x].by \in User
        BY <1>1, <2>7, <3>1 DEF At, InFlight, VoteTyped
      <3>3. request[x].by # u
        BY <1>1, <2>1, <3>1, <3>2 DEF VotesApart, SameVote, At
      <3> QED BY <1>1, <1>4, <2>2, <3>1, <3>2, <3>3 DEF VoteInv, Plain
    <2> QED BY <2>1, <2>6, <2>7
  <1> QED BY <1>3, <1>4 DEF VoteInv

\* The count takes what was on its way.
LEMMA CountVoteKeeps ==
  ASSUME ReqInv, VoteTyped, VoteInv, NEW r \in Request, CountVote(r)
  PROVE  VoteTyped' /\ VoteInv'
  <1>1. /\ Turns(r) /\ request[r].kind = "vote" /\ request[r].step = "count"
        /\ request'[r].step = "score" /\ request[r].arg \in {1, -1}
        /\ vote' = vote /\ upvoteCount' = upvoteCount + Delta(r) /\ upvoteCount \in Int
    BY ProceedTurns, GoKnown DEF Proceed, CountVote, At, VoteTyped, AfterCount
  <1>2. Brings(r) = Delta(r) /\ Brings(r)' = 0 /\ Delta(r) \in Int
    BY <1>1 DEF Brings, Counting, At, Delta
  <1>3. VoteTyped'
    <2>1. ASSUME NEW x \in Request, request'[x].kind = "vote"
          PROVE  request'[x].arg \in {1, -1} /\ request'[x].by \in User
      BY <1>1, <2>1, NullsAreNoContent DEF Turns, VoteTyped
    <2>2. upvoteCount' \in Int
      BY <1>1, <1>2
    <2> QED BY <1>1, <2>1, <2>2 DEF VoteTyped
  <1>4. ASSUME Plain("vote")' PROVE VoteInv!2'
    <2>1. /\ VotesApart' /\ Plain("vote") /\ upvoteCount + OnItsWay = VoteSum
      BY <1>1, <1>4, NextVotesApart DEF VoteInv
    <2>2. OnItsWay \in Int /\ OnItsWay' = OnItsWay + Brings(r)' - Brings(r) /\ VoteSum' = VoteSum
      BY <1>1, <1>3, OnItsWayMoves DEF Turns, VoteSum, Votes
    <2>3. upvoteCount' + OnItsWay' = VoteSum'
      BY <1>1, <1>2, <2>1, <2>2
    <2>4. ASSUME NEW x \in Request, At(x, "vote", "write")'
          PROVE  request'[x].seen = vote'[request'[x].by]
      BY <1>1, <2>1, <2>4 DEF At, Turns, VoteInv
    <2> QED BY <2>1, <2>3, <2>4
  <1> QED BY <1>3, <1>4 DEF VoteInv

\* Nothing else changes a row or the count; a request that stops between them is noted.
LEMMA OthersKeepVotes ==
  ASSUME ReqInv, VoteTyped, VoteInv, NEW r \in Request,
         Arrives(r) \/ (Proceed(r) /\ ~WriteVote(r) /\ ~CountVote(r))
  PROVE  VoteTyped' /\ VoteInv'
  <1>1. /\ Turns(r) \/ Arrives(r)
        /\ UNCHANGED <<vote, upvoteCount>>
        /\ request'[r].kind = "vote" => request'[r].step # "count"
        /\ At(r, "vote", "write")' => request'[r].seen = vote[request'[r].by]
        /\ Plain("vote")' => ~At(r, "vote", "count")
    <2>1. CASE Arrives(r)
      BY <2>1, NullsAreNoContent DEF Arrives, Found, At, postVars
    <2>2. CASE ReadCount(r)
      <3>1. /\ request[r].step = "score" /\ Sees(r, upvoteCount, "store")
            /\ request[r].kind = "vote"
            /\ UNCHANGED <<upvoteCount, vote>> /\ begun' = begun /\ tangled' = tangled
        BY <2>2 DEF ReadCount, At, still, Sees, postVars
      <3> QED BY <3>1, SeenTurns DEF At
    <2>3. CASE StoreScore(r)
      BY <2>3, DoneTurns, NullsAreNoContent DEF StoreScore, At, still
    <2>4. CASE Stop(r)
      <3>1. Turns(r) /\ request'[r] = Ended /\ UNCHANGED <<vote, upvoteCount>>
        BY <2>4, DoneTurns DEF Stop, InFlight, postVars
      <3>2. ASSUME At(r, "vote", "count") PROVE ~Plain("vote")'
        <4>1. ThingOf(r) = <<"vote", request[r].by>> /\ ThingOf(r) \in tangled'
          BY <2>4, <3>2, OtherThings DEF At, ThingOf, Stop
        <4> QED BY <4>1 DEF Plain
      <3> QED BY <3>1, <3>2, NullsAreNoContent DEF At
    <2>5. CASE Proceed(r) /\ ~VoteTurn(r)
      BY <2>5, OtherTurns DEF At
    <2> QED BY <2>1, <2>2, <2>3, <2>4, <2>5 DEF VoteTurn
  <1>2. \A x \in Request \ {r} : request'[x] = request[x]
    BY <1>1 DEF Turns, Arrives
  <1>3. VoteTyped'
    <2>1. ASSUME NEW x \in Request, request'[x].kind = "vote"
          PROVE  request'[x].arg \in {1, -1} /\ request'[x].by \in User
      BY <1>1, <2>1, NullsAreNoContent DEF Turns, Arrives, Found, VoteTyped
    <2> QED BY <1>1, <2>1 DEF VoteTyped
  <1>4. ASSUME Plain("vote")' PROVE VoteInv!2'
    <2>1. /\ VotesApart' /\ Plain("vote") /\ upvoteCount + OnItsWay = VoteSum
      BY <1>1, <1>4, NextVotesApart DEF VoteInv
    <2>2. Brings(r) = 0 /\ Brings(r)' = 0
      BY <1>1, <1>4 DEF Brings, Counting, At
    <2>3. OnItsWay \in Int /\ OnItsWay' = OnItsWay /\ VoteSum' = VoteSum
      BY <1>1, <1>2, <1>3, <2>2, OnItsWayMoves DEF VoteSum, Votes
    <2>4. ASSUME NEW x \in Request, At(x, "vote", "write")'
          PROVE  request'[x].seen = vote'[request'[x].by]
      BY <1>1, <1>2, <2>1, <2>4 DEF At, VoteInv
    <2> QED BY <1>1, <2>1, <2>3, <2>4
  <1> QED BY <1>3, <1>4 DEF VoteInv

\* Rows, count and the votes on their way add up after every step.
LEMMA NextVoteInv ==
  ASSUME ReqInv, VoteTyped, VoteInv, [Next]_vars
  PROVE  VoteTyped' /\ VoteInv'
  <1>1. CASE Quietly
    BY <1>1 DEF Quietly, postVars, VoteTyped, VoteInv, Plain, VotesApart, InFlight, At, OnItsWay,
                VoteSum, Votes, Uncounted, Counting, Delta, SameVote
  <1> QED BY <1>1, ArriveArrives, WriteVoteKeeps, CountVoteKeeps, OthersKeepVotes, MineQuietly
          DEF Next

\* Nobody has voted at the start.
LEMMA InitVoteInv == Init => VoteTyped /\ VoteInv
  <1> SUFFICES ASSUME Init PROVE VoteTyped /\ VoteInv
    OBVIOUS
  <1>1. VoteTyped /\ InFlight = {} /\ \A r \in Request : ~At(r, "vote", "write")
    BY NullsAreNoContent DEF Init, VoteTyped, InFlight, At
  <1>2. Votes(1) = {} /\ Votes(-1) = {} /\ \A d : Uncounted(d) = {}
    BY NullsAreNoContent DEF Init, Votes, Uncounted, Counting, At
  <1>3. upvoteCount + OnItsWay = VoteSum
    BY <1>2, FS_EmptySet DEF Init, OnItsWay, VoteSum
  <1> QED BY <1>1, <1>3 DEF VoteInv, VotesApart

-----------------------------------------------------------------------------
\* A comment is named for its request, which writes it once.
CommentTyped ==
  /\ comments \subseteq Request /\ commentCount \in Nat
  /\ \A c \in comments : c <= begun
  /\ \A r \in Request :
       /\ request[r].kind = "comment" => request[r].arg = r
       /\ At(r, "comment", "write") => r \notin comments
       /\ request[r].kind = "uncomment" => request[r].arg \in Request

CommentsApart == \A r, s \in InFlight : SameComment(request[r], request[s]) => r = s

CommentsAdd == Cardinality(comments) + Cardinality(Counting("uncomment"))
                 = commentCount + Cardinality(Counting("comment"))

CommentInv ==
  Plain("comment") =>
    /\ CommentsApart
    /\ \A r \in Request :
         /\ At(r, "uncomment", "write") => request[r].arg \in comments
         /\ At(r, "comment", "count") => r \in comments
    /\ CommentsAdd

CommentTurn(r) == WriteComment(r) \/ CountComment(r) \/ Stop(r)

\* Comments under way stay apart, or the meeting is noted.
LEMMA NextCommentsApart ==
  ASSUME ReqInv, CommentInv, Plain("comment")', NEW r \in Request, Turns(r) \/ Arrives(r)
  PROVE  CommentsApart' /\ CommentsApart /\ Plain("comment")
  <1>1. tangled \subseteq tangled'
    BY DEF Turns, Arrives
  <1>2. CommentsApart /\ Plain("comment")
    BY <1>1, PlainBefore DEF CommentInv
  <1>3. CASE Turns(r)
    <2>1. ASSUME NEW x \in InFlight'
          PROVE  /\ x \in InFlight /\ request'[x].kind = request[x].kind
                 /\ request'[x].arg = request[x].arg
      BY <1>3, <2>1, NullsAreNoContent DEF Turns, InFlight
    <2> QED BY <1>2, <2>1 DEF CommentsApart, SameComment
  <1>4. CASE Arrives(r)
    <2>1. ASSUME NEW x \in InFlight' PROVE x = r \/ (x \in InFlight /\ request'[x] = request[x])
      BY <1>4, <2>1 DEF Arrives, InFlight
    <2>2. ASSUME NEW x \in InFlight PROVE ~SameComment(request'[r], request[x])
      <3>1. SUFFICES ASSUME SameComment(request'[r], request[x]) PROVE FALSE
        OBVIOUS
      <3>2. <<"comment", request[x].arg>> \in tangled'
        BY <1>4, <3>1 DEF Arrives
      <3> QED BY <3>2 DEF Plain
    <2> QED BY <1>2, <2>1, <2>2 DEF CommentsApart, SameComment
  <1> QED BY <1>2, <1>3, <1>4

\* The sizes, after a step of one request on at most one comment.
LEMMA CommentSizes ==
  ASSUME CommentTyped, NEW r \in Request, NEW c \in Request,
         \A x \in Request \ {r} : request'[x] = request[x],
         comments \ {c} = comments' \ {c}
  PROVE  /\ Cardinality(comments) \in Nat /\ Cardinality(comments') \in Nat
         /\ Cardinality(comments') = Cardinality(comments) + Holds(c, comments') - Holds(c, comments)
         /\ \A kind \in OnComment :
              /\ Cardinality(Counting(kind)) \in Nat /\ Cardinality(Counting(kind)') \in Nat
              /\ Cardinality(Counting(kind)') = Cardinality(Counting(kind))
                   + Holds(r, Counting(kind)') - Holds(r, Counting(kind))
  <1>1. IsFiniteSet(comments)
    BY Finite DEF CommentTyped
  <1>2. ASSUME NEW kind PROVE Counting(kind) \ {r} = Counting(kind)' \ {r}
    BY DEF Counting, At
  <1>3. \A kind : IsFiniteSet(Counting(kind))
    BY Finite DEF Counting
  <1>4. \A kind \in OnComment : Counting(kind) \ {r} = Counting(kind)' \ {r}
    BY <1>2
  <1> QED BY <1>1, <1>3, <1>4, OneElement

\* The statements that are not a comment's leave rows and count alone.
LEMMA NoCommentTurns ==
  ASSUME ReqInv, NEW r \in Request, Proceed(r), ~CommentTurn(r)
  PROVE  /\ Turns(r) /\ UNCHANGED <<comments, commentCount>>
         /\ request[r].kind \notin OnComment /\ request'[r].kind \notin OnComment
  <1>1. Turns(r)
    BY ProceedTurns
  <1>2. request[r].kind \notin OnComment
    <2>1. CASE ClearChoice(r)
      BY <2>1 DEF ClearChoice, ReqInv, Known, OnComment
    <2> QED BY <2>1
         DEF Proceed, CommentTurn, At, WriteVote, CountVote, ReadCount, StoreScore, WriteChoice,
             WriteContent, CheckFrozen, ReplaceOptions, WipeContent, ReadContent, InsertRecord,
             Submit, Answer, CountRecord, OnComment
  <1>3. request'[r].kind \notin OnComment
    BY <1>1, <1>2, NullsAreNoContent DEF Turns, OnComment
  <1>4. UNCHANGED <<comments, commentCount>>
    BY DEF Proceed, CommentTurn, WriteVote, CountVote, ReadCount, StoreScore, ClearChoice,
           WriteChoice, WriteContent, CheckFrozen, ReplaceOptions, WipeContent, ReadContent,
           InsertRecord, Submit, Answer, CountRecord, postVars
  <1> QED BY <1>1, <1>2, <1>3, <1>4

\* A comment's row comes or goes, and is to be counted.
LEMMA WriteCommentKeeps ==
  ASSUME ReqInv, CommentTyped, CommentInv, NEW r \in Request, WriteComment(r)
  PROVE  CommentTyped' /\ CommentInv'
  <1> DEFINE c == request[r].arg
  <1>1. /\ Turns(r) /\ request[r].step = "write" /\ request[r].kind \in OnComment
        /\ request'[r].step = "count" /\ request'[r].kind = request[r].kind
        /\ request'[r].arg = c /\ c \in Request
        /\ UNCHANGED <<commentCount, begun, tangled>>
        /\ request[r].kind = "comment" => c = r /\ r \notin comments /\ comments' = comments \cup {r}
        /\ request[r].kind = "uncomment" => comments' = comments \ {c}
    BY ProceedTurns, GoKnown DEF Proceed, WriteComment, At, CommentTyped, OnComment, still
  <1>2. CommentTyped'
    <2>1. ASSUME NEW x \in comments' PROVE x \in Request /\ x <= begun'
      <3>1. r <= begun
        BY <1>1, NullsAreNoContent DEF ReqInv, Request
      <3> QED BY <1>1, <2>1, <3>1 DEF CommentTyped, OnComment
    <2>2. ASSUME NEW x \in Request
          PROVE  /\ request'[x].kind = "comment" => request'[x].arg = x
                 /\ At(x, "comment", "write")' => x \notin comments'
                 /\ request'[x].kind = "uncomment" => request'[x].arg \in Request
      <3>1. CASE x = r
        BY <1>1, <3>1 DEF At, CommentTyped
      <3>2. CASE x # r
        <4>1. request'[x] = request[x]
          BY <1>1, <3>2 DEF Turns
        <4> QED BY <1>1, <3>2, <4>1 DEF At, CommentTyped, OnComment
      <3> QED BY <3>1, <3>2
    <2> QED BY <1>1, <2>1, <2>2 DEF CommentTyped
  <1>3. ASSUME Plain("comment")' PROVE CommentInv!2'
    <2>1. CommentsApart' /\ CommentsApart /\ CommentInv!2
      BY <1>1, <1>3, NextCommentsApart DEF CommentInv
    <2>2. request[r].kind = "uncomment" => c \in comments
      BY <1>1, <2>1 DEF At
    <2>3. /\ comments \ {c} = comments' \ {c}
          /\ Holds(c, comments') - Holds(c, comments) = IF request[r].kind = "comment" THEN 1 ELSE -1
      BY <1>1, <2>2 DEF Holds, OnComment
    <2>4. \A kind \in OnComment :
            Holds(r, Counting(kind)') - Holds(r, Counting(kind)) = IF request[r].kind = kind THEN 1 ELSE 0
      BY <1>1 DEF Holds, Counting, At
    <2>5. CommentsAdd'
      <3>1. "comment" \in OnComment /\ "uncomment" \in OnComment
        BY DEF OnComment
      <3>2. /\ Cardinality(comments) \in Nat /\ Cardinality(comments') \in Nat
            /\ Cardinality(comments')
                 = Cardinality(comments) + Holds(c, comments') - Holds(c, comments)
            /\ \A kind \in OnComment :
                 /\ Cardinality(Counting(kind)) \in Nat /\ Cardinality(Counting(kind)') \in Nat
                 /\ Cardinality(Counting(kind)') = Cardinality(Counting(kind))
                      + Holds(r, Counting(kind)') - Holds(r, Counting(kind))
        BY <1>1, <2>3, CommentSizes DEF Turns
      <3>3. \A S, x : Holds(x, S) \in {0, 1}
        BY DEF Holds
      <3>4. Cardinality(comments')
              = Cardinality(comments) + (IF request[r].kind = "comment" THEN 1 ELSE -1)
        BY <2>3, <3>2, <3>3
      <3>5. \A kind \in OnComment :
              Cardinality(Counting(kind)')
                = Cardinality(Counting(kind)) + (IF request[r].kind = kind THEN 1 ELSE 0)
        BY <2>4, <3>2, <3>3
      <3>6. commentCount \in Nat /\ commentCount' = commentCount
        BY <1>1 DEF CommentTyped
      <3> QED BY <1>1, <2>1, <3>1, <3>2, <3>4, <3>5, <3>6 DEF CommentsAdd, OnComment
    <2>6. ASSUME NEW x \in Request
          PROVE  /\ At(x, "uncomment", "write")' => request'[x].arg \in comments'
                 /\ At(x, "comment", "count")' => x \in comments'
      <3>1. CASE x = r
        BY <1>1, <3>1 DEF At
      <3>2. CASE x # r
        <4>1. request'[x] = request[x] /\ r \in InFlight
          BY <1>1, <3>2 DEF Turns, InFlight
        <4>2. request[x].step # "done" /\ request[x].kind \in OnComment => request[x].arg # c
          BY <1>1, <2>1, <3>2, <4>1 DEF CommentsApart, SameComment, InFlight
        <4> QED BY <1>1, <2>1, <4>1, <4>2 DEF At, CommentTyped, OnComment
      <3> QED BY <3>1, <3>2
    <2> QED BY <2>1, <2>5, <2>6
  <1> QED BY <1>2, <1>3 DEF CommentInv

\* GREATEST(count - 1, 0).
LEMMA MaxZero ==
  ASSUME NEW n \in Int
  PROVE  Max({n, 0}) = IF n >= 0 THEN n ELSE 0
  <1> DEFINE m == IF n >= 0 THEN n ELSE 0
  <1>1. m \in {n, 0} /\ \A y \in {n, 0} : m >= y
    OBVIOUS
  <1>2. \A x \in {n, 0} : (\A y \in {n, 0} : x >= y) => x = m
    OBVIOUS
  <1> HIDE DEF m
  <1>3. Max({n, 0}) = m
    BY <1>1, <1>2 DEF Max
  <1> QED BY <1>3 DEF m

\* The count follows.
LEMMA CountCommentKeeps ==
  ASSUME ReqInv, CommentTyped, CommentInv, NEW r \in Request, CountComment(r)
  PROVE  CommentTyped' /\ CommentInv'
  <1> DEFINE kind == request[r].kind
  <1>1. /\ Turns(r) /\ request[r].step = "count" /\ kind \in OnComment
        /\ request'[r] = Ended
        /\ UNCHANGED <<comments, begun, tangled>>
        /\ commentCount \in Nat
    BY ProceedTurns, DoneTurns DEF Proceed, CountComment, At, CommentTyped, OnComment, still
  <1>2. commentCount' = IF kind = "comment" THEN commentCount + 1
                        ELSE IF commentCount >= 1 THEN commentCount - 1 ELSE 0
    <2>1. CASE kind = "comment"
      BY <2>1 DEF CountComment, At
    <2>2. CASE kind # "comment"
      <3>1. commentCount' = Max({commentCount - 1, 0})
        BY <2>2 DEF CountComment, At
      <3> QED BY <1>1, <2>2, <3>1, MaxZero
    <2> QED BY <2>1, <2>2
  <1>3. CommentTyped'
    BY <1>1, <1>2, NullsAreNoContent DEF CommentTyped, Turns, At
  <1>4. ASSUME Plain("comment")' PROVE CommentInv!2'
    <2>1. CommentsApart' /\ CommentInv!2
      BY <1>1, <1>4, NextCommentsApart DEF CommentInv
    <2>2. /\ Cardinality(comments) \in Nat
          /\ \A k \in OnComment :
               /\ Cardinality(Counting(k)) \in Nat /\ Cardinality(Counting(k)') \in Nat
               /\ Cardinality(Counting(k)') = Cardinality(Counting(k))
                    + Holds(r, Counting(k)') - Holds(r, Counting(k))
      BY <1>1, CommentSizes DEF Turns
    <2>3. \A k \in OnComment :
            /\ Holds(r, Counting(k)) = IF kind = k THEN 1 ELSE 0
            /\ Holds(r, Counting(k)') = 0
      BY <1>1, NullsAreNoContent DEF Holds, Counting, At, OnComment
    <2>4. \A k \in OnComment :
            /\ Cardinality(Counting(k)) \in Nat /\ Cardinality(Counting(k)') \in Nat
            /\ Cardinality(Counting(k)') = Cardinality(Counting(k)) - (IF kind = k THEN 1 ELSE 0)
      BY <2>2, <2>3
    <2>5. "comment" \in OnComment /\ "uncomment" \in OnComment
      BY DEF OnComment
    <2>6. Cardinality(Counting("comment")) <= Cardinality(comments)
      <3>1. Counting("comment") \subseteq comments /\ IsFiniteSet(comments)
        BY <2>1, Finite DEF Counting, CommentTyped
      <3> QED BY <3>1, FS_Subset
    <2>7. CommentsAdd'
      BY <1>1, <1>2, <2>1, <2>2, <2>4, <2>5, <2>6 DEF CommentsAdd, OnComment
    <2>8. ASSUME NEW x \in Request
          PROVE  /\ At(x, "uncomment", "write")' => request'[x].arg \in comments'
                 /\ At(x, "comment", "count")' => x \in comments'
      BY <1>1, <2>1, NullsAreNoContent DEF At, Turns
    <2> QED BY <2>1, <2>7, <2>8
  <1> QED BY <1>3, <1>4 DEF CommentInv

\* Nothing else changes a comment's row or the count, and a stop between them is noted.
LEMMA OthersKeepComments ==
  ASSUME ReqInv, CommentTyped, CommentInv, NEW r \in Request,
         Arrives(r) \/ (Proceed(r) /\ ~WriteComment(r) /\ ~CountComment(r))
  PROVE  CommentTyped' /\ CommentInv'
  <1>1. /\ Turns(r) \/ Arrives(r)
        /\ UNCHANGED <<comments, commentCount>>
        /\ begun' \in {begun, begun + 1} /\ begun \in Nat
        /\ request'[r].kind \in OnComment => Arrives(r)
        /\ Plain("comment")' => request[r].kind \notin OnComment
    <2>1. CASE Arrives(r)
      BY <2>1, NullsAreNoContent DEF Arrives, postVars, ReqInv, OnComment
    <2>2. CASE Stop(r)
      <3>1. Turns(r) /\ request'[r] = Ended /\ UNCHANGED <<comments, commentCount, begun>>
        BY <2>2, DoneTurns DEF Stop, InFlight, postVars
      <3>2. ASSUME request[r].kind \in OnComment PROVE ~Plain("comment")'
        <4>1. request[r].step \notin {"score", "store"}
          BY <3>2 DEF ReqInv, Known, OnComment
        <4>2. ThingOf(r) = <<"comment", request[r].arg>> /\ ThingOf(r) \in tangled'
          BY <2>2, <3>2, <4>1, OtherThings DEF ThingOf, Stop
        <4> QED BY <4>2 DEF Plain
      <3> QED BY <3>1, <3>2, NullsAreNoContent DEF OnComment, ReqInv
    <2>3. CASE Proceed(r) /\ ~CommentTurn(r)
      BY <2>3, NoCommentTurns DEF Turns, ReqInv
    <2> QED BY <2>1, <2>2, <2>3 DEF CommentTurn
  <1>2. /\ \A x \in Request \ {r} : request'[x] = request[x]
        /\ Arrives(r) => r = begun + 1
    BY <1>1 DEF Turns, Arrives
  <1>3. CommentTyped'
    <2>1. ASSUME NEW x \in comments' PROVE x \in Request /\ x <= begun'
      <3>1. x \in Request /\ x <= begun
        BY <1>1, <2>1 DEF CommentTyped
      <3> QED BY <1>1, <3>1, PostConstants DEF Request
    <2>2. ASSUME NEW x \in Request
          PROVE  /\ request'[x].kind = "comment" => request'[x].arg = x
                 /\ At(x, "comment", "write")' => x \notin comments'
                 /\ request'[x].kind = "uncomment" => request'[x].arg \in Request
      <3>1. CASE x # r
        BY <1>1, <1>2, <3>1 DEF At, CommentTyped
      <3>2. CASE x = r /\ request'[r].kind \in OnComment
        <4>1. /\ Arrives(r) /\ r = begun + 1
              /\ request'[r].kind = "comment" => request'[r].arg = r
              /\ request'[r].kind = "uncomment" => request'[r].arg \in comments
          BY <1>1, <3>2 DEF Arrives, Found
        <4>2. r \notin comments
          BY <1>1, <4>1 DEF CommentTyped
        <4> QED BY <1>1, <3>2, <4>1, <4>2 DEF At, CommentTyped
      <3>3. CASE x = r /\ request'[r].kind \notin OnComment
        BY <3>3 DEF At, OnComment
      <3> QED BY <3>1, <3>2, <3>3
    <2> QED BY <1>1, <2>1, <2>2 DEF CommentTyped
  <1>4. ASSUME Plain("comment")' PROVE CommentInv!2'
    <2>1. CommentsApart' /\ CommentInv!2
      BY <1>1, <1>4, NextCommentsApart DEF CommentInv
    <2>2. request[r].kind \notin OnComment /\ (Arrives(r) \/ request'[r].kind \notin OnComment)
      BY <1>1, <1>4
    <2>3. request'[r].kind \in OnComment
             => /\ request'[r].step = "write"
                /\ request'[r].kind = "uncomment" => request'[r].arg \in comments
      BY <1>1 DEF Arrives, Found, OnComment
    <2>4. \A kind \in OnComment : Counting(kind)' = Counting(kind)
      BY <1>2, <2>2, <2>3 DEF Counting, At
    <2>5. CommentsAdd'
      BY <1>1, <2>1, <2>4 DEF CommentsAdd, OnComment
    <2>6. ASSUME NEW x \in Request
          PROVE  /\ At(x, "uncomment", "write")' => request'[x].arg \in comments'
                 /\ At(x, "comment", "count")' => x \in comments'
      <3>1. CASE x = r
        BY <1>1, <2>3, <3>1 DEF At, OnComment
      <3>2. CASE x # r
        BY <1>1, <1>2, <2>1, <3>2 DEF At
      <3> QED BY <3>1, <3>2
    <2> QED BY <2>1, <2>5, <2>6
  <1> QED BY <1>3, <1>4 DEF CommentInv

\* Comments and their count add up after every step.
LEMMA NextCommentInv ==
  ASSUME ReqInv, CommentTyped, CommentInv, [Next]_vars
  PROVE  CommentTyped' /\ CommentInv'
  <1>1. CASE Quietly
    BY <1>1 DEF Quietly, postVars, CommentTyped, CommentInv, Plain, CommentsApart, InFlight, At,
                CommentsAdd, Counting, SameComment
  <1> QED BY <1>1, ArriveArrives, WriteCommentKeeps, CountCommentKeeps, OthersKeepComments,
             MineQuietly
          DEF Next

\* Nobody has commented at the start.
LEMMA InitCommentInv == Init => CommentTyped /\ CommentInv
  <1> SUFFICES ASSUME Init PROVE CommentTyped /\ CommentInv
    OBVIOUS
  <1>1. /\ CommentTyped /\ InFlight = {} /\ comments = {} /\ commentCount = 0
        /\ \A r \in Request : ~At(r, "uncomment", "write") /\ ~At(r, "comment", "count")
    BY NullsAreNoContent DEF Init, CommentTyped, InFlight, At
  <1>2. \A kind \in OnComment : Counting(kind) = {}
    BY NullsAreNoContent DEF Init, Counting, At, OnComment
  <1>3. CommentsAdd
    BY <1>1, <1>2, FS_EmptySet DEF CommentsAdd, OnComment
  <1> QED BY <1>1, <1>3 DEF CommentInv, CommentsApart

-----------------------------------------------------------------------------
\* A row of a record is inserted once: whoever works on it is alone, and finds it as
\* it left it.
Working(r) == request[r].kind = "record" /\ request[r].step \in {"chain", "confirm", "fail", "count"}

Confirmed == {u \in User : record[u].status = "confirmed"}

RowInv ==
  \A r \in Request : Working(r) =>
    /\ record[request[r].by].status
         = IF request[r].step = "count" THEN "confirmed" ELSE "pending"
    /\ \A s \in Request : Working(s) /\ request[s].by = request[r].by => r = s

RecordsAdd == Cardinality(Confirmed) = recordCount + Cardinality(Counting("record"))

TallyInv == recordCount \in Nat /\ RowInv /\ (Plain("content") => RecordsAdd)

\* The sizes, after a step of one request on at most one row.
LEMMA TallyMoves ==
  ASSUME NEW r \in Request, NEW u, \A x \in Request \ {r} : request'[x] = request[x],
         \A v \in User \ {u} : record'[v] = record[v]
  PROVE  /\ Cardinality(Confirmed) \in Nat /\ Cardinality(Confirmed') \in Nat
         /\ Cardinality(Confirmed') = Cardinality(Confirmed) + Holds(u, Confirmed') - Holds(u, Confirmed)
         /\ Cardinality(Counting("record")) \in Nat /\ Cardinality(Counting("record")') \in Nat
         /\ Cardinality(Counting("record")') = Cardinality(Counting("record"))
              + Holds(r, Counting("record")') - Holds(r, Counting("record"))
  <1>1. IsFiniteSet(Confirmed) /\ IsFiniteSet(Counting("record"))
    BY Finite DEF Confirmed, Counting
  <1>2. Confirmed \ {u} = Confirmed' \ {u}
    BY DEF Confirmed
  <1>3. Counting("record") \ {r} = Counting("record")' \ {r}
    BY DEF Counting, At
  <1> QED BY <1>1, <1>2, <1>3, OneElement

\* Where neither a row nor the count moves.
LEMMA TallyFrame ==
  ASSUME TallyInv, NEW r \in Request, \A x \in Request \ {r} : request'[x] = request[x],
         UNCHANGED <<record, recordCount>>, tangled \subseteq tangled',
         Working(r)' => /\ Working(r) /\ request'[r].by = request[r].by
                        /\ request'[r].step # "count" /\ request[r].step # "count",
         Plain("content")' => ~At(r, "record", "count")
  PROVE  TallyInv'
  <1>1. RowInv'
    BY DEF TallyInv, RowInv, Working
  <1>2. ASSUME Plain("content")' PROVE RecordsAdd'
    <2>1. Plain("content")
      BY <1>2, PlainBefore
    <2>2. ~At(r, "record", "count")'
      BY DEF At, Working
    <2>3. Counting("record")' = Counting("record") /\ Confirmed' = Confirmed
      BY <1>2, <2>2 DEF Counting, At, Confirmed
    <2> QED BY <2>1, <2>3 DEF TallyInv, RecordsAdd
  <1> QED BY <1>1, <1>2 DEF TallyInv

\* The row goes in while nobody works on it.
LEMMA InsertTally ==
  ASSUME ReqInv, RecInv, TallyInv, NEW r \in Request, InsertRecord(r)
  PROVE  TallyInv'
  <1> DEFINE u == request[r].by
  <1>1. /\ Turns(r) /\ request[r].kind = "record" /\ request[r].step = "insert" /\ u \in User
        /\ UNCHANGED <<recordCount, tangled>> /\ record \in [User -> Row]
    BY ProceedTurns DEF Proceed, InsertRecord, At, still, ReqInv, Known, RecInv
  <1>2. CASE record[u] # NoRow
    <2>1. request'[r] = Ended /\ record' = record
      BY <1>1, <1>2, DoneTurns DEF InsertRecord, RowIsFree, still
    <2> QED BY <1>1, <2>1, NullsAreNoContent, TallyFrame DEF Turns, Working, At
  <1>3. CASE record[u] = NoRow
    <2>1. /\ record' = [record EXCEPT ![u] = [status |-> "pending", hash |-> request[r].seen]]
          /\ request'[r].step = "chain" /\ request'[r].kind = "record" /\ request'[r].by = u
      BY <1>1, <1>3, GoKnown DEF InsertRecord, RowIsFree
    <2>2. record'[u].status = "pending" /\ \A v \in User \ {u} : record'[v] = record[v]
      BY <1>1, <2>1
    <2>3. ASSUME NEW x \in Request, x # r, Working(x)'
          PROVE  Working(x) /\ request'[x] = request[x] /\ request[x].by # u /\ request[x].by \in User
      <3>1. Working(x) /\ request'[x] = request[x]
        BY <1>1, <2>3 DEF Turns, Working
      <3>2. record[request[x].by].status \in {"confirmed", "pending"}
        BY <3>1 DEF TallyInv, RowInv
      <3> QED BY <1>3, <3>1, <3>2 DEF NoRow, ReqInv, Known, Working
    <2>4. RowInv'
      BY <1>1, <2>1, <2>2, <2>3 DEF TallyInv, RowInv, Working
    <2>5. /\ ~At(r, "record", "count") /\ ~At(r, "record", "count")'
          /\ u \notin Confirmed /\ u \notin Confirmed'
      BY <1>1, <1>3, <2>1, <2>2 DEF At, Confirmed, NoRow
    <2>6. Confirmed' = Confirmed /\ Counting("record")' = Counting("record")
      BY <1>1, <2>2, <2>5 DEF Confirmed, Counting, At, Turns
    <2>7. Plain("content")' => RecordsAdd
      BY <1>1 DEF TallyInv, Plain
    <2> QED BY <1>1, <2>4, <2>6, <2>7 DEF TallyInv, RecordsAdd
  <1> QED BY <1>2, <1>3

\* A row that becomes confirmed is to be counted.
LEMMA AnswerTally ==
  ASSUME ReqInv, RecInv, TallyInv, NEW r \in Request, Answer(r)
  PROVE  TallyInv'
  <1> DEFINE u == request[r].by
  <1>1. /\ Turns(r) /\ request[r].kind = "record" /\ u \in User
        /\ request[r].step \in {"confirm", "fail"} /\ Working(r)
        /\ UNCHANGED <<recordCount, tangled>> /\ record \in [User -> Row]
    BY ProceedTurns DEF Proceed, Answer, At, still, ReqInv, Known, RecInv, Working
  <1>2. /\ record[u].status = "pending"
        /\ \A s \in Request : Working(s) /\ request[s].by = u => r = s
    BY <1>1 DEF TallyInv, RowInv
  <1>3. \/ /\ record' = [record EXCEPT ![u].status = "confirmed"]
           /\ request'[r].step = "count" /\ request'[r].kind = "record" /\ request'[r].by = u
        \/ record' = [record EXCEPT ![u].status = "failed"] /\ request'[r] = Ended
    BY <1>1, GoKnown, DoneTurns DEF Answer, At, still
  <1>4. /\ \A v \in User \ {u} : record'[v] = record[v]
        /\ \/ record'[u].status = "confirmed" /\ request'[r].step = "count"
              /\ request'[r].kind = "record" /\ request'[r].by = u
           \/ record'[u].status = "failed" /\ request'[r] = Ended
    BY <1>1, <1>3 DEF Row
  <1>5. ASSUME NEW x \in Request, x # r, Working(x)'
        PROVE  Working(x) /\ request'[x] = request[x] /\ request[x].by # u /\ request[x].by \in User
    BY <1>1, <1>2, <1>5 DEF Turns, Working, ReqInv, Known
  <1>6. RowInv'
    BY <1>1, <1>4, <1>5, NullsAreNoContent DEF TallyInv, RowInv, Working
  <1>7. /\ Cardinality(Confirmed) \in Nat /\ Cardinality(Confirmed') \in Nat
        /\ Cardinality(Confirmed') = Cardinality(Confirmed) + Holds(u, Confirmed') - Holds(u, Confirmed)
        /\ Cardinality(Counting("record")) \in Nat /\ Cardinality(Counting("record")') \in Nat
        /\ Cardinality(Counting("record")') = Cardinality(Counting("record"))
             + Holds(r, Counting("record")') - Holds(r, Counting("record"))
    BY <1>1, <1>4, TallyMoves DEF Turns
  <1>8. /\ Holds(u, Confirmed) = 0 /\ Holds(r, Counting("record")) = 0
        /\ Holds(u, Confirmed') = Holds(r, Counting("record")')
        /\ Holds(u, Confirmed') \in {0, 1}
    <2>1. u \notin Confirmed /\ r \notin Counting("record")
      BY <1>1, <1>2 DEF Confirmed, Counting, At
    <2>2. u \in Confirmed' <=> r \in Counting("record")'
      BY <1>1, <1>4, NullsAreNoContent DEF Confirmed, Counting, At
    <2> QED BY <2>1, <2>2 DEF Holds
  <1>9. Plain("content")' => Plain("content")
    BY <1>1 DEF Plain
  <1> QED BY <1>1, <1>6, <1>7, <1>8, <1>9 DEF TallyInv, RecordsAdd

\* The count takes it.
LEMMA CountTally ==
  ASSUME ReqInv, RecInv, TallyInv, NEW r \in Request, CountRecord(r)
  PROVE  TallyInv'
  <1>1. /\ Turns(r) /\ request[r].kind = "record" /\ request[r].step = "count"
        /\ request'[r] = Ended /\ request[r].by \in User
        /\ recordCount' = recordCount + 1 /\ recordCount \in Nat /\ UNCHANGED <<record, tangled>>
    BY ProceedTurns, DoneTurns DEF Proceed, CountRecord, At, still, ReqInv, Known, TallyInv
  <1>2. RowInv'
    BY <1>1, NullsAreNoContent DEF TallyInv, RowInv, Working, Turns
  <1>3. /\ Cardinality(Counting("record")) \in Nat /\ Cardinality(Counting("record")') \in Nat
        /\ Cardinality(Counting("record")') = Cardinality(Counting("record"))
             + Holds(r, Counting("record")') - Holds(r, Counting("record"))
        /\ Cardinality(Confirmed) \in Nat
    BY <1>1, TallyMoves DEF Turns
  <1>4. Holds(r, Counting("record")) = 1 /\ Holds(r, Counting("record")') = 0
    BY <1>1, NullsAreNoContent DEF Holds, Counting, At
  <1>5. Confirmed' = Confirmed /\ (Plain("content")' => Plain("content"))
    BY <1>1 DEF Confirmed, Plain
  <1> QED BY <1>1, <1>2, <1>3, <1>4, <1>5 DEF TallyInv, RecordsAdd

\* Rows and count add up after every step.
LEMMA NextTallyInv ==
  ASSUME ReqInv, RecInv, TallyInv, [Next]_vars
  PROVE  TallyInv'
  <1>1. ASSUME NEW r \in Request, Arrives(r) PROVE TallyInv'
    BY <1>1, NullsAreNoContent, TallyFrame DEF Arrives, contentVars, Working, At
  <1>2. ASSUME NEW r \in Request, Plainly(r) PROVE TallyInv'
    BY <1>2, PlainlyTurns, NullsAreNoContent, TallyFrame DEF Turns, contentVars, Working, At
  <1>3. ASSUME NEW r \in Request, WriteContent(r) \/ WipeContent(r) PROVE TallyInv'
    <2>1. /\ Turns(r) /\ UNCHANGED <<record, recordCount>> /\ request[r].kind # "record"
      BY <1>3, ContentTurns DEF WriteContent, WipeContent, At
    <2> QED BY <2>1, NullsAreNoContent, TallyFrame DEF Turns, Working, At
  <1>4. ASSUME NEW r \in Request, ReadContent(r) PROVE TallyInv'
    <2>1. /\ request[r].step = "read" /\ Sees(r, content, "insert") /\ UNCHANGED <<record, recordCount>>
          /\ begun' = begun /\ tangled' = tangled
      BY <1>4 DEF ReadContent, At, still, Sees, contentVars
    <2>2. Turns(r) /\ request'[r].step = "insert"
      BY <2>1, SeenTurns
    <2> QED BY <2>1, <2>2, TallyFrame DEF Turns, Working, At
  <1>5. ASSUME NEW r \in Request, Submit(r) PROVE TallyInv'
    <2>1. /\ Turns(r) /\ UNCHANGED <<record, recordCount>>
          /\ request[r].kind = "record" /\ request[r].step = "chain"
          /\ request'[r].kind = "record" /\ request'[r].step \in {"confirm", "fail"}
          /\ request'[r].by = request[r].by
      BY <1>5, ContentTurns, GoKnown DEF Submit, At
    <2> QED BY <2>1, TallyFrame DEF Turns, Working, At
  <1>6. ASSUME NEW r \in Request, Stop(r) PROVE TallyInv'
    <2>1. Turns(r) /\ request'[r] = Ended /\ UNCHANGED <<record, recordCount>>
      BY <1>6, ContentTurns, DoneTurns DEF Stop, InFlight, contentVars
    <2>2. ASSUME At(r, "record", "count") PROVE ~Plain("content")'
      <3>1. ThingOf(r) = Contended /\ ThingOf(r) \in tangled'
        BY <1>6, <2>2, ContentThing DEF At, ThingOf, Stop, ContentKind
      <3> QED BY <3>1 DEF Plain, Contended
    <2> QED BY <2>1, <2>2, NullsAreNoContent, TallyFrame DEF Turns, Working
  <1>7. CASE Quietly
    BY <1>7 DEF Quietly, TallyInv, RowInv, Working, Plain, RecordsAdd, Confirmed,
                Counting, At
  <1> QED BY <1>1, <1>2, <1>3, <1>4, <1>5, <1>6, <1>7, ArriveArrives, InsertTally, AnswerTally,
             CountTally, MineQuietly
          DEF Next, Proceed, Plainly

\* There are no rows at the start.
LEMMA InitTallyInv == Init => TallyInv
  <1> SUFFICES ASSUME Init PROVE TallyInv
    OBVIOUS
  <1>1. RowInv /\ recordCount = 0
    BY NullsAreNoContent DEF Init, RowInv, Working
  <1>2. Confirmed = {} /\ Counting("record") = {}
    BY NullsAreNoContent DEF Init, Confirmed, Counting, At, NoRow
  <1> QED BY <1>1, <1>2, FS_EmptySet DEF TallyInv, RecordsAdd

\* The counters are what the rows add up to and the requests between their two writes,
\* as long as no two requests work on one vote, comment or content, and none stops there
\* (POST vote, POST and DELETE comments, POST record).
THEOREM CountsAddUpHolds == Spec => []CountsAddUp
  <1> DEFINE Counted == VoteTyped /\ VoteInv /\ CommentTyped /\ CommentInv /\ TallyInv
  <1>1. Init => ReqInv /\ RecInv /\ Counted
    BY InitReqInv, InitRecInv, InitVoteInv, InitCommentInv, InitTallyInv
  <1>2. ReqInv /\ RecInv /\ Counted /\ [Next]_vars => (ReqInv /\ RecInv /\ Counted)'
    BY NextReqInv, NextRecInv, NextVoteInv, NextCommentInv, NextTallyInv
  <1>3. ReqInv /\ RecInv /\ Counted => CountsAddUp
    <2> SUFFICES ASSUME ReqInv, Counted PROVE CountsAddUp
      OBVIOUS
    <2>1. /\ \A S : S \subseteq Request \/ S \subseteq User => Cardinality(S) \in Nat
      BY Finite, FS_CardinalityType
    <2>2. /\ \A d : Uncounted(d) \subseteq Request
          /\ \A v : Votes(v) \subseteq User
      BY DEF Uncounted, Counting, Votes
    <2>3. Plain("vote") =>
            upvoteCount + Cardinality(Uncounted(1)) - Cardinality(Uncounted(-1))
                        + 2 * (Cardinality(Uncounted(2)) - Cardinality(Uncounted(-2)))
              = Cardinality(Votes(1)) - Cardinality(Votes(-1))
      BY <2>1, <2>2 DEF VoteTyped, VoteInv, OnItsWay, VoteSum
    <2>4. Plain("comment") =>
            commentCount + Cardinality(Counting("comment"))
              = Cardinality(comments) + Cardinality(Counting("uncomment"))
      BY DEF CommentInv, CommentsAdd
    <2>5. Plain("content") =>
            recordCount + Cardinality(Counting("record"))
              = Cardinality({u \in User : record[u].status = "confirmed"})
      BY DEF TallyInv, RecordsAdd, Confirmed
    <2> QED BY <2>3, <2>4, <2>5 DEF CountsAddUp
  <1> HIDE DEF Counted
  <1> QED BY <1>1, <1>2, <1>3, PTL DEF Spec
=============================================================================
