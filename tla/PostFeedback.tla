---------------------------- MODULE PostFeedback ----------------------------
(***************************************************************************)
(* What readers do to one post: votes and the score, comments, a           *)
(* single-choice poll, edits, deletion and on-chain records (the routes    *)
(* under posts/[postId] and comments/[commentId], postScore.ts, record.ts  *)
(* and the contract OpenStoaRecordBoard).  No route uses a transaction: a  *)
(* request is a chain of statements, and others run between any two.       *)
(*                                                                         *)
(* Not modelled: the reader's right to act on the post (canActOnPost), the *)
(* age of the post and the daily limit, which other posts share.           *)
(***************************************************************************)
EXTENDS Integers, FiniteSets, FiniteSetsExt

CONSTANTS
  User,
  Author,      \* of the post
  Option,      \* of its poll
  None,
  Wiped,       \* the content of a deleted post
  MaxRequests, \* bound: requests in all
  MaxFaults    \* bound: requests that stop half way

ASSUME PostConstants ==
  /\ Author \in User /\ IsFiniteSet(User)
  /\ MaxRequests \in Nat /\ MaxFaults \in Nat
  /\ None \notin Nat /\ Wiped \notin Nat /\ None # Wiped

VARIABLES
  vote,        \* user -> value in votes, 0 without a row
  upvoteCount, score,
  comments,    \* the rows of comments that are not deleted
  commentCount,
  choices,     \* poll_votes
  options,     \* the edit the poll's options are from
  content, isDeleted,
  recordCount,
  record,      \* user -> row of records
  chain,       \* user -> content the contract has from this recorder
  mempool,     \* user -> content of a transaction nobody waits for any more
  request,     \* request -> where it stands
  begun,       \* requests so far
  tangled,     \* things two requests worked on at once, or one left half done
  faults

postVars    == <<vote, upvoteCount, score, comments, commentCount, choices, options>>
contentVars == <<content, isDeleted, recordCount, record, chain, mempool>>
vars == <<postVars, contentVars, request, begun, tangled, faults>>

Request == 1..MaxRequests
Content == (0..MaxRequests) \cup {Wiped}

\* What a request works on; those on different things do not meet.
Thing(kind, by, arg) ==
  CASE kind = "vote" -> <<"vote", by>>
    [] kind \in {"comment", "uncomment"} -> <<"comment", arg>>
    [] kind \in {"choose", "unchoose"} -> <<"choice", by>>
    [] kind \in {"options", "edit", "delete", "record"} -> <<"content", None>>
Score == <<"score", None>>

Ended == [kind |-> "none", by |-> None, arg |-> 0, seen |-> 0, step |-> "done"]
NoRow == [status |-> "none", hash |-> None]

ThingOf(r) == Thing(request[r].kind, request[r].by, request[r].arg)
InFlight == {r \in Request : request[r].step # "done"}
At(r, kind, step) == request[r].kind = kind /\ request[r].step = step

Init ==
  /\ vote = [u \in User |-> 0]
  /\ upvoteCount = 0 /\ score = 0
  /\ comments = {} /\ commentCount = 0
  /\ choices = {} /\ options = 0
  /\ content = 0 /\ isDeleted = FALSE
  /\ recordCount = 0
  /\ record = [u \in User |-> NoRow]
  /\ chain = [u \in User |-> None] /\ mempool = [u \in User |-> None]
  /\ request = [r \in Request |-> Ended]
  /\ begun = 0
  /\ tangled = {}
  /\ faults = 0

-----------------------------------------------------------------------------
\* A request arrives and does its first reads; kind says which, seen what it found.
\* Two recorders of one content do not disturb each other.
Begin(kind, by, arg, seen, step) ==
  LET thing == Thing(kind, by, arg)
      other(r) == r \in InFlight /\ ThingOf(r) = thing
                  /\ ~(kind = "record" /\ request[r].kind = "record") IN
  /\ begun < MaxRequests
  /\ begun' = begun + 1
  /\ request' = [request EXCEPT ![begun + 1] =
       [kind |-> kind, by |-> by, arg |-> arg, seen |-> seen, step |-> step]]
  /\ tangled' = tangled \cup {t \in {thing} : \E r \in Request : other(r)}
  /\ UNCHANGED <<postVars, contentVars, faults>>

Go(r, step) == request' = [request EXCEPT ![r].step = step]
Done(r) == request' = [request EXCEPT ![r] = Ended]

\* A statement fails or the server stops: what was to follow never happens.
Stop(r) ==
  /\ r \in InFlight /\ faults < MaxFaults
  /\ faults' = faults + 1
  /\ tangled' = tangled \cup
       {IF request[r].step \in {"score", "store"} THEN Score ELSE ThingOf(r)}
  /\ Done(r)
  /\ UNCHANGED <<postVars, contentVars, begun>>

still == <<begun, tangled, faults>>

-----------------------------------------------------------------------------
\* POST vote: the row this user has is read ...
Vote(u, value) == Begin("vote", u, value, vote[u], "write")

\* ... and deleted, changed or inserted; the unique index refuses a second row.
WriteVote(r) ==
  LET u == request[r].by  seen == request[r].seen  value == request[r].arg IN
  /\ At(r, "vote", "write")
  /\ \/ /\ seen = value
        /\ vote' = [vote EXCEPT ![u] = 0] /\ Go(r, "count")
     \/ /\ seen = -value
        /\ vote' = [vote EXCEPT ![u] = IF @ = 0 THEN 0 ELSE value] /\ Go(r, "count")
     \/ /\ seen = 0 /\ vote[u] = 0
        /\ vote' = [vote EXCEPT ![u] = value] /\ Go(r, "count")
     \/ /\ seen = 0 /\ vote[u] # 0
        /\ Done(r) /\ UNCHANGED vote
  /\ UNCHANGED <<upvoteCount, score, comments, commentCount, choices, options, contentVars, still>>

\* Mutant of Delta: a changed vote counts once.
DeltaOne(r) == IF request[r].seen = request[r].arg THEN -request[r].arg ELSE request[r].arg

Delta(r) ==
  LET value == request[r].arg IN
  CASE request[r].seen = value -> -value
    [] request[r].seen = 0 -> value
    [] OTHER -> 2 * value

\* Mutant of AfterCount: the branch that removes a vote leaves the score.
AfterCountKept(r) == IF request[r].seen = request[r].arg THEN "done" ELSE "score"

\* updatePostScore goes on after the answer, in every branch.
AfterCount(r) == "score"

CountVote(r) ==
  /\ At(r, "vote", "count")
  /\ upvoteCount' = upvoteCount + Delta(r)
  /\ Go(r, AfterCount(r))
  /\ tangled' = tangled \cup
       {t \in {Score} : \E o \in InFlight : request[o].step \in {"score", "store"}}
  /\ UNCHANGED <<vote, score, comments, commentCount, choices, options, contentVars, begun, faults>>

\* The score stands for the count it was computed from.
ReadCount(r) ==
  /\ At(r, "vote", "score")
  /\ request' = [request EXCEPT ![r].seen = upvoteCount, ![r].step = "store"]
  /\ UNCHANGED <<postVars, contentVars, still>>

StoreScore(r) ==
  /\ At(r, "vote", "store")
  /\ score' = request[r].seen
  /\ Done(r)
  /\ UNCHANGED <<vote, upvoteCount, comments, commentCount, choices, options, contentVars, still>>

-----------------------------------------------------------------------------
\* POST comments: a row, and one more in the count.  The row is named for its
\* request.
Comment == Begin("comment", None, begun + 1, 0, "write")

\* DELETE comments/[commentId], by its author or the topic's: the row was read as
\* not deleted; the write does not ask again.
Uncomment(c) == c \in comments /\ Begin("uncomment", None, c, 0, "write")

WriteComment(r) ==
  /\ \/ At(r, "comment", "write") /\ comments' = comments \cup {r}
     \/ At(r, "uncomment", "write") /\ comments' = comments \ {request[r].arg}
  /\ Go(r, "count")
  /\ UNCHANGED <<vote, upvoteCount, score, commentCount, choices, options, contentVars, still>>

CountComment(r) ==
  /\ \/ At(r, "comment", "count") /\ commentCount' = commentCount + 1
     \/ At(r, "uncomment", "count") /\ commentCount' = Max({commentCount - 1, 0})
  /\ Done(r)
  /\ UNCHANGED <<vote, upvoteCount, score, comments, choices, options, contentVars, still>>

-----------------------------------------------------------------------------
\* POST poll/vote of a single-choice poll: the user's rows go, the new one comes,
\* unless its option is gone by then.
Choose(u, o) == Begin("choose", u, o, options, "clear")
Unchoose(u)  == Begin("unchoose", u, 0, 0, "clear")

Cleared(r) == {c \in choices : c[1] # request[r].by}

ClearChoice(r) ==
  /\ request[r].step = "clear"
  /\ choices' = Cleared(r)
  /\ IF request[r].kind = "choose" THEN Go(r, "write") ELSE Done(r)
  /\ UNCHANGED <<vote, upvoteCount, score, comments, commentCount, options, contentVars, still>>

WriteChoice(r) ==
  /\ At(r, "choose", "write")
  /\ choices' = IF request[r].seen = options
                THEN choices \cup {<<request[r].by, request[r].arg>>} ELSE choices
  /\ Done(r)
  /\ UNCHANGED <<vote, upvoteCount, score, comments, commentCount, options, contentVars, still>>

-----------------------------------------------------------------------------
\* Mutant of Editable: a recorded post is edited like any other.
EditableAlways == ~isDeleted

\* PATCH refuses a post that is deleted, or locked by a record.
Editable == ~isDeleted /\ recordCount = 0

Edit == Editable /\ Begin("edit", Author, 0, 0, "write")

\* The UPDATE does not ask again, and each edit is a content of its own.  A PATCH that
\* has options too goes on to the poll.
WriteContent(r) ==
  /\ At(r, "edit", "write")
  /\ content' = r
  /\ Done(r) \/ Go(r, "frozen")
  /\ UNCHANGED <<postVars, isDeleted, recordCount, record, chain, mempool, still>>

\* PATCH of the poll's options alone; they are frozen once there are votes ...
EditOptions == Editable /\ Begin("options", Author, 0, 0, "frozen")

CheckFrozen(r) ==
  /\ At(r, "options", "frozen") \/ At(r, "edit", "frozen")
  /\ IF choices = {} THEN Go(r, "replace") ELSE Done(r)
  /\ UNCHANGED <<postVars, contentVars, still>>

\* ... and then replaced, with the votes that point at them.
ReplaceOptions(r) ==
  /\ At(r, "options", "replace") \/ At(r, "edit", "replace")
  /\ options' = r
  /\ choices' = {}
  /\ Done(r)
  /\ UNCHANGED <<vote, upvoteCount, score, comments, commentCount, contentVars, still>>

\* DELETE of the post, by its author or the topic's; records do not lock it.
Delete == ~isDeleted /\ Begin("delete", None, 0, 0, "write")

WipeContent(r) ==
  /\ At(r, "delete", "write")
  /\ content' = Wiped /\ isDeleted' = TRUE
  /\ Done(r)
  /\ UNCHANGED <<postVars, recordCount, record, chain, mempool, still>>

-----------------------------------------------------------------------------
\* POST record: the policy is checked: not one's own post, no row yet, whatever
\* became of that row.
Record(u) ==
  /\ u # Author /\ record[u] = NoRow
  /\ Begin("record", u, 0, 0, "read")

ReadContent(r) ==
  /\ At(r, "record", "read")
  /\ request' = [request EXCEPT ![r].seen = content, ![r].step = "insert"]
  /\ UNCHANGED <<postVars, contentVars, still>>

\* Mutant of RowIsFree: no unique index, the later row replaces the first.
RowAlwaysFree(u) == TRUE

\* The unique index on post and recorder.
RowIsFree(u) == record[u] = NoRow

InsertRecord(r) ==
  LET u == request[r].by IN
  /\ At(r, "record", "insert")
  /\ IF RowIsFree(u)
     THEN /\ record' = [record EXCEPT ![u] = [status |-> "pending", hash |-> request[r].seen]]
          /\ Go(r, "chain")
     ELSE Done(r) /\ UNCHANGED record
  /\ UNCHANGED <<postVars, content, isDeleted, recordCount, chain, mempool, still>>

\* The contract: one entry of a recorder, or the transaction reverts.
Append(u, entry) == chain' = [chain EXCEPT ![u] = IF @ = None THEN entry ELSE @]

Submit(r) ==
  LET u == request[r].by IN
  /\ At(r, "record", "chain")
  /\ \/ /\ chain[u] = None
        /\ Append(u, request[r].seen) /\ Go(r, "confirm")
        /\ UNCHANGED <<mempool, tangled, faults>>
     \/ /\ chain[u] # None
        /\ Go(r, "fail")
        /\ UNCHANGED <<chain, mempool, tangled, faults>>
     \* No receipt: the wait fails, and the transaction is left to the network.
     \/ /\ faults < MaxFaults /\ faults' = faults + 1
        /\ mempool' = [mempool EXCEPT ![u] = request[r].seen]
        /\ Go(r, "fail")
        /\ tangled' = tangled \cup {ThingOf(r)}
        /\ UNCHANGED chain
  /\ UNCHANGED <<postVars, content, isDeleted, recordCount, record, begun>>

\* It is mined at any time after that, or never.
Mine(u) ==
  /\ mempool[u] # None
  /\ Append(u, mempool[u])
  /\ mempool' = [mempool EXCEPT ![u] = None]
  /\ UNCHANGED <<postVars, content, isDeleted, recordCount, record, request, still>>

\* The row says how it went.
Answer(r) ==
  LET u == request[r].by IN
  /\ \/ /\ At(r, "record", "confirm")
        /\ record' = [record EXCEPT ![u].status = "confirmed"] /\ Go(r, "count")
     \/ /\ At(r, "record", "fail")
        /\ record' = [record EXCEPT ![u].status = "failed"] /\ Done(r)
  /\ UNCHANGED <<postVars, content, isDeleted, recordCount, chain, mempool, still>>

CountRecord(r) ==
  /\ At(r, "record", "count")
  /\ recordCount' = recordCount + 1
  /\ Done(r)
  /\ UNCHANGED <<postVars, content, isDeleted, record, chain, mempool, still>>

-----------------------------------------------------------------------------
Arrive ==
  \/ \E u \in User : Unchoose(u) \/ Record(u) \/ \E value \in {1, -1} : Vote(u, value)
  \/ \E u \in User, o \in Option : Choose(u, o)
  \/ Comment \/ (\E c \in Request : Uncomment(c))
  \/ Edit \/ EditOptions \/ Delete

Proceed(r) ==
  \/ WriteVote(r) \/ CountVote(r) \/ ReadCount(r) \/ StoreScore(r)
  \/ WriteComment(r) \/ CountComment(r)
  \/ ClearChoice(r) \/ WriteChoice(r)
  \/ WriteContent(r) \/ CheckFrozen(r) \/ ReplaceOptions(r) \/ WipeContent(r)
  \/ ReadContent(r) \/ InsertRecord(r) \/ Submit(r) \/ Answer(r) \/ CountRecord(r)
  \/ Stop(r)

Next ==
  \/ Arrive
  \/ \E r \in Request : Proceed(r)
  \/ \E u \in User : Mine(u)

Spec == Init /\ [][Next]_vars

-----------------------------------------------------------------------------
\* Type correctness.
TypeOK ==
  /\ vote \in [User -> -1..1]
  /\ {upvoteCount, score} \subseteq Int
  /\ comments \subseteq Request /\ commentCount \in Nat
  /\ choices \subseteq User \X Option /\ options \in 0..MaxRequests
  /\ content \in Content /\ isDeleted \in BOOLEAN
  /\ recordCount \in Nat
  /\ \A u \in User :
       /\ record[u].status \in {"none", "pending", "confirmed", "failed"}
       /\ {record[u].hash, chain[u], mempool[u]} \subseteq Content \cup {None}
  /\ begun \in 0..MaxRequests /\ faults \in 0..MaxFaults

Counting(kind) == {r \in Request : At(r, kind, "count")}
Votes(value) == {u \in User : vote[u] = value}
Uncounted(delta) == {r \in Counting("vote") : Delta(r) = delta}
Plain(what) == \A t \in tangled : t[1] # what

\* The counters kept beside the rows are what the rows add up to, and the requests
\* between their two writes, however requests of different users interleave.
CountsAddUp ==
  /\ Plain("vote") =>
       upvoteCount + Cardinality(Uncounted(1)) - Cardinality(Uncounted(-1))
                   + 2 * (Cardinality(Uncounted(2)) - Cardinality(Uncounted(-2)))
         = Cardinality(Votes(1)) - Cardinality(Votes(-1))
  /\ Plain("comment") =>
       commentCount + Cardinality(Counting("comment"))
         = Cardinality(comments) + Cardinality(Counting("uncomment"))
  /\ Plain("content") =>
       recordCount + Cardinality(Counting("record"))
         = Cardinality({u \in User : record[u].status = "confirmed"})

\* When no vote is on its way the score is the one of the count, whatever became
\* of the count, unless two updates of the score overlapped.
ScoreIsCurrent ==
  (Plain("score") /\ \A r \in InFlight : request[r].step \notin {"score", "store"})
    => score = upvoteCount

Chosen(u) == {o \in Option : <<u, o>> \in choices}

\* What is on the chain is what the post shows, until it is deleted: a record locks
\* the content it was made of.
RecordedIsShown ==
  Plain("content") /\ ~isDeleted => \A u \in User : chain[u] \in {None, content}

\* A row that says confirmed is on the chain, and whatever is there has a row of
\* the same content, however often a recorder tries and wherever an attempt ends.
RecordsAgree ==
  \A u \in User :
    /\ record[u].status = "confirmed" => chain[u] # None
    /\ chain[u] # None => record[u].hash = chain[u]

\* schema.ts, poll_votes: "Single-choice further caps at one row per (poll, user),
\* enforced application-side."
OneRowPerUser == \A u \in User : Cardinality(Chosen(u)) <= 1

\* posts/[postId]/route.ts, PATCH: "Edits are locked once the post is recorded
\* on-chain."
RecordLocks ==
  [][content' # content => isDeleted' \/ \A u \in User : chain[u] = None]_vars
=============================================================================
