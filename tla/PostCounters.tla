---------------------------- MODULE PostCounters ----------------------------
(***************************************************************************)
(* The like and comment counters a wall post stores next to the tables     *)
(* they are counted from: internal/store/wall.go with its callers in       *)
(* internal/api/wall.go and internal/web/post.go.                          *)
(*                                                                         *)
(* A handler is the sequence of its SQL statements.  The store has one     *)
(* connection and no transaction spans two of them, so a statement is      *)
(* atomic and the statements of different handlers interleave.  There is   *)
(* one post; handlers of different posts share no row.  A statement that   *)
(* fails (a full disk) is not modelled.                                    *)
(***************************************************************************)
EXTENDS Naturals, Sequences, FiniteSets

CONSTANTS
    Users,
    Requests,      \* goroutines that serve requests
    Kinds,         \* the handlers that are called
    MaxComments,   \* bound: comments ever written
    Crashes,       \* may the process be killed?
    None           \* no user

ASSUME UsersAssumption == IsFiniteSet(Users) /\ None \notin Users
ASSUME BoundAssumption == MaxComments \in Nat

VARIABLES
    likers,        \* table likes, of this post: the uids
    comments,      \* table comments, of this post: the cids
    nextCid,       \* counter "comment"
    row,           \* the post's own row of wall_posts
    request,       \* a handler's remaining statements and local variables
    wasLikes,      \* history: the numbers of likes there have been
    wasComments,   \* history: the numbers of comments there have been
    past           \* history: what has happened, see Start and Crash

tables == <<likers, comments, nextCid, row>>
vars == <<tables, request, wasLikes, wasComments, past>>

-----------------------------------------------------------------------------
(* The handlers.  Store.Like and Store.Unlike recount within the statement *)
(* that writes; what they read for their answer is left out.               *)

Like == <<"insertLike", "recount">>

(* Mutant: counted before the like is deleted. *)
UnlikeLate == <<"recount", "deleteLike">>
Unlike == <<"deleteLike", "recount">>
refreshPostCounters == <<"readPost", "countLikes", "countComments", "setCounters">>

likeToggle(add) == IF add THEN Like ELSE Unlike
handleLike(add) == likeToggle(add) \o refreshPostCounters
handleComment == <<"insertComment">> \o refreshPostCounters

(* Mutant: counted before the comment is stored. *)
wallAddCommentEarly == <<"countComments", "insertComment", "readPost", "setComments">>
wallAddComment == <<"insertComment", "countComments", "readPost", "setComments">>
wallDeleteComment == <<"deleteComment", "countComments", "readPost", "setComments">>
wallEdit == <<"readPost", "updatePost">>

wallDelete == <<"deletePost">>

(* Reads the post for its author, who never changes. *)
handlePostDelete == <<"readPost", "deletePost">>

Statements(kind) ==
    CASE kind = "apiLike" -> likeToggle(TRUE)
      [] kind = "apiUnlike" -> likeToggle(FALSE)
      [] kind = "webLike" -> handleLike(TRUE)
      [] kind = "webUnlike" -> handleLike(FALSE)
      [] kind = "webComment" -> handleComment
      [] kind = "apiComment" -> wallAddComment
      [] kind = "apiDeleteComment" -> wallDeleteComment
      [] kind = "apiEdit" -> wallEdit
      [] kind = "apiDelete" -> wallDelete
      [] kind = "webDelete" -> handlePostDelete

ApiLikeKinds == {"apiLike", "apiUnlike"}
LikeKinds == ApiLikeKinds \cup {"webLike", "webUnlike"}
WebKinds == {"webLike", "webUnlike", "webComment", "webDelete"}
AllKinds == ApiLikeKinds \cup WebKinds
              \cup {"apiComment", "apiDeleteComment", "apiEdit", "apiDelete"}

ASSUME KindsAssumption == Kinds \subseteq AllKinds

-----------------------------------------------------------------------------
NewPost == [likes |-> 0, comments |-> 0, deleted |-> FALSE]

NoRequest == [todo |-> <<>>, user |-> None, cid |-> 0, post |-> NewPost,
              likes |-> 0, comments |-> 0, alone |-> FALSE]

Init ==
    /\ likers = {}
    /\ comments = {}
    /\ nextCid = 1
    /\ row = NewPost
    /\ request = [r \in Requests |-> NoRequest]
    /\ wasLikes = {0}
    /\ wasComments = {0}
    /\ past = {}

Idle(r) == request[r].todo = <<>>

(* The API's likes and unlikes do nothing else. *)
OnlyLikes(todo) == \A i \in DOMAIN todo : todo[i] \in {"insertLike", "deleteLike", "recount"}

(* A request arrives.  alone remembers whether another one was served at   *)
(* the same time, past whether two were of which one was not the API's     *)
(* like or unlike.                                                         *)
Start(r, kind, u, cid) ==
    /\ Idle(r)
    /\ request' = [s \in Requests |->
                     IF s = r THEN [NoRequest EXCEPT !.todo = Statements(kind),
                                       !.user = u, !.cid = cid,
                                       !.alone = \A q \in Requests \ {r} : Idle(q)]
                     ELSE [request[s] EXCEPT !.alone = FALSE]]
    /\ past' = past \cup {tag \in {"mixed"} : \E q \in Requests \ {r} :
                    /\ ~Idle(q)
                    /\ ~OnlyLikes(Statements(kind)) \/ ~OnlyLikes(request[q].todo)}
    /\ UNCHANGED <<tables, wasLikes, wasComments>>

(* r executes its next statement, which is this one. *)
At(r, statement) == request[r].todo # <<>> /\ Head(request[r].todo) = statement

Rest(r) == Tail(request[r].todo)

(* What r knew is gone when it has answered. *)
GoesOn(r, todo) ==
    request' = [request EXCEPT ![r] = IF todo = <<>> THEN NoRequest
                                      ELSE [@ EXCEPT !.todo = todo]]

Went(r) == GoesOn(r, Rest(r))

(* INSERT OR IGNORE; a like that was there already is not recounted. *)
InsertLike(r) ==
    /\ At(r, "insertLike")
    /\ likers' = likers \cup {request[r].user}
    /\ wasLikes' = wasLikes \cup {Cardinality(likers')}
    /\ GoesOn(r, IF request[r].user \in likers THEN Tail(Rest(r)) ELSE Rest(r))
    /\ UNCHANGED <<comments, nextCid, row, wasComments, past>>

DeleteLike(r) ==
    /\ At(r, "deleteLike")
    /\ likers' = likers \ {request[r].user}
    /\ wasLikes' = wasLikes \cup {Cardinality(likers')}
    /\ Went(r)
    /\ UNCHANGED <<comments, nextCid, row, wasComments, past>>

(* UPDATE wall_posts SET likes = (SELECT COUNT( * ) ...) *)
Recount(r) ==
    /\ At(r, "recount")
    /\ row' = [row EXCEPT !.likes = Cardinality(likers)]
    /\ Went(r)
    /\ UNCHANGED <<likers, comments, nextCid, wasLikes, wasComments, past>>

(* Store.AddComment; the cid is taken by a transaction of its own just     *)
(* before, but nobody knows it until the row is there.                     *)
InsertComment(r) ==
    /\ At(r, "insertComment")
    /\ comments' = comments \cup {nextCid}
    /\ nextCid' = nextCid + 1
    /\ wasComments' = wasComments \cup {Cardinality(comments')}
    /\ Went(r)
    /\ UNCHANGED <<likers, row, wasLikes, past>>

DeleteComment(r) ==
    /\ At(r, "deleteComment")
    /\ comments' = comments \ {request[r].cid}
    /\ wasComments' = wasComments \cup {Cardinality(comments')}
    /\ Went(r)
    /\ UNCHANGED <<likers, nextCid, row, wasLikes, past>>

ReadPost(r) ==
    /\ At(r, "readPost")
    /\ request' = [request EXCEPT ![r].todo = Rest(r), ![r].post = row]
    /\ UNCHANGED <<tables, wasLikes, wasComments, past>>

CountLikes(r) ==
    /\ At(r, "countLikes")
    /\ request' = [request EXCEPT ![r].todo = Rest(r), ![r].likes = Cardinality(likers)]
    /\ UNCHANGED <<tables, wasLikes, wasComments, past>>

(* Mutant: one more or one less than the stored counter. *)
CountCommentsFromRow(r) ==
    /\ At(r, "countComments")
    /\ \E n \in {row.comments + 1, row.comments - 1} :
          request' = [request EXCEPT ![r].todo = Rest(r), ![r].comments = n]
    /\ UNCHANGED <<tables, wasLikes, wasComments, past>>

CountComments(r) ==
    /\ At(r, "countComments")
    /\ request' = [request EXCEPT ![r].todo = Rest(r),
                                  ![r].comments = Cardinality(comments)]
    /\ UNCHANGED <<tables, wasLikes, wasComments, past>>

(* SetPostCounters in refreshPostCounters, and in the comment handlers of  *)
(* the API, which write back the likes they read.                          *)
SetCounters(r) ==
    /\ At(r, "setCounters")
    /\ row' = [row EXCEPT !.likes = request[r].likes, !.comments = request[r].comments]
    /\ Went(r)
    /\ UNCHANGED <<likers, comments, nextCid, wasLikes, wasComments, past>>

SetComments(r) ==
    /\ At(r, "setComments")
    /\ row' = [row EXCEPT !.likes = request[r].post.likes, !.comments = request[r].comments]
    /\ Went(r)
    /\ UNCHANGED <<likers, comments, nextCid, wasLikes, wasComments, past>>

(* Store.UpdatePost writes every column but deleted (and from_id, date). *)
UpdatePost(r) ==
    /\ At(r, "updatePost")
    /\ row' = [request[r].post EXCEPT !.deleted = row.deleted]
    /\ Went(r)
    /\ UNCHANGED <<likers, comments, nextCid, wasLikes, wasComments, past>>

DeletePost(r) ==
    /\ At(r, "deletePost")
    /\ row' = [row EXCEPT !.deleted = TRUE]
    /\ Went(r)
    /\ UNCHANGED <<likers, comments, nextCid, wasLikes, wasComments, past>>

(* The process is killed; the tables stay. *)
Crash ==
    /\ Crashes
    /\ request' = [r \in Requests |-> NoRequest]
    /\ past' = past \cup {"crash"}
    /\ UNCHANGED <<tables, wasLikes, wasComments>>

Execute(r) ==
    \/ InsertLike(r) \/ DeleteLike(r) \/ Recount(r)
    \/ InsertComment(r) \/ DeleteComment(r)
    \/ ReadPost(r) \/ CountLikes(r) \/ CountComments(r)
    \/ SetCounters(r) \/ SetComments(r) \/ UpdatePost(r) \/ DeletePost(r)

Adds(kind) == kind \in {"apiComment", "webComment"}

(* Comments that may still be written by the requests being served. *)
Writing == Cardinality({r \in Requests : \E i \in DOMAIN request[r].todo :
                                             request[r].todo[i] = "insertComment"})

Next ==
    \/ \E r \in Requests :
          \/ \E kind \in Kinds :
                \E u \in IF kind \in LikeKinds THEN Users ELSE {None},
                   cid \in IF kind = "apiDeleteComment" THEN 1..MaxComments ELSE {0} :
                   /\ Adds(kind) => nextCid + Writing <= MaxComments
                   /\ Start(r, kind, u, cid)
          \/ Execute(r)
    \/ Crash

Spec == Init /\ [][Next]_vars

-----------------------------------------------------------------------------
RowType == [likes : Nat, comments : Nat, deleted : BOOLEAN]

StatementNames ==
    {"insertLike", "deleteLike", "recount", "insertComment", "deleteComment",
     "readPost", "countLikes", "countComments", "setCounters", "setComments",
     "updatePost", "deletePost"}

RequestType == [todo : Seq(StatementNames), user : Users \cup {None}, cid : Nat,
                post : RowType, likes : Nat, comments : Nat, alone : BOOLEAN]

(* Type invariant.  Comment ids are not reused. *)
TypeOK ==
    /\ likers \subseteq Users
    /\ nextCid \in Nat \ {0}
    /\ comments \subseteq 1..(nextCid - 1)
    /\ row \in RowType
    /\ request \in [Requests -> RequestType]
    /\ wasLikes \subseteq Nat
    /\ wasComments \subseteq Nat
    /\ past \subseteq {"mixed", "crash"}

Exact == row.likes = Cardinality(likers) /\ row.comments = Cardinality(comments)

(* With no request under way the counters shown by wall.get are the        *)
(* numbers of rows.  True after requests of every kind served one at a     *)
(* time, and any number of likes and unlikes of the API at once, because   *)
(* Like and Unlike count in the statement that writes; not of other        *)
(* handlers at the same time, which write back what they read.             *)
CountersSettle ==
    past = {} /\ (\A r \in Requests : Idle(r)) => Exact

(* However wrong races and crashes have left the counters, a handler of    *)
(* the web version that was served alone leaves them right, and a comment  *)
(* handler of the API leaves the number of comments right.                 *)
RefreshRepairs ==
    [][\A r \in Requests :
         request[r].alone /\ (SetCounters(r) \/ SetComments(r)) =>
            /\ row'.comments = Cardinality(comments')
            /\ At(r, "setCounters") => row'.likes = Cardinality(likers')]_vars

(* Races and crashes can leave a counter out of date but never invent one: *)
(* what is stored, or about to be stored, is a number of likes or comments *)
(* the post really had.                                                    *)
CountersWereTrue == row.likes \in wasLikes /\ row.comments \in wasComments

(* No handler brings a deleted post back, wallEdit included, which writes  *)
(* a post that it read before it was deleted.                              *)
PostStaysDeleted == [][row.deleted => row'.deleted]_vars

-----------------------------------------------------------------------------
(* What the handlers have read, behind CountersWereTrue. *)

ReadWasTrue ==
    \A r \in Requests :
        /\ request[r].likes \in wasLikes /\ request[r].post.likes \in wasLikes
        /\ request[r].comments \in wasComments /\ request[r].post.comments \in wasComments
=============================================================================
