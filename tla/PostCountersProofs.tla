------------------------- MODULE PostCountersProofs -------------------------
(* Proofs about the counters of a post, for every number of users and of   *)
(* requests, and every set of handlers.                                    *)
EXTENDS PostCounters, SequenceTheorems, FiniteSetTheorems, TLAPS

(* A statement that changes the likes comes first in its handler, and the  *)
(* recount of Store.Like or Store.Unlike comes next.                       *)
LikeFirst(todo) ==
    \A i \in 1..Len(todo) :
        todo[i] \in {"insertLike", "deleteLike"} =>
            i = 1 /\ Len(todo) > 1 /\ todo[2] = "recount"

LEMMA HandlerShape ==
    \A kind \in AllKinds :
        /\ Statements(kind) \in Seq(StatementNames)
        /\ LikeFirst(Statements(kind))
  <1> SUFFICES ASSUME NEW kind \in AllKinds
               PROVE  /\ Statements(kind) \in Seq(StatementNames)
                      /\ LikeFirst(Statements(kind))
    OBVIOUS
  <1> DEFINE refresh == <<"readPost", "countLikes", "countComments", "setCounters">>
  <1>1. refresh \in Seq(StatementNames) /\ Len(refresh) = 4
        /\ \A i \in 1..4 : refresh[i] \notin {"insertLike", "deleteLike"}
    BY DEF StatementNames
  <1> HIDE DEF refresh
  <1>2. ASSUME NEW first \in Seq(StatementNames), LikeFirst(first)
        PROVE  first \o refresh \in Seq(StatementNames) /\ LikeFirst(first \o refresh)
    <2>0. first \o refresh \in Seq(StatementNames)
      BY <1>1, ConcatProperties, Zenon
    <2>1. Len(first \o refresh) = Len(first) + 4
      <3>1. Len(first \o refresh) = Len(first) + Len(refresh)
        BY <1>1, ConcatProperties, Zenon
      <3> QED  BY <1>1, <3>1
    <2>2. \A i \in 1..(Len(first) + 4) :
             (first \o refresh)[i] = IF i <= Len(first) THEN first[i]
                                     ELSE refresh[i - Len(first)]
      BY <1>1, ConcatProperties
    <2>3. SUFFICES ASSUME NEW i \in 1..(Len(first) + 4),
                          (first \o refresh)[i] \in {"insertLike", "deleteLike"}
                   PROVE  /\ i = 1 /\ Len(first) + 4 > 1
                          /\ (first \o refresh)[2] = "recount"
      BY <2>0, <2>1 DEF LikeFirst
    <2>4. Len(first) \in Nat
      OBVIOUS
    <2>5. i <= Len(first)
      <3> SUFFICES ASSUME ~(i <= Len(first)) PROVE FALSE
        OBVIOUS
      <3>1. i - Len(first) \in 1..4
        BY <2>4
      <3>2. refresh[i - Len(first)] \in {"insertLike", "deleteLike"}
        BY <2>2, <2>3
      <3> QED  BY <1>1, <3>1, <3>2
    <2>6. first[i] \in {"insertLike", "deleteLike"} /\ i \in 1..Len(first)
      BY <2>2, <2>3, <2>4, <2>5
    <2>7. i = 1 /\ Len(first) > 1 /\ first[2] = "recount"
      BY <1>2, <2>6 DEF LikeFirst
    <2>8. (first \o refresh)[2] = first[2]
      BY <2>2, <2>4, <2>7
    <2> QED  BY <2>4, <2>7, <2>8
  <1>3. ASSUME NEW a \in {"insertLike", "deleteLike"}
        PROVE  <<a, "recount">> \in Seq(StatementNames) /\ LikeFirst(<<a, "recount">>)
    BY DEF StatementNames, LikeFirst
  <1>4. CASE kind \in {"webLike", "webUnlike"}
    <2>1. \E a \in {"insertLike", "deleteLike"} : Statements(kind) = <<a, "recount">> \o refresh
      BY <1>4 DEF Statements, handleLike, likeToggle, Like, Unlike, refreshPostCounters, refresh
    <2> QED  BY <1>2, <1>3, <2>1
  <1>5. CASE kind = "webComment"
    <2>1. <<"insertComment">> \in Seq(StatementNames) /\ LikeFirst(<<"insertComment">>)
      BY DEF StatementNames, LikeFirst
    <2>2. Statements(kind) = <<"insertComment">> \o refresh
      BY <1>5 DEF Statements, handleComment, refreshPostCounters, refresh
    <2> QED  BY <1>2, <2>1, <2>2
  <1>6. CASE kind \in ApiLikeKinds
    <2>1. \E a \in {"insertLike", "deleteLike"} : Statements(kind) = <<a, "recount">>
      BY <1>6 DEF ApiLikeKinds, Statements, likeToggle, Like, Unlike
    <2> QED  BY <1>3, <2>1
  <1>7. CASE kind \in {"apiComment", "apiDeleteComment"}
    <2>1. \A a \in {"insertComment", "deleteComment"} :
             LET s == <<a, "countComments", "readPost", "setComments">>
             IN  s \in Seq(StatementNames) /\ LikeFirst(s)
      BY DEF StatementNames, LikeFirst
    <2>2. \E a \in {"insertComment", "deleteComment"} :
             Statements(kind) = <<a, "countComments", "readPost", "setComments">>
      BY <1>7 DEF Statements, wallAddComment, wallDeleteComment
    <2> QED  BY <2>1, <2>2
  <1>8. CASE kind = "apiEdit"
    <2>1. Statements(kind) = <<"readPost", "updatePost">>
      BY <1>8 DEF Statements, wallEdit
    <2> QED  BY <2>1 DEF StatementNames, LikeFirst
  <1>9. CASE kind = "apiDelete"
    <2>1. Statements(kind) = <<"deletePost">>
      BY <1>9 DEF Statements, wallDelete
    <2> QED  BY <2>1 DEF StatementNames, LikeFirst
  <1>10. CASE kind = "webDelete"
    <2>1. Statements(kind) = <<"readPost", "deletePost">>
      BY <1>10 DEF Statements, handlePostDelete
    <2> QED  BY <2>1 DEF StatementNames, LikeFirst
  <1> QED  BY <1>4, <1>5, <1>6, <1>7, <1>8, <1>9, <1>10 DEF AllKinds, WebKinds

LEMMA OthersDoNotLike ==
    \A kind \in AllKinds \ LikeKinds : Head(Statements(kind)) # "insertLike"
  <1> SUFFICES ASSUME NEW kind \in AllKinds \ LikeKinds
               PROVE  Head(Statements(kind)) # "insertLike"
    OBVIOUS
  <1>1. CASE kind = "webComment"
    <2>1. \A t \in Seq(StatementNames) : Head(<<"insertComment">> \o t) = "insertComment"
      <3> TAKE t \in Seq(StatementNames)
      <3>1. <<"insertComment">> \in Seq(StatementNames) /\ Len(<<"insertComment">>) = 1
        BY DEF StatementNames
      <3>2. (<<"insertComment">> \o t)[1] = "insertComment"
        BY <3>1, ConcatProperties
      <3> QED  BY <3>2
    <2>2. refreshPostCounters \in Seq(StatementNames)
      BY DEF refreshPostCounters, StatementNames
    <2> QED  BY <1>1, <2>1, <2>2 DEF Statements, handleComment
  <1>2. CASE kind = "apiComment"
    BY <1>2 DEF Statements, wallAddComment
  <1>3. CASE kind = "apiDeleteComment"
    BY <1>3 DEF Statements, wallDeleteComment
  <1>4. CASE kind = "apiEdit"
    BY <1>4 DEF Statements, wallEdit
  <1>5. CASE kind = "apiDelete"
    BY <1>5 DEF Statements, wallDelete
  <1>6. CASE kind = "webDelete"
    BY <1>6 DEF Statements, handlePostDelete
  <1> QED  BY <1>1, <1>2, <1>3, <1>4, <1>5, <1>6 DEF AllKinds, WebKinds, LikeKinds, ApiLikeKinds

-----------------------------------------------------------------------------
(* Type correctness; the shape of what a handler has left to do is needed  *)
(* for the statement that InsertLike may skip.                             *)

Formed(q) ==
    /\ LikeFirst(q.todo)
    /\ q.todo # <<>> /\ Head(q.todo) = "insertLike" => q.user \in Users

RequestsFormed == \A r \in Requests : Formed(request[r])

LEMMA TailShape ==
    ASSUME NEW todo \in Seq(StatementNames), todo # <<>>, LikeFirst(todo)
    PROVE  /\ Tail(todo) \in Seq(StatementNames)
           /\ LikeFirst(Tail(todo))
           /\ Head(todo) \in {"insertLike", "deleteLike"} =>
                 Tail(todo) # <<>> /\ Head(Tail(todo)) = "recount"
           /\ Tail(todo) # <<>> => Head(Tail(todo)) # "insertLike"
  <1>1. Len(todo) \in Nat \ {0} /\ Tail(todo) \in Seq(StatementNames)
        /\ Len(Tail(todo)) = Len(todo) - 1 /\ Head(todo) = todo[1]
        /\ \A i \in 1..(Len(todo) - 1) : Tail(todo)[i] = todo[i + 1]
    BY HeadTailProperties
  <1>2. LikeFirst(Tail(todo))
    BY <1>1 DEF LikeFirst
  <1>3. ASSUME Head(todo) \in {"insertLike", "deleteLike"}
        PROVE  Tail(todo) # <<>> /\ Head(Tail(todo)) = "recount"
    <2>1. Len(todo) > 1 /\ todo[2] = "recount"
      BY <1>1, <1>3 DEF LikeFirst
    <2>2. Len(Tail(todo)) >= 1 /\ Tail(todo)[1] = todo[2]
      BY <1>1, <2>1
    <2>3. Tail(todo) # <<>>
      <3> SUFFICES ASSUME Tail(todo) = <<>> PROVE FALSE
        OBVIOUS
      <3>1. Len(<<>>) = 0
        OBVIOUS
      <3>2. Len(Tail(todo)) = 0
        BY <3>1
      <3> QED  BY <2>2, <3>2
    <2>4. \A s \in Seq(StatementNames) : s # <<>> => Head(s) = s[1]
      OBVIOUS
    <2> QED  BY <1>1, <2>1, <2>2, <2>3, <2>4
  <1>4. ASSUME Tail(todo) # <<>> PROVE Head(Tail(todo)) # "insertLike"
    <2>1. Head(Tail(todo)) = Tail(todo)[1] /\ Len(Tail(todo)) >= 1
      BY <1>1, <1>4
    <2>2. Tail(todo)[1] = todo[2] /\ 2 \in 1..Len(todo)
      BY <1>1, <2>1
    <2> QED  BY <2>1, <2>2 DEF LikeFirst
  <1> QED  BY <1>1, <1>2, <1>3, <1>4

LEMMA RequestStep ==
    ASSUME request \in [Requests -> RequestType], RequestsFormed,
           NEW r \in Requests, NEW new \in RequestType, Formed(new),
           request' = [request EXCEPT ![r] = new]
    PROVE  request' \in [Requests -> RequestType] /\ RequestsFormed'
  BY DEF RequestsFormed, Formed

LEMMA NoRequestType == NoRequest \in RequestType /\ Formed(NoRequest)
  <1>1. <<>> \in Seq(StatementNames) /\ LikeFirst(<<>>)
    BY EmptySeq DEF LikeFirst
  <1>2. NoRequest.todo = <<>>
    BY DEF NoRequest
  <1>3. NewPost \in RowType
    BY DEF NewPost, RowType
  <1>4. NoRequest \in RequestType
    BY <1>1, <1>3 DEF NoRequest, RequestType
  <1> QED  BY <1>1, <1>2, <1>4 DEF Formed

LEMMA GoesOnStep ==
    ASSUME request \in [Requests -> RequestType], RequestsFormed,
           NEW r \in Requests, NEW todo \in Seq(StatementNames), LikeFirst(todo),
           todo # <<>> => Head(todo) # "insertLike",
           GoesOn(r, todo)
    PROVE  request' \in [Requests -> RequestType] /\ RequestsFormed'
  <1> DEFINE new == IF todo = <<>> THEN NoRequest ELSE [request[r] EXCEPT !.todo = todo]
  <1>1. new \in RequestType /\ Formed(new)
    BY NoRequestType DEF RequestType, Formed
  <1>2. request' = [request EXCEPT ![r] = new]
    BY DEF GoesOn
  <1> HIDE DEF new
  <1> QED  BY <1>1, <1>2, RequestStep

LEMMA Counted ==
    /\ \A S \in SUBSET Users : Cardinality(S) \in Nat
    /\ \A n \in Nat : \A S \in SUBSET (1..n) : Cardinality(S) \in Nat
  <1>1. \A S \in SUBSET Users : IsFiniteSet(S)
    BY UsersAssumption, FS_Subset
  <1>2. ASSUME NEW n \in Nat PROVE \A S \in SUBSET (1..n) : IsFiniteSet(S)
    <2>1. IsFiniteSet(1..n)
      BY FS_Interval
    <2> QED  BY <2>1, FS_Subset
  <1> QED  BY <1>1, <1>2, FS_CardinalityType

LEMMA InitType == Init => TypeOK /\ RequestsFormed
  <1> SUFFICES ASSUME Init PROVE TypeOK /\ RequestsFormed
    OBVIOUS
  <1>1. request \in [Requests -> RequestType] /\ RequestsFormed
    BY NoRequestType DEF Init, RequestsFormed
  <1> QED  BY <1>1 DEF Init, TypeOK, NewPost, RowType

(* What the tables and the history become, one statement at a time. *)
LEMMA TypeStep == TypeOK /\ RequestsFormed /\ [Next]_vars => (TypeOK /\ RequestsFormed)'
  <1> SUFFICES ASSUME TypeOK, RequestsFormed, [Next]_vars PROVE (TypeOK /\ RequestsFormed)'
    OBVIOUS
  <1> DEFINE Requested == request' \in [Requests -> RequestType] /\ RequestsFormed'
             Stored == /\ likers' \subseteq Users
                       /\ nextCid' \in Nat \ {0}
                       /\ comments' \subseteq 1..(nextCid' - 1)
                       /\ row' \in RowType
                       /\ wasLikes' \subseteq Nat
                       /\ wasComments' \subseteq Nat
  <1>t. request \in [Requests -> RequestType]
    BY DEF TypeOK
  <1>s. ASSUME NEW r \in Requests
        PROVE  /\ request[r] \in RequestType
               /\ request[r].todo \in Seq(StatementNames) /\ LikeFirst(request[r].todo)
               /\ request[r].post \in RowType /\ request[r].user \in Users \cup {None}
               /\ request[r].likes \in Nat /\ request[r].comments \in Nat
    <2>1. request[r] \in RequestType
      BY <1>t
    <2> QED  BY <2>1 DEF RequestType, RequestsFormed, Formed
  <1>r. ASSUME NEW r \in Requests, request[r].todo # <<>>
        PROVE  /\ Rest(r) \in Seq(StatementNames) /\ LikeFirst(Rest(r))
               /\ Rest(r) # <<>> => Head(Rest(r)) # "insertLike"
    BY <1>r, <1>s, TailShape DEF Rest
  <1>w. ASSUME NEW r \in Requests, request[r].todo # <<>>, Went(r)
        PROVE  Requested
    BY <1>t, <1>r, <1>w, GoesOnStep DEF Went
  <1>u. ASSUME UNCHANGED <<tables, wasLikes, wasComments>> PROVE Stored
    BY <1>u DEF tables, TypeOK
  <1>c. Cardinality(likers) \in Nat /\ Cardinality(comments) \in Nat
    <2>1. nextCid - 1 \in Nat
      BY DEF TypeOK
    <2> QED  BY <2>1, Counted DEF TypeOK
  <1>1. ASSUME NEW r \in Requests, NEW kind \in Kinds, NEW u \in Users \cup {None},
               NEW cid \in Nat, kind \in LikeKinds => u \in Users, Start(r, kind, u, cid)
        PROVE  Requested /\ Stored
    <2>1. /\ Statements(kind) \in Seq(StatementNames) /\ LikeFirst(Statements(kind))
          /\ Head(Statements(kind)) = "insertLike" => u \in Users
      BY <1>1, HandlerShape, OthersDoNotLike, KindsAssumption
    <2> PICK alone \in BOOLEAN :
          request' = [s \in Requests |->
                        IF s = r THEN [NoRequest EXCEPT !.todo = Statements(kind),
                                          !.user = u, !.cid = cid, !.alone = alone]
                        ELSE [request[s] EXCEPT !.alone = FALSE]]
      BY <1>1 DEF Start
    <2> DEFINE started == [NoRequest EXCEPT !.todo = Statements(kind),
                              !.user = u, !.cid = cid, !.alone = alone]
    <2>2. started \in RequestType /\ Formed(started)
      BY <2>1, NoRequestType DEF RequestType, Formed
    <2>3. \A s \in Requests :
             LET other == [request[s] EXCEPT !.alone = FALSE]
             IN  other \in RequestType /\ Formed(other)
      BY <1>s DEF RequestType, RequestsFormed, Formed
    <2> HIDE DEF started
    <2>4. request' = [s \in Requests |-> IF s = r THEN started
                                        ELSE [request[s] EXCEPT !.alone = FALSE]]
      BY DEF started
    <2>5. Requested
      BY <2>2, <2>3, <2>4 DEF RequestsFormed
    <2> QED  BY <1>1, <1>u, <2>5 DEF Start
  <1>2. ASSUME NEW r \in Requests, InsertLike(r) PROVE Requested /\ Stored
    <2>0. request[r].todo # <<>> /\ Head(request[r].todo) = "insertLike"
      BY <1>2 DEF InsertLike, At
    <2>1. /\ Rest(r) # <<>> /\ Rest(r) \in Seq(StatementNames) /\ LikeFirst(Rest(r))
          /\ Head(Rest(r)) # "insertLike"
      BY <1>s, <2>0, TailShape DEF Rest
    <2>2. /\ Tail(Rest(r)) \in Seq(StatementNames) /\ LikeFirst(Tail(Rest(r)))
          /\ Tail(Rest(r)) # <<>> => Head(Tail(Rest(r))) # "insertLike"
      BY <2>1, TailShape
    <2> PICK todo \in {Rest(r), Tail(Rest(r))} : GoesOn(r, todo)
      BY <1>2 DEF InsertLike
    <2>3. Requested
      BY <1>t, <2>1, <2>2, GoesOnStep
    <2>4. request[r].user \in Users
      BY <2>0 DEF RequestsFormed, Formed
    <2>5. likers' \subseteq Users
      BY <1>2, <2>4 DEF InsertLike, TypeOK
    <2>6. Cardinality(likers') \in Nat
      BY <2>5, Counted
    <2> QED  BY <1>2, <2>3, <2>5, <2>6 DEF InsertLike, TypeOK
  <1>3. ASSUME NEW r \in Requests, DeleteLike(r) PROVE Requested /\ Stored
    <2>1. Requested
      BY <1>3, <1>w DEF DeleteLike, At
    <2>2. likers' \subseteq Users
      BY <1>3 DEF DeleteLike, TypeOK
    <2>3. Cardinality(likers') \in Nat
      BY <2>2, Counted
    <2> QED  BY <1>3, <2>1, <2>2, <2>3 DEF DeleteLike, TypeOK
  <1>4. ASSUME NEW r \in Requests, InsertComment(r) PROVE Requested /\ Stored
    <2>1. Requested
      BY <1>4, <1>w DEF InsertComment, At
    <2>2. nextCid' = nextCid + 1 /\ comments' \subseteq 1..nextCid
      BY <1>4 DEF InsertComment, TypeOK
    <2>3. Cardinality(comments') \in Nat
      BY <2>2, Counted DEF TypeOK
    <2>4. nextCid' - 1 = nextCid /\ nextCid' \in Nat \ {0}
      BY <2>2 DEF TypeOK
    <2>5. row' \in RowType /\ wasLikes' \subseteq Nat /\ likers' \subseteq Users
      BY <1>4 DEF InsertComment, TypeOK
    <2>6. wasComments' \subseteq Nat
      BY <1>4, <2>3 DEF InsertComment, TypeOK
    <2> QED  BY <2>1, <2>2, <2>4, <2>5, <2>6
  <1>5. ASSUME NEW r \in Requests, DeleteComment(r) PROVE Requested /\ Stored
    <2>1. Requested
      BY <1>5, <1>w DEF DeleteComment, At
    <2>2. comments' \subseteq 1..(nextCid - 1) /\ nextCid - 1 \in Nat
      <3>1. comments \subseteq 1..(nextCid - 1) /\ nextCid \in Nat \ {0}
        BY DEF TypeOK
      <3>2. comments' \subseteq comments
        BY <1>5 DEF DeleteComment
      <3> QED  BY <3>1, <3>2
    <2>3. Cardinality(comments') \in Nat
      BY <2>2, Counted
    <2> QED  BY <1>5, <2>1, <2>2, <2>3 DEF DeleteComment, TypeOK
  <1>6. ASSUME NEW r \in Requests, ReadPost(r) \/ CountLikes(r) \/ CountComments(r)
        PROVE  Requested /\ Stored
    <2>1. request[r].todo # <<>>
      BY <1>6 DEF ReadPost, CountLikes, CountComments, At
    <2>2. \E new \in RequestType : Formed(new) /\ request' = [request EXCEPT ![r] = new]
      <3>1. CASE ReadPost(r)
        <4> DEFINE new == [request[r] EXCEPT !.todo = Rest(r), !.post = row]
        <4>1. new \in RequestType /\ Formed(new)
          BY <1>s, <1>r, <2>1 DEF RequestType, Formed, TypeOK
        <4>2. request' = [request EXCEPT ![r] = new]
          BY <3>1 DEF ReadPost
        <4> QED  BY <4>1, <4>2
      <3>2. CASE CountLikes(r)
        <4> DEFINE new == [request[r] EXCEPT !.todo = Rest(r), !.likes = Cardinality(likers)]
        <4>1. new \in RequestType /\ Formed(new)
          BY <1>s, <1>r, <1>c, <2>1 DEF RequestType, Formed
        <4>2. request' = [request EXCEPT ![r] = new]
          BY <3>2 DEF CountLikes
        <4> QED  BY <4>1, <4>2
      <3>3. CASE CountComments(r)
        <4> DEFINE new == [request[r] EXCEPT !.todo = Rest(r),
                                             !.comments = Cardinality(comments)]
        <4>1. new \in RequestType /\ Formed(new)
          BY <1>s, <1>r, <1>c, <2>1 DEF RequestType, Formed
        <4>2. request' = [request EXCEPT ![r] = new]
          BY <3>3 DEF CountComments
        <4> QED  BY <4>1, <4>2
      <3> QED  BY <1>6, <3>1, <3>2, <3>3
    <2>3. Requested
      BY <1>t, <2>2, RequestStep
    <2> QED  BY <1>6, <1>u, <2>3 DEF ReadPost, CountLikes, CountComments
  <1>7. ASSUME NEW r \in Requests,
               \/ Recount(r) \/ SetCounters(r) \/ SetComments(r)
               \/ UpdatePost(r) \/ DeletePost(r)
        PROVE  Requested /\ Stored
    <2> DEFINE Kept == UNCHANGED <<likers, comments, nextCid, wasLikes, wasComments>>
    <2>1. Kept /\ Went(r) /\ request[r].todo # <<>>
      BY <1>7 DEF Recount, SetCounters, SetComments, UpdatePost, DeletePost, At
    <2>2. row' \in RowType
      <3>1. row \in RowType
        BY DEF TypeOK
      <3> QED  BY <1>7, <1>s, <1>c, <3>1
            DEF Recount, SetCounters, SetComments, UpdatePost, DeletePost, RowType
    <2>3. Requested
      BY <1>w, <2>1
    <2> QED  BY <2>1, <2>2, <2>3 DEF TypeOK
  <1>8. ASSUME Crash PROVE Requested /\ Stored
    <2>1. Requested
      BY <1>8, NoRequestType DEF Crash, RequestsFormed
    <2>2. Stored
      BY <1>8, <1>u DEF Crash
    <2> QED  BY <2>1, <2>2
  <1>9. ASSUME UNCHANGED vars PROVE Requested /\ Stored
    BY <1>9 DEF vars, tables, TypeOK, RequestsFormed
  <1>10. Requested /\ Stored
    <2>1. ASSUME NEW r \in Requests, NEW kind \in Kinds,
                 NEW u \in IF kind \in LikeKinds THEN Users ELSE {None},
                 NEW cid \in IF kind = "apiDeleteComment" THEN 1..MaxComments ELSE {0},
                 Start(r, kind, u, cid)
          PROVE  Requested /\ Stored
      <3>1. u \in Users \cup {None} /\ (kind \in LikeKinds => u \in Users) /\ cid \in Nat
        BY BoundAssumption
      <3> QED  BY <1>1, <2>1, <3>1
    <2>2. ASSUME NEW r \in Requests, Execute(r) PROVE Requested /\ Stored
      BY <1>2, <1>3, <1>4, <1>5, <1>6, <1>7, <2>2 DEF Execute
    <2>3. ASSUME NEW r \in Requests,
                 \E kind \in Kinds :
                    \E u \in IF kind \in LikeKinds THEN Users ELSE {None},
                       cid \in IF kind = "apiDeleteComment" THEN 1..MaxComments ELSE {0} :
                       Start(r, kind, u, cid)
          PROVE  Requested /\ Stored
      BY <2>1, <2>3
    <2> HIDE DEF Requested, Stored
    <2> QED  BY <1>8, <1>9, <2>2, <2>3 DEF Next
  <1>11. past' \subseteq {"mixed", "crash"}
    <2>1. past \subseteq {"mixed", "crash"}
      BY DEF TypeOK
    <2>2. ASSUME NEW r \in Requests, Execute(r) PROVE past' = past
      BY <2>2 DEF Execute, InsertLike, DeleteLike, Recount, InsertComment, DeleteComment, ReadPost,
           CountLikes, CountComments, SetCounters, SetComments, UpdatePost, DeletePost
    <2> QED  BY <2>1, <2>2 DEF Next, Start, Crash, vars
  <1> QED  BY <1>10, <1>11 DEF TypeOK

LEMMA Typed == Spec => [](TypeOK /\ RequestsFormed)
  <1> QED  BY InitType, TypeStep, PTL DEF Spec

(* The tables, the post and the handlers' local variables keep their type. *)
THEOREM TypeCorrect == Spec => []TypeOK
  <1> QED  BY Typed, PTL

-----------------------------------------------------------------------------
(* CountersWereTrue: what handlers read or counted was true then. *)

TrueOnce == CountersWereTrue /\ ReadWasTrue

(* The history remembers the present, and 0. *)
Remembered ==
    /\ Cardinality(likers) \in wasLikes /\ Cardinality(comments) \in wasComments
    /\ 0 \in wasLikes /\ 0 \in wasComments

LEMMA InitTrue == Init => TrueOnce /\ Remembered
  <1> SUFFICES ASSUME Init PROVE TrueOnce /\ Remembered
    OBVIOUS
  <1>1. Cardinality({}) = 0
    BY FS_EmptySet
  <1> QED  BY <1>1 DEF Init, TrueOnce, Remembered, CountersWereTrue, ReadWasTrue,
             NoRequest, NewPost

LEMMA TrueStep ==
    TypeOK /\ TrueOnce /\ Remembered /\ [Next]_vars => (TrueOnce /\ Remembered)'
  <1> SUFFICES ASSUME TypeOK, TrueOnce, Remembered, [Next]_vars
               PROVE  (TrueOnce /\ Remembered)'
    OBVIOUS
  <1> DEFINE WasTrue(q) == /\ q.likes \in wasLikes' /\ q.post.likes \in wasLikes'
                           /\ q.comments \in wasComments' /\ q.post.comments \in wasComments'
             Grown == wasLikes \subseteq wasLikes' /\ wasComments \subseteq wasComments'
             Goal == TrueOnce' /\ Remembered'
  <1>t. request \in [Requests -> RequestType] /\ row \in RowType
    BY DEF TypeOK
  <1>n. Grown => WasTrue(NoRequest)
    BY DEF NoRequest, NewPost, Remembered
  <1>o. ASSUME Grown PROVE \A r \in Requests : WasTrue(request[r])
    BY <1>o DEF TrueOnce, ReadWasTrue
  <1>g. ASSUME NEW r \in Requests, NEW todo, GoesOn(r, todo), Grown
        PROVE  ReadWasTrue'
    <2> DEFINE new == IF todo = <<>> THEN NoRequest ELSE [request[r] EXCEPT !.todo = todo]
    <2>1. WasTrue(new)
      <3>1. request[r] \in RequestType
        BY <1>t
      <3> QED  BY <1>g, <1>n, <1>o, <3>1 DEF RequestType
    <2>2. request' = [request EXCEPT ![r] = new]
      BY <1>g DEF GoesOn
    <2> HIDE DEF new
    <2> QED  BY <1>g, <1>o, <1>t, <2>1, <2>2 DEF ReadWasTrue
  <1>1. ASSUME NEW r \in Requests, InsertLike(r) \/ DeleteLike(r) PROVE Goal
    <2>1. /\ wasLikes' = wasLikes \cup {Cardinality(likers')} /\ wasComments' = wasComments
          /\ row' = row /\ comments' = comments /\ \E todo : GoesOn(r, todo)
      BY <1>1 DEF InsertLike, DeleteLike, Went
    <2>2. ReadWasTrue'
      BY <1>g, <2>1
    <2> QED  BY <2>1, <2>2 DEF TrueOnce, CountersWereTrue, Remembered
  <1>2. ASSUME NEW r \in Requests, InsertComment(r) \/ DeleteComment(r) PROVE Goal
    <2>1. /\ wasComments' = wasComments \cup {Cardinality(comments')} /\ wasLikes' = wasLikes
          /\ row' = row /\ likers' = likers /\ \E todo : GoesOn(r, todo)
      BY <1>2 DEF InsertComment, DeleteComment, Went
    <2>2. ReadWasTrue'
      BY <1>g, <2>1
    <2> QED  BY <2>1, <2>2 DEF TrueOnce, CountersWereTrue, Remembered
  <1>3. ASSUME NEW r \in Requests, ReadPost(r) \/ CountLikes(r) \/ CountComments(r)
        PROVE  Goal
    <2>1. UNCHANGED <<tables, wasLikes, wasComments>>
      BY <1>3 DEF ReadPost, CountLikes, CountComments
    <2>2. request[r] \in RequestType
      BY <1>t
    <2>3. \E new : WasTrue(new) /\ request' = [request EXCEPT ![r] = new]
      <3>1. CASE ReadPost(r)
        <4> DEFINE new == [request[r] EXCEPT !.todo = Rest(r), !.post = row]
        <4>1. WasTrue(new)
          BY <1>o, <2>1, <2>2 DEF RequestType, TrueOnce, CountersWereTrue
        <4>2. request' = [request EXCEPT ![r] = new]
          BY <3>1 DEF ReadPost
        <4> QED  BY <4>1, <4>2
      <3>2. CASE CountLikes(r)
        <4> DEFINE new == [request[r] EXCEPT !.todo = Rest(r), !.likes = Cardinality(likers)]
        <4>1. WasTrue(new)
          BY <1>o, <2>1, <2>2 DEF RequestType, Remembered
        <4>2. request' = [request EXCEPT ![r] = new]
          BY <3>2 DEF CountLikes
        <4> QED  BY <4>1, <4>2
      <3>3. CASE CountComments(r)
        <4> DEFINE new == [request[r] EXCEPT !.todo = Rest(r),
                                             !.comments = Cardinality(comments)]
        <4>1. WasTrue(new)
          BY <1>o, <2>1, <2>2 DEF RequestType, Remembered
        <4>2. request' = [request EXCEPT ![r] = new]
          BY <3>3 DEF CountComments
        <4> QED  BY <4>1, <4>2
      <3> QED  BY <1>3, <3>1, <3>2, <3>3
    <2>4. ReadWasTrue'
      BY <1>o, <1>t, <2>1, <2>3 DEF ReadWasTrue
    <2> QED  BY <2>1, <2>4 DEF tables, TrueOnce, CountersWereTrue, Remembered
  <1>4. ASSUME NEW r \in Requests,
               \/ Recount(r) \/ SetCounters(r) \/ SetComments(r)
               \/ UpdatePost(r) \/ DeletePost(r)
        PROVE  Goal
    <2>1. /\ UNCHANGED <<likers, comments, wasLikes, wasComments>>
          /\ \E todo : GoesOn(r, todo)
      BY <1>4 DEF Recount, SetCounters, SetComments, UpdatePost, DeletePost, Went
    <2>2. ReadWasTrue'
      BY <1>g, <2>1
    <2>3. row'.likes \in wasLikes /\ row'.comments \in wasComments
      <3>1. request[r].post \in RowType
        BY <1>t DEF RequestType
      <3> QED  BY <1>4, <1>t, <3>1
            DEF Recount, SetCounters, SetComments, UpdatePost, DeletePost, RowType,
                TrueOnce, CountersWereTrue, ReadWasTrue, Remembered
    <2> QED  BY <2>1, <2>2, <2>3 DEF TrueOnce, CountersWereTrue, Remembered
  <1>5. ASSUME NEW r \in Requests, NEW kind, NEW u, NEW cid, Start(r, kind, u, cid)
        PROVE  Goal
    <2>1. UNCHANGED <<tables, wasLikes, wasComments>>
      BY <1>5 DEF Start
    <2>2. \A s \in Requests : WasTrue(request'[s])
      <3> SUFFICES ASSUME NEW s \in Requests PROVE WasTrue(request'[s])
        OBVIOUS
      <3>1. request[s] \in RequestType
        BY <1>t
      <3>2. \/ \E alone : request'[s] = [NoRequest EXCEPT !.todo = Statements(kind), !.user = u,
                                          !.cid = cid, !.alone = alone]
            \/ request'[s] = [request[s] EXCEPT !.alone = FALSE]
        BY <1>5 DEF Start
      <3> QED  BY <1>n, <1>o, <2>1, <3>1, <3>2 DEF RequestType, NoRequest
    <2> QED  BY <2>1, <2>2 DEF tables, TrueOnce, CountersWereTrue, ReadWasTrue, Remembered
  <1>6. ASSUME Crash PROVE Goal
    BY <1>6, <1>n DEF Crash, tables, TrueOnce, CountersWereTrue, ReadWasTrue, Remembered
  <1>7. ASSUME UNCHANGED vars PROVE Goal
    BY <1>7 DEF vars, tables, TrueOnce, CountersWereTrue, ReadWasTrue, Remembered
  <1> HIDE DEF Goal
  <1>8. Goal
    BY <1>1, <1>2, <1>3, <1>4, <1>5, <1>6, <1>7 DEF Next, Execute
  <1> QED  BY <1>8 DEF Goal

(* A stored counter is a number of likes or comments the post has had,     *)
(* with any handlers of any number of users at once, killed at any point.  *)
THEOREM CountersAreHistoric == Spec => []CountersWereTrue
  <1>1. TrueOnce => CountersWereTrue
    BY DEF TrueOnce
  <1> QED  BY <1>1, InitTrue, TrueStep, Typed, PTL DEF Spec

(* No interleaving of handlers undoes the deletion of a post. *)
THEOREM DeletionIsFinal == Spec => PostStaysDeleted
  <1>1. ASSUME TypeOK, [Next]_vars PROVE row.deleted => row'.deleted
    <2>1. row \in RowType /\ request \in [Requests -> RequestType]
      BY <1>1 DEF TypeOK
    <2>2. ASSUME NEW r \in Requests, UpdatePost(r) PROVE row.deleted => row'.deleted
      <3>1. request[r].post \in RowType
        BY <2>1 DEF RequestType
      <3>2. row' = [request[r].post EXCEPT !.deleted = row.deleted]
        BY <2>2 DEF UpdatePost
      <3>3. row'.deleted = row.deleted
        BY <3>1, <3>2, Zenon DEF RowType
      <3> QED  BY <3>3
    <2>3. ASSUME NEW r \in Requests, Execute(r), ~UpdatePost(r)
          PROVE  row.deleted => row'.deleted
      <3>1. CASE DeletePost(r)
        BY <2>1, <3>1 DEF DeletePost, RowType
      <3>2. CASE Recount(r) \/ SetCounters(r) \/ SetComments(r)
        BY <2>1, <3>2 DEF Recount, SetCounters, SetComments, RowType
      <3>3. CASE UNCHANGED row
        BY <3>3
      <3> QED  BY <2>3, <3>1, <3>2, <3>3 DEF Execute, InsertLike, DeleteLike, InsertComment,
             DeleteComment, ReadPost, CountLikes, CountComments, tables
    <2>4. CASE UNCHANGED row
      BY <2>4
    <2> QED  BY <1>1, <2>2, <2>3, <2>4 DEF Next, Start, Crash, tables, vars
  <1> QED  BY <1>1, Typed, PTL DEF Spec, PostStaysDeleted

-----------------------------------------------------------------------------
(* CountersSettle and RefreshRepairs.  What a handler has left to do is    *)
(* told by its last statement and by how many statements come before it.   *)

Final(todo) == todo[Len(todo)]

Before(todo, d, statements) == Len(todo) > d => todo[Len(todo) - d] \in statements

Planned(todo) ==
    todo # <<>> =>
        /\ Final(todo) \in {"setCounters", "setComments", "updatePost", "deletePost", "recount"}
        /\ Final(todo) = "setCounters" =>
              /\ Before(todo, 1, {"countComments"}) /\ Before(todo, 2, {"countLikes"})
              /\ Before(todo, 3, {"readPost"})
              /\ \A d \in Nat : d > 3 =>
                    Before(todo, d, {"insertLike", "deleteLike", "recount", "insertComment"})
        /\ Final(todo) = "setComments" =>
              /\ Len(todo) <= 4
              /\ Before(todo, 1, {"readPost"}) /\ Before(todo, 2, {"countComments"})
              /\ Before(todo, 3, {"insertComment", "deleteComment"})
        /\ Final(todo) \in {"updatePost", "deletePost"} =>
              Len(todo) <= 2 /\ Before(todo, 1, {"readPost"})
        /\ Final(todo) = "recount" =>
              Len(todo) <= 2 /\ Before(todo, 1, {"insertLike", "deleteLike"})

AllPlanned == \A r \in Requests : Planned(request[r].todo)

(* r ends with this statement, and n statements are left at the most.      *)
Left(r) == Len(request[r].todo)
EndsWith(r, statement) == ~Idle(r) /\ Final(request[r].todo) = statement

(* What r has counted is still the number of rows. *)
Fresh(r) ==
    /\ EndsWith(r, "setCounters") /\ Left(r) <= 2 => request[r].likes = Cardinality(likers)
    /\ \/ EndsWith(r, "setCounters") /\ Left(r) = 1
       \/ EndsWith(r, "setComments") /\ Left(r) <= 2
       => request[r].comments = Cardinality(comments)

AloneInv ==
    \A r \in Requests : request[r].alone => Fresh(r) /\ \A q \in Requests \ {r} : Idle(q)

(* As long as nothing but likes of the API was mixed: a counter that is    *)
(* out of date is about to be counted anew.                                *)
LikesComing == \E r \in Requests : EndsWith(r, "setCounters") \/ At(r, "recount")

CommentsComing ==
    \E r \in Requests : EndsWith(r, "setCounters") \/ (EndsWith(r, "setComments") /\ Left(r) <= 3)

ReadIsExact(r) ==
    /\ (EndsWith(r, "setComments") \/ EndsWith(r, "updatePost")) /\ Left(r) = 1 =>
          request[r].post.likes = Cardinality(likers)
    /\ EndsWith(r, "updatePost") /\ Left(r) = 1 => request[r].post.comments = Cardinality(comments)

SettleInv ==
    past = {} =>
        /\ \A r \in Requests : ~Idle(r) /\ ~EndsWith(r, "recount") => request[r].alone
        /\ row.likes # Cardinality(likers) => LikesComing
        /\ row.comments # Cardinality(comments) => CommentsComing
        /\ \A r \in Requests : ReadIsExact(r)

(* A handler starts with all its statements before it.                     *)
Whole(todo) ==
    /\ todo # <<>> /\ Planned(todo)
    /\ Final(todo) = "setCounters" => Len(todo) > 4
    /\ Final(todo) = "setComments" => Len(todo) = 4
    /\ Final(todo) = "updatePost" => Len(todo) = 2

LEMMA JoinedPlan ==
    ASSUME NEW first \in Seq(StatementNames), first # <<>>,
           \A i \in 1 .. Len(first) : first[i] \in {"insertLike", "deleteLike", "recount", "insertComment"}
    PROVE  Whole(first \o refreshPostCounters)
  <1> DEFINE refresh == <<"readPost", "countLikes", "countComments", "setCounters">>
             todo == first \o refresh
  <1>1. /\ refresh \in Seq(StatementNames) /\ Len(refresh) = 4
        /\ refresh[1] = "readPost" /\ refresh[2] = "countLikes"
        /\ refresh[3] = "countComments" /\ refresh[4] = "setCounters"
    BY DEF StatementNames
  <1> HIDE DEF refresh
  <1>2. Len(first) \in Nat /\ Len(first) > 0
    OBVIOUS
  <1>3. /\ todo \in Seq(StatementNames) /\ Len(todo) = Len(first) + 4
        /\ \A i \in 1 .. Len(first) + 4 :
              todo[i] = IF i <= Len(first) THEN first[i] ELSE refresh[i - Len(first)]
    <2>1. /\ todo \in Seq(StatementNames) /\ Len(todo) = Len(first) + Len(refresh)
          /\ \A i \in 1 .. Len(first) + Len(refresh) :
                todo[i] = IF i <= Len(first) THEN first[i] ELSE refresh[i - Len(first)]
      BY <1>1, ConcatProperties
    <2> QED  BY <1>1, <2>1
  <1> HIDE DEF todo
  <1>4. todo[Len(todo)] = "setCounters"
    <2>1. Len(todo) \in 1 .. Len(first) + 4 /\ ~ (Len(todo) <= Len(first)) /\ Len(todo) - Len(first) = 4
      BY <1>2, <1>3
    <2> QED  BY <1>1, <1>3, <2>1
  <1>5. todo[Len(todo) - 1] = "countComments"
    <2>1. /\ Len(todo) - 1 \in 1 .. Len(first) + 4 /\ ~ (Len(todo) - 1 <= Len(first))
          /\ Len(todo) - 1 - Len(first) = 3
      BY <1>2, <1>3
    <2> QED  BY <1>1, <1>3, <2>1
  <1>6. todo[Len(todo) - 2] = "countLikes"
    <2>1. /\ Len(todo) - 2 \in 1 .. Len(first) + 4 /\ ~ (Len(todo) - 2 <= Len(first))
          /\ Len(todo) - 2 - Len(first) = 2
      BY <1>2, <1>3
    <2> QED  BY <1>1, <1>3, <2>1
  <1>7. todo[Len(todo) - 3] = "readPost"
    <2>1. /\ Len(todo) - 3 \in 1 .. Len(first) + 4 /\ ~ (Len(todo) - 3 <= Len(first))
          /\ Len(todo) - 3 - Len(first) = 1
      BY <1>2, <1>3
    <2> QED  BY <1>1, <1>3, <2>1
  <1>8. ASSUME NEW d \in Nat, d > 3, Len(todo) > d
        PROVE  todo[Len(todo) - d] \in {"insertLike", "deleteLike", "recount", "insertComment"}
    <2>1. Len(todo) - d \in 1 .. Len(first) /\ Len(todo) - d \in 1 .. Len(first) + 4
      BY <1>2, <1>3, <1>8
    <2> QED  BY <1>3, <2>1
  <1>9. Planned(todo)
    BY <1>4, <1>5, <1>6, <1>7, <1>8 DEF Planned, Final, Before
  <1>10. Len(todo) > 4 /\ todo # <<>>
    BY <1>2, <1>3
  <1>11. Whole(todo)
    BY <1>4, <1>9, <1>10 DEF Whole, Final
  <1> QED  BY <1>11 DEF todo, refresh, refreshPostCounters

LEMMA KindsArePlanned == \A kind \in AllKinds : Whole(Statements(kind))
  <1> SUFFICES ASSUME NEW kind \in AllKinds PROVE Whole(Statements(kind))
    OBVIOUS
  <1>1. CASE kind \in {"webLike", "webUnlike"}
    <2>1. PICK a \in {"insertLike", "deleteLike"} :
             Statements(kind) = <<a, "recount">> \o refreshPostCounters
      BY <1>1 DEF Statements, handleLike, likeToggle, Like, Unlike
    <2> DEFINE first == <<a, "recount">>
    <2>2. /\ first \in Seq(StatementNames) /\ first # <<>>
          /\ \A i \in 1 .. Len(first) : first[i] \in {"insertLike", "deleteLike", "recount", "insertComment"}
      BY DEF StatementNames
    <2> HIDE DEF first
    <2>3. Whole(first \o refreshPostCounters)
      BY <2>2, JoinedPlan
    <2> QED  BY <2>1, <2>3 DEF first
  <1>2. CASE kind = "webComment"
    <2> DEFINE first == <<"insertComment">>
    <2>1. Statements(kind) = first \o refreshPostCounters
      BY <1>2 DEF Statements, handleComment
    <2>2. /\ first \in Seq(StatementNames) /\ first # <<>>
          /\ \A i \in 1 .. Len(first) : first[i] \in {"insertLike", "deleteLike", "recount", "insertComment"}
      BY DEF StatementNames
    <2> HIDE DEF first
    <2> QED  BY <2>1, <2>2, JoinedPlan
  <1>3. CASE kind \in ApiLikeKinds
    <2>1. PICK a \in {"insertLike", "deleteLike"} : Statements(kind) = <<a, "recount">>
      BY <1>3 DEF ApiLikeKinds, Statements, likeToggle, Like, Unlike
    <2> QED  BY <2>1 DEF Whole, Planned, Final, Before
  <1>4. CASE kind \in {"apiComment", "apiDeleteComment"}
    <2>1. PICK a \in {"insertComment", "deleteComment"} :
             Statements(kind) = <<a, "countComments", "readPost", "setComments">>
      BY <1>4 DEF Statements, wallAddComment, wallDeleteComment
    <2> QED  BY <2>1 DEF Whole, Planned, Final, Before
  <1>5. CASE kind = "apiEdit"
    <2>1. Statements(kind) = <<"readPost", "updatePost">>
      BY <1>5 DEF Statements, wallEdit
    <2> QED  BY <2>1 DEF Whole, Planned, Final, Before
  <1>6. CASE kind = "apiDelete"
    <2>1. Statements(kind) = <<"deletePost">>
      BY <1>6 DEF Statements, wallDelete
    <2> QED  BY <2>1 DEF Whole, Planned, Final, Before
  <1>7. CASE kind = "webDelete"
    <2>1. Statements(kind) = <<"readPost", "deletePost">>
      BY <1>7 DEF Statements, handlePostDelete
    <2> QED  BY <2>1 DEF Whole, Planned, Final, Before
  <1> QED  BY <1>1, <1>2, <1>3, <1>4, <1>5, <1>6, <1>7 DEF AllKinds, WebKinds

(* A handler goes on as planned: the rest is shorter and ends alike.       *)
LEMMA PlanGoesOn ==
    ASSUME NEW todo \in Seq(StatementNames), todo # <<>>, Planned(todo)
    PROVE  /\ Tail(todo) \in Seq(StatementNames) /\ Len(Tail(todo)) = Len(todo) - 1
           /\ Tail(todo) # <<>> <=> Len(todo) > 1
           /\ Tail(todo) # <<>> => Final(Tail(todo)) = Final(todo)
           /\ Planned(Tail(todo))
  <1> DEFINE rest == Tail(todo)
  <1>1. /\ Len(todo) \in Nat \ {0} /\ rest \in Seq(StatementNames)
        /\ Len(rest) = Len(todo) - 1
        /\ \A i \in 1..(Len(todo) - 1) : rest[i] = todo[i + 1]
    BY HeadTailProperties
  <1> HIDE DEF rest
  <1>2. rest # <<>> <=> Len(todo) > 1
    <2>1. rest = <<>> <=> Len(rest) = 0
      BY <1>1
    <2> QED  BY <1>1, <2>1
  <1>3. ASSUME NEW d \in Nat, Len(rest) > d PROVE Len(todo) > d /\ rest[Len(rest) - d] = todo[Len(todo) - d]
    <2>1. Len(rest) - d \in 1..(Len(todo) - 1) /\ Len(rest) - d + 1 = Len(todo) - d
      BY <1>1, <1>3
    <2> QED  BY <1>1, <1>3, <2>1
  <1>4. ASSUME rest # <<>> PROVE Final(rest) = Final(todo)
    <2>1. Len(rest) > 0 /\ 0 \in Nat /\ Len(rest) - 0 = Len(rest) /\ Len(todo) - 0 = Len(todo)
      BY <1>1, <1>2, <1>4
    <2> QED  BY <1>3, <2>1 DEF Final
  <1>5. ASSUME NEW d \in Nat, NEW statements, Before(todo, d, statements)
        PROVE  Before(rest, d, statements)
    BY <1>3, <1>5 DEF Before
  <1>6. Planned(rest)
    <2>1. \A n \in Nat : Len(todo) <= n => Len(rest) <= n
      BY <1>1
    <2>2. 1 \in Nat /\ 2 \in Nat /\ 3 \in Nat /\ 4 \in Nat
      OBVIOUS
    <2> QED  BY <1>4, <1>5, <2>1, <2>2 DEF Planned
  <1> QED  BY <1>1, <1>2, <1>4, <1>6 DEF rest

(* The next statement says where in its plan a handler is.                 *)
LEMMA NextStatement ==
    ASSUME NEW todo \in Seq(StatementNames), todo # <<>>, Planned(todo), LikeFirst(todo)
    PROVE  LET n == Len(todo)
               next == Head(todo)
               final == Final(todo)
           IN  /\ n \in Nat /\ n >= 1
               /\ next \in {"setCounters", "setComments", "updatePost", "deletePost"} => n = 1 /\ final = next
               /\ next = "countLikes" => final = "setCounters" /\ n = 3
               /\ next = "countComments" => \/ final = "setCounters" /\ n = 2
                                            \/ final = "setComments" /\ n = 3
               /\ next = "readPost" => \/ final = "setCounters" /\ n = 4
                                       \/ final \in {"setComments", "updatePost", "deletePost"} /\ n = 2
               /\ next = "recount" => \/ final = "setCounters" /\ n > 4
                                      \/ final = "recount" /\ n = 1
               /\ next \in {"insertLike", "deleteLike"} => \/ final = "setCounters" /\ n > 5
                                                           \/ final = "recount" /\ n = 2
               /\ next \in {"insertComment", "deleteComment"} => \/ final = "setCounters" /\ n > 4
                                                                 \/ final = "setComments" /\ n = 4
  <1> DEFINE n == Len(todo)
             next == Head(todo)
             final == Final(todo)
  <1>1. n \in Nat /\ n >= 1 /\ next = todo[1]
    OBVIOUS
  <1>2. ASSUME NEW d \in Nat, NEW statements, n = d + 1, Before(todo, d, statements)
        PROVE  next \in statements
    <2>1. n > d /\ n - d = 1
      BY <1>1, <1>2
    <2> QED  BY <1>1, <1>2, <2>1 DEF Before
  <1>3. n = 1 => next = final
    BY <1>1 DEF Final
  <1>4. next \in {"insertLike", "deleteLike"} => n > 1 /\ todo[2] = "recount"
    BY <1>1 DEF LikeFirst
  <1>p. 1 \in Nat /\ 2 \in Nat /\ 3 \in Nat
    OBVIOUS
  <1>5. ASSUME final = "setCounters"
        PROVE  /\ n = 2 => next = "countComments"
               /\ n = 3 => next = "countLikes"
               /\ n = 4 => next = "readPost"
               /\ n > 4 => next \in {"insertLike", "deleteLike", "recount", "insertComment"}
               /\ n = 5 => next \notin {"insertLike", "deleteLike"}
    <2>1. /\ Before(todo, 1, {"countComments"}) /\ Before(todo, 2, {"countLikes"})
          /\ Before(todo, 3, {"readPost"})
          /\ \A d \in Nat : d > 3 => Before(todo, d, {"insertLike", "deleteLike", "recount", "insertComment"})
      BY <1>5 DEF Planned
    <2>2. n = 2 => next = "countComments"
      BY <1>p, <1>2, <2>1
    <2>3. n = 3 => next = "countLikes"
      BY <1>p, <1>2, <2>1
    <2>4. n = 4 => next = "readPost"
      BY <1>p, <1>2, <2>1
    <2>5. ASSUME n > 4 PROVE next \in {"insertLike", "deleteLike", "recount", "insertComment"}
      <3> DEFINE d == n - 1
      <3>1. d \in Nat /\ d > 3 /\ n = d + 1
        BY <1>1, <2>5
      <3> HIDE DEF n, d, next
      <3>2. Before(todo, d, {"insertLike", "deleteLike", "recount", "insertComment"})
        BY <2>1, <3>1
      <3> QED  BY <1>2, <3>1, <3>2
    <2>6. n = 5 => todo[2] = "readPost"
      <3>1. n = 5 => n - 3 = 2 /\ n > 3
        OBVIOUS
      <3> QED  BY <2>1, <3>1 DEF Before
    <2> QED  BY <1>4, <2>2, <2>3, <2>4, <2>5, <2>6
  <1>6. ASSUME final = "setComments"
        PROVE  /\ n <= 4
               /\ n = 2 => next = "readPost"
               /\ n = 3 => next = "countComments"
               /\ n = 4 => next \in {"insertComment", "deleteComment"}
    <2>1. /\ n <= 4
          /\ Before(todo, 1, {"readPost"}) /\ Before(todo, 2, {"countComments"})
          /\ Before(todo, 3, {"insertComment", "deleteComment"})
      BY <1>6 DEF Planned
    <2>2. n = 2 => next = "readPost"
      BY <1>p, <1>2, <2>1
    <2>3. n = 3 => next = "countComments"
      BY <1>p, <1>2, <2>1
    <2>4. n = 4 => next \in {"insertComment", "deleteComment"}
      BY <1>p, <1>2, <2>1
    <2> QED  BY <2>1, <2>2, <2>3, <2>4
  <1>7. ASSUME final \in {"updatePost", "deletePost"} PROVE n <= 2 /\ (n = 2 => next = "readPost")
    <2>1. n <= 2 /\ Before(todo, 1, {"readPost"})
      BY <1>7 DEF Planned
    <2> QED  BY <1>p, <1>2, <2>1
  <1>8. ASSUME final = "recount" PROVE n <= 2 /\ (n = 2 => next \in {"insertLike", "deleteLike"})
    <2>1. n <= 2 /\ Before(todo, 1, {"insertLike", "deleteLike"})
      BY <1>8 DEF Planned
    <2> QED  BY <1>p, <1>2, <2>1
  <1>9. final \in {"setCounters", "setComments", "updatePost", "deletePost", "recount"}
    BY DEF Planned
  <1> HIDE DEF n, next, final
  <1>10. n = 1 \/ n = 2 \/ n = 3 \/ n = 4 \/ n > 4
    BY <1>1
  <1>11. n > 4 => n = 5 \/ n > 5
    BY <1>1
  <1>12. CASE final = "setCounters"
    BY <1>1, <1>3, <1>5, <1>10, <1>11, <1>12 DEF n, next, final
  <1>13. CASE final = "setComments"
    BY <1>1, <1>3, <1>6, <1>10, <1>13 DEF n, next, final
  <1>14. CASE final \in {"updatePost", "deletePost"}
    BY <1>1, <1>3, <1>7, <1>10, <1>14 DEF n, next, final
  <1>15. CASE final = "recount"
    BY <1>1, <1>3, <1>8, <1>10, <1>15 DEF n, next, final
  <1> QED  BY <1>9, <1>12, <1>13, <1>14, <1>15

(* The statements of the API's likes, and of nothing else, end with the    *)
(* recount.                                                                *)
LEMMA LikesEnd ==
    ASSUME NEW todo \in Seq(StatementNames), todo # <<>>, OnlyLikes(todo), Planned(todo)
    PROVE  Final(todo) = "recount"
  <1>1. Len(todo) \in DOMAIN todo
    OBVIOUS
  <1> QED  BY <1>1 DEF OnlyLikes, Final, Planned
StatementsLeft(r, n) ==
    /\ Left(r)' = n
    /\ Idle(r)' <=> n = 0
    /\ \A s : EndsWith(r, s)' <=> EndsWith(r, s) /\ n > 0

Untouched(r) ==
    \A q \in Requests \ {r} :
        /\ request'[q] = request[q]
        /\ Idle(q)' <=> Idle(q)
        /\ Left(q)' = Left(q)
        /\ \A s : (EndsWith(q, s)' <=> EndsWith(q, s)) /\ (At(q, s)' <=> At(q, s))

Inv == TypeOK /\ RequestsFormed /\ AllPlanned /\ AloneInv /\ SettleInv

(* Where r is in its plan, by the statement it executes.                   *)
LEMMA Where ==
    ASSUME Inv, NEW r \in Requests, ~Idle(r)
    PROVE  /\ request[r] \in RequestType /\ request[r].todo \in Seq(StatementNames)
           /\ request[r].todo # <<>> /\ Planned(request[r].todo) /\ LikeFirst(request[r].todo)
           /\ Left(r) \in Nat /\ Left(r) >= 1
           /\ \E s \in {"setCounters", "setComments", "updatePost", "deletePost", "recount"} : EndsWith(r, s)
           /\ \A s, t : EndsWith(r, s) /\ EndsWith(r, t) => s = t
           /\ \A s \in {"setCounters", "setComments", "updatePost", "deletePost"} :
                 At(r, s) => Left(r) = 1 /\ EndsWith(r, s)
           /\ At(r, "countLikes") => EndsWith(r, "setCounters") /\ Left(r) = 3
           /\ At(r, "countComments") => \/ EndsWith(r, "setCounters") /\ Left(r) = 2
                                        \/ EndsWith(r, "setComments") /\ Left(r) = 3
           /\ At(r, "readPost") => \/ EndsWith(r, "setCounters") /\ Left(r) = 4
                                   \/ EndsWith(r, "setComments") /\ Left(r) = 2
                                   \/ EndsWith(r, "updatePost") /\ Left(r) = 2
                                   \/ EndsWith(r, "deletePost") /\ Left(r) = 2
           /\ At(r, "recount") => \/ EndsWith(r, "setCounters") /\ Left(r) > 4
                                  \/ EndsWith(r, "recount") /\ Left(r) = 1
           /\ At(r, "insertLike") \/ At(r, "deleteLike") => \/ EndsWith(r, "setCounters") /\ Left(r) > 5
                                                            \/ EndsWith(r, "recount") /\ Left(r) = 2
           /\ At(r, "insertComment") \/ At(r, "deleteComment") => \/ EndsWith(r, "setCounters") /\ Left(r) > 4
                                                                  \/ EndsWith(r, "setComments") /\ Left(r) = 4
  <1>1. /\ request[r] \in RequestType /\ request[r].todo \in Seq(StatementNames)
        /\ request[r].todo # <<>> /\ Planned(request[r].todo) /\ LikeFirst(request[r].todo)
    BY DEF Inv, TypeOK, RequestType, AllPlanned, RequestsFormed, Formed, Idle
  <1>2. Final(request[r].todo) \in {"setCounters", "setComments", "updatePost", "deletePost", "recount"}
    BY <1>1 DEF Planned
  <1> QED  BY <1>1, <1>2, NextStatement DEF At, EndsWith, Left, Idle

(* r has executed one statement, or two at once.                           *)
LEMMA OneLess ==
    ASSUME Inv, NEW r \in Requests, ~Idle(r), request'[r].todo = Rest(r),
           \A q \in Requests \ {r} : request'[q] = request[q]
    PROVE  /\ StatementsLeft(r, Left(r) - 1) /\ Untouched(r) /\ AllPlanned'
  <1>1. /\ request[r].todo \in Seq(StatementNames) /\ request[r].todo # <<>> /\ Planned(request[r].todo)
        /\ Left(r) \in Nat /\ Left(r) >= 1
    BY Where
  <1>2. /\ Len(Rest(r)) = Left(r) - 1 /\ (Rest(r) # <<>> <=> Left(r) > 1)
        /\ (Rest(r) # <<>> => Final(Rest(r)) = Final(request[r].todo))
        /\ Planned(Rest(r))
    BY <1>1, PlanGoesOn DEF Rest, Left
  <1>3. StatementsLeft(r, Left(r) - 1)
    <2> DEFINE n == Left(r) - 1
    <2>1. Left(r)' = n
      BY <1>2 DEF Left
    <2>2. Idle(r)' <=> n = 0
      BY <1>1, <1>2 DEF Idle
    <2>3. ASSUME NEW s PROVE EndsWith(r, s)' <=> EndsWith(r, s) /\ n > 0
      <3>1. EndsWith(r, s)' <=> Rest(r) # <<>> /\ Final(Rest(r)) = s
        BY DEF EndsWith, Idle, Final
      <3>2. EndsWith(r, s) <=> Final(request[r].todo) = s
        BY <1>1 DEF EndsWith, Idle
      <3> QED  BY <1>1, <1>2, <3>1, <3>2
    <2> QED  BY <2>1, <2>2, <2>3 DEF StatementsLeft
  <1>4. Untouched(r)
    BY DEF Untouched, Left, Idle, EndsWith, At
  <1>5. AllPlanned'
    BY <1>2 DEF AllPlanned, Inv
  <1> QED  BY <1>3, <1>4, <1>5

LEMMA TwoLess ==
    ASSUME Inv, NEW r \in Requests, ~Idle(r), Left(r) > 1, request'[r].todo = Tail(Rest(r)),
           \A q \in Requests \ {r} : request'[q] = request[q]
    PROVE  /\ StatementsLeft(r, Left(r) - 2) /\ Untouched(r) /\ AllPlanned'
  <1>1. /\ request[r].todo \in Seq(StatementNames) /\ request[r].todo # <<>> /\ Planned(request[r].todo)
        /\ Left(r) \in Nat /\ Left(r) >= 1
    BY Where
  <1>2. /\ Len(Rest(r)) = Left(r) - 1 /\ Rest(r) # <<>> /\ Rest(r) \in Seq(StatementNames)
        /\ Final(Rest(r)) = Final(request[r].todo)
        /\ Planned(Rest(r))
    BY <1>1, PlanGoesOn DEF Rest, Left
  <1>3. /\ Len(Tail(Rest(r))) = Left(r) - 2 /\ (Tail(Rest(r)) # <<>> <=> Left(r) > 2)
        /\ (Tail(Rest(r)) # <<>> => Final(Tail(Rest(r))) = Final(request[r].todo))
        /\ Planned(Tail(Rest(r)))
    <2>1. /\ Len(Tail(Rest(r))) = Len(Rest(r)) - 1 /\ (Tail(Rest(r)) # <<>> <=> Len(Rest(r)) > 1)
          /\ (Tail(Rest(r)) # <<>> => Final(Tail(Rest(r))) = Final(Rest(r)))
          /\ Planned(Tail(Rest(r)))
      BY <1>2, PlanGoesOn
    <2> QED  BY <1>1, <1>2, <2>1
  <1>4. StatementsLeft(r, Left(r) - 2)
    <2> DEFINE n == Left(r) - 2
    <2>1. Left(r)' = n
      BY <1>3 DEF Left
    <2>2. Idle(r)' <=> n = 0
      BY <1>1, <1>3 DEF Idle
    <2>3. ASSUME NEW s PROVE EndsWith(r, s)' <=> EndsWith(r, s) /\ n > 0
      <3>1. EndsWith(r, s)' <=> Tail(Rest(r)) # <<>> /\ Final(Tail(Rest(r))) = s
        BY DEF EndsWith, Idle, Final
      <3>2. EndsWith(r, s) <=> Final(request[r].todo) = s
        BY <1>1 DEF EndsWith, Idle
      <3> QED  BY <1>1, <1>3, <3>1, <3>2
    <2> QED  BY <2>1, <2>2, <2>3 DEF StatementsLeft
  <1>5. Untouched(r)
    BY DEF Untouched, Left, Idle, EndsWith, At
  <1>6. AllPlanned'
    BY <1>3 DEF AllPlanned, Inv
  <1> QED  BY <1>4, <1>5, <1>6

LEMMA GoesOnEffect ==
    ASSUME Inv, NEW r \in Requests, NEW todo, GoesOn(r, todo)
    PROVE  /\ \A q \in Requests \ {r} : request'[q] = request[q]
           /\ request'[r].todo = todo
           /\ todo = <<>> => request'[r].alone = FALSE
           /\ todo # <<>> =>
                 /\ request'[r].alone = request[r].alone /\ request'[r].likes = request[r].likes
                 /\ request'[r].comments = request[r].comments /\ request'[r].post = request[r].post
  <1>1. request \in [Requests -> RequestType] /\ request[r] \in RequestType
    BY DEF Inv, TypeOK
  <1> QED  BY <1>1 DEF GoesOn, NoRequest, RequestType

(* One statement of r, whatever it does: who else is at work is as before. *)
LEMMA AloneGoesOn ==
    ASSUME Inv, NEW r \in Requests, ~Idle(r), Untouched(r), request'[r].alone => request[r].alone,
           request[r].alone /\ request'[r].alone => Fresh(r)'
    PROVE  AloneInv'
  <1> SUFFICES ASSUME NEW q \in Requests, request'[q].alone
               PROVE  Fresh(q)' /\ \A p \in Requests \ {q} : Idle(p)'
    BY DEF AloneInv
  <1>1. q = r
    BY DEF Inv, AloneInv, Untouched
  <1> QED  BY <1>1 DEF Inv, AloneInv, Untouched

LEMMA SettleGoesOn ==
    ASSUME Inv, NEW r \in Requests, ~Idle(r), Untouched(r), NEW n \in Nat, n < Left(r), StatementsLeft(r, n),
           past' = past, ~Idle(r)' => request'[r].alone = request[r].alone,
           past = {} =>
              /\ row'.likes # Cardinality(likers') => LikesComing'
              /\ row'.comments # Cardinality(comments') => CommentsComing'
              /\ ReadIsExact(r)'
              /\ \A q \in Requests \ {r} : ReadIsExact(q)'
    PROVE  SettleInv'
  <1> SUFFICES ASSUME past = {}, NEW q \in Requests, ~Idle(q)', ~EndsWith(q, "recount")'
               PROVE  request'[q].alone
    BY DEF SettleInv
  <1>1. CASE q = r
    <2>1. ~EndsWith(r, "recount")
      BY <1>1 DEF StatementsLeft
    <2> QED  BY <1>1, <2>1 DEF Inv, SettleInv
  <1>2. CASE q # r
    BY <1>2 DEF Inv, SettleInv, Untouched
  <1> QED  BY <1>1, <1>2

(* What is coming still comes after another statement of r.                *)
LEMMA StillComing ==
    ASSUME Inv, NEW r \in Requests, ~Idle(r), Untouched(r), NEW n \in Nat, n < Left(r), StatementsLeft(r, n)
    PROVE  /\ LikesComing /\ ~At(r, "recount") /\ (EndsWith(r, "setCounters") => n > 0) => LikesComing'
           /\ CommentsComing /\ (EndsWith(r, "setCounters") \/ EndsWith(r, "setComments") => n > 0) => CommentsComing'
  <1>1. Left(r) \in Nat
    BY Where
  <1>2. ASSUME LikesComing, ~At(r, "recount"), EndsWith(r, "setCounters") => n > 0 PROVE LikesComing'
    <2>1. PICK q \in Requests : EndsWith(q, "setCounters") \/ At(q, "recount")
      BY <1>2 DEF LikesComing
    <2>2. CASE q = r
      BY <1>2, <2>1, <2>2 DEF LikesComing, StatementsLeft
    <2>3. CASE q # r
      BY <2>1, <2>3 DEF LikesComing, Untouched
    <2> QED  BY <2>2, <2>3
  <1>3. ASSUME CommentsComing, EndsWith(r, "setCounters") \/ EndsWith(r, "setComments") => n > 0
        PROVE  CommentsComing'
    <2>1. PICK q \in Requests :
             EndsWith(q, "setCounters") \/ (EndsWith(q, "setComments") /\ Left(q) <= 3)
      BY <1>3 DEF CommentsComing
    <2>2. CASE q = r
      <3>1. EndsWith(r, "setCounters")' \/ (EndsWith(r, "setComments")' /\ Left(r)' <= 3)
        BY <1>1, <1>3, <2>1, <2>2 DEF StatementsLeft
      <3> QED  BY <3>1 DEF CommentsComing
    <2>3. CASE q # r
      <3>1. EndsWith(q, "setCounters")' \/ (EndsWith(q, "setComments")' /\ Left(q)' <= 3)
        BY <2>1, <2>3 DEF Untouched
      <3> QED  BY <3>1 DEF CommentsComing
    <2> QED  BY <2>2, <2>3
  <1> QED  BY <1>2, <1>3

(* A handler that writes more than likes is served alone, as long as       *)
(* nothing is mixed: then only its own statements can be coming.           *)
LEMMA AloneWhileUnmixed ==
    ASSUME Inv, past = {}, NEW r \in Requests, ~Idle(r), ~EndsWith(r, "recount")
    PROVE  /\ request[r].alone /\ Fresh(r) /\ \A q \in Requests \ {r} : Idle(q)
           /\ LikesComing => EndsWith(r, "setCounters") \/ At(r, "recount")
           /\ CommentsComing => EndsWith(r, "setCounters") \/ (EndsWith(r, "setComments") /\ Left(r) <= 3)
  <1>1. request[r].alone
    BY DEF Inv, SettleInv
  <1>2. Fresh(r) /\ \A q \in Requests \ {r} : Idle(q)
    BY <1>1 DEF Inv, AloneInv
  <1>3. \A q \in Requests \ {r} : \A s : ~EndsWith(q, s) /\ ~At(q, s)
    BY <1>2 DEF EndsWith, At, Idle
  <1> QED  BY <1>1, <1>2, <1>3 DEF LikesComing, CommentsComing

(* The others keep what they have read, if the tables keep it too.         *)
LEMMA OthersExact ==
    ASSUME Inv, past = {}, NEW r \in Requests, ~Idle(r), Untouched(r)
    PROVE  \A q \in Requests \ {r} : ReadIsExact(q)'
  <1> SUFFICES ASSUME NEW q \in Requests \ {r}, EndsWith(q, "setComments") \/ EndsWith(q, "updatePost") PROVE FALSE
    BY DEF ReadIsExact, Untouched
  <1>1. ~Idle(q)
    BY DEF EndsWith
  <1>2. ~EndsWith(q, "recount")
    BY <1>1, Where
  <1> QED  BY <1>1, <1>2, AloneWhileUnmixed

(* Statements that write the likes. *)
LEMMA LikeSettles ==
    ASSUME Inv, NEW r \in Requests, InsertLike(r) \/ DeleteLike(r)
    PROVE  AllPlanned' /\ AloneInv' /\ SettleInv'
  <1>1. /\ ~Idle(r)
        /\ At(r, "insertLike") \/ At(r, "deleteLike")
        /\ row' = row /\ comments' = comments /\ past' = past
    BY DEF InsertLike, DeleteLike, At, Idle
  <1>2. /\ \/ EndsWith(r, "setCounters") /\ Left(r) > 5
           \/ EndsWith(r, "recount") /\ Left(r) = 2
        /\ Left(r) \in Nat /\ ~At(r, "recount")
        /\ \A s, t : EndsWith(r, s) /\ EndsWith(r, t) => s = t
    <2>1. ~At(r, "recount")
      BY <1>1 DEF At
    <2> QED  BY <1>1, <2>1, Where
  <1>3. Rest(r) # <<>> /\ Head(Rest(r)) = "recount"
    <2>1. Head(request[r].todo) \in {"insertLike", "deleteLike"}
      BY <1>1 DEF At
    <2> QED  BY <1>1, <2>1, Where, TailShape DEF Rest
  <1>4. CASE GoesOn(r, Rest(r))
    <2>1. /\ \A q \in Requests \ {r} : request'[q] = request[q]
          /\ request'[r].todo = Rest(r) /\ request'[r].alone = request[r].alone
      BY <1>3, <1>4, GoesOnEffect
    <2> DEFINE n == Left(r) - 1
    <2>2. /\ StatementsLeft(r, n) /\ Untouched(r) /\ AllPlanned' /\ n \in Nat /\ n < Left(r)
          /\ \/ EndsWith(r, "setCounters") /\ n > 4
             \/ EndsWith(r, "recount") /\ n = 1
      BY <1>1, <1>2, <2>1, OneLess
    <2> HIDE DEF n
    <2>3. Fresh(r)' /\ ReadIsExact(r)'
      BY <1>2, <2>2 DEF Fresh, ReadIsExact, StatementsLeft
    <2>4. LikesComing'
      <3>1. At(r, "recount")'
        BY <1>3, <2>1 DEF At
      <3> QED  BY <3>1 DEF LikesComing
    <2>5. past = {} => (row'.comments # Cardinality(comments') => CommentsComing')
      BY <1>1, <1>2, <2>2, StillComing DEF Inv, SettleInv
    <2>6. past = {} => \A q \in Requests \ {r} : ReadIsExact(q)'
      BY <1>1, <2>2, OthersExact
    <2>7. AloneInv'
      BY <1>1, <2>1, <2>2, <2>3, AloneGoesOn
    <2>8. SettleInv'
      BY <1>1, <2>1, <2>2, <2>3, <2>4, <2>5, <2>6, SettleGoesOn
    <2> QED  BY <2>2, <2>7, <2>8
  <1>5. CASE GoesOn(r, Tail(Rest(r))) /\ likers' = likers
    <2>1. /\ \A q \in Requests \ {r} : request'[q] = request[q]
          /\ request'[r].todo = Tail(Rest(r))
          /\ Tail(Rest(r)) = <<>> => request'[r].alone = FALSE
          /\ Tail(Rest(r)) # <<>> => request'[r].alone = request[r].alone
      BY <1>5, GoesOnEffect
    <2> DEFINE n == Left(r) - 2
    <2>2. /\ StatementsLeft(r, n) /\ Untouched(r) /\ AllPlanned' /\ n \in Nat /\ n < Left(r)
          /\ \/ EndsWith(r, "setCounters") /\ n > 3
             \/ EndsWith(r, "recount") /\ n = 0
      BY <1>1, <1>2, <2>1, TwoLess
    <2> HIDE DEF n
    <2>3. Fresh(r)' /\ ReadIsExact(r)'
      BY <1>2, <2>2 DEF Fresh, ReadIsExact, StatementsLeft
    <2>4. past = {} => (row'.likes # Cardinality(likers') => LikesComing')
      BY <1>1, <1>2, <1>5, <2>2, StillComing DEF Inv, SettleInv
    <2>5. past = {} => (row'.comments # Cardinality(comments') => CommentsComing')
      BY <1>1, <1>2, <2>2, StillComing DEF Inv, SettleInv
    <2>6. past = {} => \A q \in Requests \ {r} : ReadIsExact(q)'
      BY <1>1, <2>2, OthersExact
    <2>7. /\ request'[r].alone => request[r].alone
          /\ ~Idle(r)' => request'[r].alone = request[r].alone
      BY <2>1 DEF Idle
    <2>8. AloneInv'
      BY <1>1, <2>2, <2>3, <2>7, AloneGoesOn
    <2>9. SettleInv'
      BY <1>1, <2>2, <2>3, <2>4, <2>5, <2>6, <2>7, SettleGoesOn
    <2> QED  BY <2>2, <2>8, <2>9
  <1>6. \/ GoesOn(r, Rest(r))
        \/ GoesOn(r, Tail(Rest(r))) /\ likers' = likers
    <2>1. InsertLike(r) /\ request[r].user \in likers => likers' = likers
      BY DEF InsertLike
    <2> QED  BY <2>1 DEF InsertLike, DeleteLike, Went
  <1> QED  BY <1>4, <1>5, <1>6

(* The other statements.                                                   *)
LEMMA OthersSettle ==
    ASSUME Inv, NEW r \in Requests,
           \/ Recount(r) \/ InsertComment(r) \/ DeleteComment(r) \/ ReadPost(r)
           \/ CountLikes(r) \/ CountComments(r)
           \/ SetCounters(r) \/ SetComments(r) \/ UpdatePost(r) \/ DeletePost(r)
    PROVE  AllPlanned' /\ AloneInv' /\ SettleInv'
  <1> DEFINE n == Left(r) - 1
  <1>t. row \in RowType /\ request[r] \in RequestType /\ request \in [Requests -> RequestType]
    BY DEF Inv, TypeOK
  <1>1. ~Idle(r) /\ past' = past /\ likers' = likers
    BY DEF Recount, InsertComment, DeleteComment, ReadPost, CountLikes, CountComments,
           SetCounters, SetComments, UpdatePost, DeletePost, At, Idle, tables
  <1>2. /\ \A q \in Requests \ {r} : request'[q] = request[q]
        /\ request'[r].todo = Rest(r)
        /\ request'[r].alone => request[r].alone
        /\ Rest(r) # <<>> => request'[r].alone = request[r].alone
        /\ Rest(r) # <<>> /\ ~CountLikes(r) => request'[r].likes = request[r].likes
        /\ Rest(r) # <<>> /\ ~CountComments(r) => request'[r].comments = request[r].comments
        /\ Rest(r) # <<>> /\ ~ReadPost(r) => request'[r].post = request[r].post
    <2>1. CASE ReadPost(r)
      BY <1>t, <2>1 DEF ReadPost, RequestType
    <2>2. CASE CountLikes(r)
      BY <1>t, <2>2 DEF CountLikes, RequestType
    <2>3. CASE CountComments(r)
      BY <1>t, <2>3 DEF CountComments, RequestType
    <2>4. CASE GoesOn(r, Rest(r))
      BY <2>4, GoesOnEffect
    <2> QED  BY <2>1, <2>2, <2>3, <2>4 DEF Recount, InsertComment, DeleteComment,
           SetCounters, SetComments, UpdatePost, DeletePost, Went
  <1>3. /\ StatementsLeft(r, n) /\ Untouched(r) /\ AllPlanned'
        /\ Left(r) \in Nat /\ n \in Nat /\ n < Left(r) /\ n + 1 = Left(r)
    <2>1. StatementsLeft(r, n) /\ Untouched(r) /\ AllPlanned'
      BY <1>1, <1>2, OneLess
    <2>2. Left(r) \in Nat /\ Left(r) >= 1
      BY <1>1, Where
    <2> QED  BY <2>1, <2>2
  <1>4. /\ \A s, t : EndsWith(r, s) /\ EndsWith(r, t) => s = t
        /\ Rest(r) # <<>> <=> n > 0
        /\ ~Idle(r)' <=> n > 0
    <2>1. Idle(r)' <=> n = 0
      BY <1>3 DEF StatementsLeft
    <2>2. Idle(r)' <=> Rest(r) = <<>>
      BY <1>2 DEF Idle
    <2> QED  BY <1>1, <1>3, <2>1, <2>2, Where
  <1> HIDE DEF n
  <1>5. ASSUME past = {} PROVE \A q \in Requests \ {r} : ReadIsExact(q)'
    BY <1>1, <1>3, <1>5, OthersExact
  <1>6. ASSUME request[r].alone => Fresh(r)',
               past = {} =>
                  /\ row'.likes # Cardinality(likers') => LikesComing'
                  /\ row'.comments # Cardinality(comments') => CommentsComing'
                  /\ ReadIsExact(r)'
        PROVE  AllPlanned' /\ AloneInv' /\ SettleInv'
    <2>1. AloneInv'
      BY <1>1, <1>2, <1>3, <1>6, AloneGoesOn
    <2>2. SettleInv'
      BY <1>1, <1>2, <1>3, <1>4, <1>5, <1>6, SettleGoesOn
    <2> QED  BY <1>3, <2>1, <2>2
  <1>f. request[r].alone => Fresh(r)
    BY DEF Inv, AloneInv
  <1>s. past = {} =>
           /\ row.likes # Cardinality(likers) => LikesComing
           /\ row.comments # Cardinality(comments) => CommentsComing
           /\ ReadIsExact(r)
    BY DEF Inv, SettleInv
  <1>7. CASE Recount(r)
    <2>1. /\ \/ EndsWith(r, "setCounters") /\ n > 3
             \/ EndsWith(r, "recount") /\ n = 0
          /\ row'.likes = Cardinality(likers) /\ row'.comments = row.comments /\ comments' = comments
      BY <1>1, <1>3, <1>7, <1>t, Where DEF Recount, RowType
    <2>2. Fresh(r)' /\ ReadIsExact(r)'
      BY <1>3, <1>4, <2>1 DEF Fresh, ReadIsExact, StatementsLeft
    <2>3. CommentsComing => CommentsComing'
      BY <1>1, <1>3, <1>4, <2>1, StillComing
    <2> QED  BY <1>1, <1>6, <1>s, <2>1, <2>2, <2>3
  <1>8. CASE InsertComment(r) \/ DeleteComment(r)
    <2>1. At(r, "insertComment") \/ At(r, "deleteComment")
      BY <1>8 DEF InsertComment, DeleteComment
    <2>2. /\ \/ EndsWith(r, "setCounters") /\ n > 3
             \/ EndsWith(r, "setComments") /\ n = 3
          /\ row' = row /\ ~At(r, "recount")
      <3>1. ~At(r, "recount") /\ row' = row
        BY <1>8 DEF InsertComment, DeleteComment, At
      <3> QED  BY <1>1, <1>3, <2>1, <3>1, Where
    <2>3. Fresh(r)' /\ ReadIsExact(r)'
      BY <1>3, <1>4, <2>2 DEF Fresh, ReadIsExact, StatementsLeft
    <2>4. CommentsComing'
      <3>1. EndsWith(r, "setCounters")' \/ (EndsWith(r, "setComments")' /\ Left(r)' <= 3)
        BY <1>3, <2>2 DEF StatementsLeft
      <3> QED  BY <3>1 DEF CommentsComing
    <2>5. LikesComing => LikesComing'
      BY <1>1, <1>3, <2>2, StillComing
    <2> QED  BY <1>1, <1>6, <1>s, <2>2, <2>3, <2>4, <2>5
  <1>9. CASE ReadPost(r)
    <2>1. /\ \/ EndsWith(r, "setCounters") /\ n = 3
             \/ EndsWith(r, "setComments") /\ n = 1
             \/ EndsWith(r, "updatePost") /\ n = 1
             \/ EndsWith(r, "deletePost") /\ n = 1
          /\ row' = row /\ comments' = comments /\ ~At(r, "recount") /\ request'[r].post = row
      <3>1. At(r, "readPost") /\ row' = row /\ comments' = comments /\ ~At(r, "recount")
        BY <1>9 DEF ReadPost, At, tables
      <3>2. request'[r].post = row
        BY <1>9, <1>t DEF ReadPost, RequestType
      <3> QED  BY <1>1, <1>3, <3>1, <3>2, Where
    <2>2. LikesComing => LikesComing'
      BY <1>1, <1>3, <2>1, StillComing
    <2>3. CommentsComing => CommentsComing'
      BY <1>1, <1>3, <2>1, StillComing
    <2>4. request[r].alone => Fresh(r)'
      <3> SUFFICES ASSUME request[r].alone PROVE Fresh(r)'
        OBVIOUS
      <3>1. EndsWith(r, "setComments") => request[r].comments = Cardinality(comments)
        BY <1>3, <1>f, <2>1, <1>4 DEF Fresh
      <3>2. request'[r].comments = request[r].comments
        BY <1>2, <1>4, <1>9, <2>1 DEF ReadPost, CountComments, At
      <3> QED  BY <1>3, <1>4, <2>1, <3>1, <3>2 DEF Fresh, StatementsLeft
    <2>5. ASSUME past = {} PROVE ReadIsExact(r)'
      <3>1. ~EndsWith(r, "recount")
        BY <1>4, <2>1
      <3>2. EndsWith(r, "setComments") \/ EndsWith(r, "updatePost") => row.likes = Cardinality(likers)
        BY <1>1, <1>4, <1>s, <2>1, <2>5, <3>1, AloneWhileUnmixed
      <3>3. EndsWith(r, "updatePost") => row.comments = Cardinality(comments)
        BY <1>1, <1>4, <1>s, <2>1, <2>5, <3>1, AloneWhileUnmixed
      <3> QED  BY <1>1, <1>3, <2>1, <3>2, <3>3 DEF ReadIsExact, StatementsLeft
    <2> QED  BY <1>1, <1>6, <1>s, <2>1, <2>2, <2>3, <2>4, <2>5
  <1>10. CASE CountLikes(r)
    <2>1. /\ EndsWith(r, "setCounters") /\ n = 2 /\ row' = row /\ comments' = comments
          /\ ~At(r, "recount") /\ request'[r].likes = Cardinality(likers)
      <3>1. At(r, "countLikes") /\ row' = row /\ comments' = comments /\ ~At(r, "recount")
        BY <1>10 DEF CountLikes, At, tables
      <3>2. request'[r].likes = Cardinality(likers)
        BY <1>10, <1>t DEF CountLikes, RequestType
      <3> QED  BY <1>1, <1>3, <3>1, <3>2, Where
    <2>2. (LikesComing => LikesComing') /\ (CommentsComing => CommentsComing')
      BY <1>1, <1>3, <2>1, StillComing
    <2>3. Fresh(r)' /\ ReadIsExact(r)'
      BY <1>1, <1>3, <1>4, <2>1 DEF Fresh, ReadIsExact, StatementsLeft
    <2> QED  BY <1>1, <1>6, <1>s, <2>1, <2>2, <2>3
  <1>11. CASE CountComments(r)
    <2>1. /\ \/ EndsWith(r, "setCounters") /\ n = 1
             \/ EndsWith(r, "setComments") /\ n = 2
          /\ row' = row /\ comments' = comments
          /\ ~At(r, "recount") /\ request'[r].comments = Cardinality(comments)
      <3>1. At(r, "countComments") /\ row' = row /\ comments' = comments /\ ~At(r, "recount")
        BY <1>11 DEF CountComments, At, tables
      <3>2. request'[r].comments = Cardinality(comments)
        BY <1>11, <1>t DEF CountComments, RequestType
      <3> QED  BY <1>1, <1>3, <3>1, <3>2, Where
    <2>2. (LikesComing => LikesComing') /\ (CommentsComing => CommentsComing')
      BY <1>1, <1>3, <2>1, StillComing
    <2>3. request[r].alone => Fresh(r)'
      <3> SUFFICES ASSUME request[r].alone PROVE Fresh(r)'
        OBVIOUS
      <3>1. EndsWith(r, "setCounters") => request[r].likes = Cardinality(likers)
        BY <1>3, <1>4, <1>f, <2>1 DEF Fresh
      <3>2. request'[r].likes = request[r].likes
        BY <1>2, <1>4, <1>11, <2>1 DEF CountLikes, CountComments, At
      <3> QED  BY <1>1, <1>3, <1>4, <2>1, <3>1, <3>2 DEF Fresh, StatementsLeft
    <2>4. ReadIsExact(r)'
      BY <1>3, <1>4, <2>1 DEF ReadIsExact, StatementsLeft
    <2> QED  BY <1>1, <1>6, <1>s, <2>1, <2>2, <2>3, <2>4
  <1>12. CASE SetCounters(r) \/ SetComments(r) \/ UpdatePost(r) \/ DeletePost(r)
    <2>1. PICK s \in {"setCounters", "setComments", "updatePost", "deletePost"} : At(r, s)
      BY <1>12 DEF SetCounters, SetComments, UpdatePost, DeletePost
    <2>2. n = 0 /\ EndsWith(r, s) /\ Left(r) = 1 /\ comments' = comments /\ ~At(r, "recount")
      <3>1. comments' = comments /\ ~At(r, "recount")
        BY <1>12, <2>1 DEF SetCounters, SetComments, UpdatePost, DeletePost, At
      <3> QED  BY <1>1, <1>3, <2>1, <3>1, Where
    <2>3. Fresh(r)' /\ ReadIsExact(r)'
      BY <1>3, <2>2 DEF Fresh, ReadIsExact, StatementsLeft
    <2>4. ASSUME past = {}
          PROVE  /\ row'.likes # Cardinality(likers) => LikesComing'
                 /\ row'.comments # Cardinality(comments) => CommentsComing'
      <3>1. /\ ~EndsWith(r, "recount") /\ ReadIsExact(r)
        BY <1>4, <1>s, <2>1, <2>2, <2>4
      <3>2. /\ Fresh(r)
            /\ row.likes # Cardinality(likers) => s = "setCounters"
            /\ row.comments # Cardinality(comments) => s \in {"setCounters", "setComments"}
        BY <1>1, <1>4, <1>s, <2>2, <2>4, <3>1, AloneWhileUnmixed
      <3>3. request[r].post \in RowType
        BY <1>t DEF RequestType
      <3>4. CASE SetCounters(r)
        <4>1. s = "setCounters"
          BY <2>1, <3>4 DEF SetCounters, At
        <4> QED  BY <1>t, <2>2, <3>2, <3>4, <4>1 DEF SetCounters, RowType, Fresh
      <3>5. CASE SetComments(r)
        <4>1. s = "setComments"
          BY <2>1, <3>5 DEF SetComments, At
        <4> QED  BY <1>t, <2>2, <3>1, <3>2, <3>5, <4>1 DEF SetComments, RowType, Fresh, ReadIsExact
      <3>6. CASE UpdatePost(r)
        <4>1. s = "updatePost"
          BY <2>1, <3>6 DEF UpdatePost, At
        <4> QED  BY <1>t, <2>2, <3>1, <3>3, <3>6, <4>1 DEF UpdatePost, RowType, ReadIsExact
      <3>7. CASE DeletePost(r)
        <4>1. s = "deletePost"
          BY <2>1, <3>7 DEF DeletePost, At
        <4> QED  BY <1>t, <3>2, <3>7, <4>1 DEF DeletePost, RowType
      <3> QED  BY <1>12, <3>4, <3>5, <3>6, <3>7
    <2> QED  BY <1>1, <1>6, <2>2, <2>3, <2>4
  <1> QED  BY <1>7, <1>8, <1>9, <1>10, <1>11, <1>12

(* A handler starts: alone, or something is mixed, or all do likes.        *)
LEMMA StartSettles ==
    ASSUME Inv, NEW r \in Requests, NEW kind \in AllKinds, NEW u, NEW cid, Start(r, kind, u, cid)
    PROVE  AllPlanned' /\ AloneInv' /\ SettleInv'
  <1> DEFINE todo == Statements(kind)
             others == Requests \ {r}
  <1>t. request \in [Requests -> RequestType]
    BY DEF Inv, TypeOK
  <1>1. /\ Idle(r) /\ likers' = likers /\ comments' = comments /\ row' = row
    BY DEF Start, tables
  <1>2. Whole(todo) /\ todo \in Seq(StatementNames) /\ Len(todo) \in Nat
    BY KindsArePlanned, HandlerShape
  <1>3. /\ request'[r].todo = todo
        /\ request'[r].alone = \A q \in others : Idle(q)
    BY DEF Start, NoRequest
  <1>4. ASSUME NEW q \in others
        PROVE  /\ request'[q].todo = request[q].todo /\ request'[q].alone = FALSE
               /\ request'[q].post = request[q].post
    <2>1. request[q] \in RequestType
      BY <1>t
    <2> QED  BY <2>1 DEF Start, RequestType
  <1> HIDE DEF todo
  <1>5. \A q \in others : /\ Idle(q)' <=> Idle(q)
                          /\ Left(q)' = Left(q)
                          /\ \A s : (EndsWith(q, s)' <=> EndsWith(q, s)) /\ (At(q, s)' <=> At(q, s))
    BY <1>4 DEF Idle, Left, EndsWith, At, Final
  <1>6. /\ ~Idle(r)' /\ Left(r)' = Len(todo)
        /\ \A s : EndsWith(r, s)' <=> Final(todo) = s
    BY <1>2, <1>3 DEF Idle, Left, EndsWith, Whole, Final
  <1>7. AllPlanned'
    BY <1>2, <1>3, <1>4 DEF AllPlanned, Inv, Whole
  <1>8. Fresh(r)' /\ ReadIsExact(r)'
    BY <1>2, <1>6 DEF Fresh, ReadIsExact, Whole
  <1>9. AloneInv'
    <2> SUFFICES ASSUME NEW q \in Requests, request'[q].alone
                 PROVE  Fresh(q)' /\ \A p \in Requests \ {q} : Idle(p)'
      BY DEF AloneInv
    <2>1. q = r
      BY <1>4
    <2> QED  BY <1>3, <1>5, <1>8, <2>1
  <1>10. SettleInv'
    <2> SUFFICES ASSUME past' = {} PROVE SettleInv'
      BY DEF SettleInv
    <2>1. /\ past = {}
          /\ \A q \in others : ~Idle(q) => OnlyLikes(todo) /\ OnlyLikes(request[q].todo)
      BY DEF Start, todo
    <2>2. ASSUME NEW q \in Requests, ~Idle(q)', ~EndsWith(q, "recount")' PROVE request'[q].alone
      <3>1. CASE q = r
        <4>1. ~OnlyLikes(todo)
          BY <1>2, <1>6, <2>2, <3>1, LikesEnd DEF Whole
        <4> QED  BY <1>3, <2>1, <3>1, <4>1
      <3>2. CASE q # r
        <4>1. ~Idle(q) /\ ~EndsWith(q, "recount")
          BY <1>5, <2>2, <3>2
        <4>2. OnlyLikes(request[q].todo)
          BY <2>1, <3>2, <4>1
        <4>3. EndsWith(q, "recount")
          BY <4>1, <4>2, Where, LikesEnd DEF EndsWith
        <4> QED  BY <4>1, <4>3
      <3> QED  BY <3>1, <3>2
    <2>3. ~At(r, "recount") /\ \A s : ~EndsWith(r, s)
      BY <1>1 DEF At, EndsWith, Idle
    <2>4. LikesComing => LikesComing'
      <3> SUFFICES ASSUME NEW q \in Requests, EndsWith(q, "setCounters") \/ At(q, "recount") PROVE LikesComing'
        BY DEF LikesComing
      <3> QED  BY <1>5, <2>3 DEF LikesComing
    <2>5. CommentsComing => CommentsComing'
      <3> SUFFICES ASSUME NEW q \in Requests,
                          EndsWith(q, "setCounters") \/ (EndsWith(q, "setComments") /\ Left(q) <= 3)
                   PROVE  CommentsComing'
        BY DEF CommentsComing
      <3>1. EndsWith(q, "setCounters")' \/ (EndsWith(q, "setComments")' /\ Left(q)' <= 3)
        BY <1>5, <2>3
      <3> QED  BY <3>1 DEF CommentsComing
    <2>6. ASSUME NEW q \in Requests PROVE ReadIsExact(q)'
      <3>1. CASE q = r
        BY <1>8, <3>1
      <3>2. CASE q # r
        <4>1. ReadIsExact(q)
          BY <2>1 DEF Inv, SettleInv
        <4> QED  BY <1>1, <1>4, <1>5, <3>2, <4>1 DEF ReadIsExact
      <3> QED  BY <3>1, <3>2
    <2> QED  BY <1>1, <2>1, <2>2, <2>4, <2>5, <2>6 DEF Inv, SettleInv
  <1> QED  BY <1>7, <1>9, <1>10

LEMMA InitSettled == Init => Inv
  <1> SUFFICES ASSUME Init PROVE Inv
    OBVIOUS
  <1>1. TypeOK /\ RequestsFormed
    BY InitType
  <1>2. \A r \in Requests : request[r].todo = <<>> /\ ~request[r].alone /\ Idle(r)
    BY DEF Init, NoRequest, Idle
  <1>3. AllPlanned /\ AloneInv
    BY <1>2 DEF AllPlanned, Planned, AloneInv
  <1>4. row.likes = Cardinality(likers) /\ row.comments = Cardinality(comments)
    BY FS_EmptySet DEF Init, NewPost
  <1>5. SettleInv
    BY <1>2, <1>4 DEF SettleInv, ReadIsExact, EndsWith
  <1> QED  BY <1>1, <1>3, <1>5 DEF Inv

LEMMA SettleStep == Inv /\ [Next]_vars => Inv'
  <1> SUFFICES ASSUME Inv, [Next]_vars PROVE Inv'
    OBVIOUS
  <1>1. (TypeOK /\ RequestsFormed)'
    BY TypeStep DEF Inv
  <1>2. ASSUME NEW r \in Requests, Execute(r) PROVE AllPlanned' /\ AloneInv' /\ SettleInv'
    BY <1>2, LikeSettles, OthersSettle DEF Execute
  <1>3. ASSUME NEW r \in Requests, NEW kind \in Kinds, NEW u, NEW cid, Start(r, kind, u, cid)
        PROVE  AllPlanned' /\ AloneInv' /\ SettleInv'
    BY <1>3, StartSettles, KindsAssumption
  <1>4. ASSUME Crash PROVE AllPlanned' /\ AloneInv' /\ SettleInv'
    <2>1. \A r \in Requests : request'[r].todo = <<>> /\ ~request'[r].alone
      BY <1>4 DEF Crash, NoRequest
    <2> QED  BY <1>4, <2>1 DEF Crash, AllPlanned, Planned, AloneInv, SettleInv
  <1>5. ASSUME UNCHANGED vars PROVE AllPlanned' /\ AloneInv' /\ SettleInv'
    BY <1>5 DEF vars, tables, Inv, AllPlanned, AloneInv, SettleInv, LikesComing, CommentsComing,
                ReadIsExact, Fresh, EndsWith, Left, Idle, At, Final
  <1>6. Next => \/ Crash
                \/ \E r \in Requests : \/ Execute(r)
                                      \/ \E kind \in Kinds : \E u, cid : Start(r, kind, u, cid)
    BY DEF Next
  <1>7. AllPlanned' /\ AloneInv' /\ SettleInv'
    BY <1>2, <1>3, <1>4, <1>5, <1>6
  <1> QED  BY <1>1, <1>7 DEF Inv

LEMMA Settled == Spec => []Inv
  <1> QED  BY InitSettled, SettleStep, PTL DEF Spec

(* With all handlers at rest a post shows its likes and comments, if every *)
(* one of them was served alone, or with nothing but the API's likes; only *)
(* a crash or other handlers at the same time leave the counters wrong.    *)
THEOREM CountersAlwaysSettle == Spec => []CountersSettle
  <1>1. ASSUME Inv PROVE CountersSettle
    <2> SUFFICES ASSUME past = {}, \A r \in Requests : Idle(r) PROVE Exact
      BY DEF CountersSettle
    <2>1. ~LikesComing /\ ~CommentsComing
      BY DEF LikesComing, CommentsComing, EndsWith, At, Idle
    <2> QED  BY <1>1, <2>1 DEF Exact, Inv, SettleInv
  <1> QED  BY <1>1, Settled, PTL

(* Whatever races and crashes have done to the counters, a handler of the  *)
(* web version that is served alone puts them right, and one of the API    *)
(* the number of comments.                                                 *)
THEOREM RefreshAlwaysRepairs == Spec => RefreshRepairs
  <1>1. ASSUME Inv, NEW r \in Requests, request[r].alone, SetCounters(r) \/ SetComments(r)
        PROVE  /\ row'.comments = Cardinality(comments')
               /\ At(r, "setCounters") => row'.likes = Cardinality(likers')
    <2>1. ~Idle(r) /\ Fresh(r) /\ row \in RowType /\ comments' = comments /\ likers' = likers
      BY <1>1 DEF SetCounters, SetComments, At, Idle, Inv, AloneInv, TypeOK
    <2>2. CASE SetCounters(r)
      <3>1. EndsWith(r, "setCounters") /\ Left(r) = 1
        BY <1>1, <2>1, <2>2, Where DEF SetCounters
      <3> QED  BY <2>1, <2>2, <3>1 DEF SetCounters, Fresh, RowType
    <2>3. CASE SetComments(r)
      <3>1. EndsWith(r, "setComments") /\ Left(r) = 1 /\ ~At(r, "setCounters")
        BY <1>1, <2>1, <2>3, Where DEF SetComments, At
      <3> QED  BY <2>1, <2>3, <3>1 DEF SetComments, Fresh, RowType
    <2> QED  BY <1>1, <2>2, <2>3
  <1>2. Inv /\ [Next]_vars =>
          \A r \in Requests :
             request[r].alone /\ (SetCounters(r) \/ SetComments(r)) =>
                /\ row'.comments = Cardinality(comments')
                /\ At(r, "setCounters") => row'.likes = Cardinality(likers')
    BY <1>1
  <1> QED  BY <1>2, Settled, PTL DEF Spec, RefreshRepairs
=============================================================================
