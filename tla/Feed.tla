-------------------------------- MODULE Feed --------------------------------
(***************************************************************************)
(* Posts, check-ins and the pages a reader turns: internal/store/wall.go,  *)
(* internal/store/places.go, internal/api/newsfeed.go, internal/api/wall.go*)
(* internal/api/places.go, internal/web/feed.go, internal/web/social.go.   *)
(*                                                                         *)
(* A handler is the sequence of its statements, as in PostCounters; each   *)
(* may fail, or the process be killed before it, and then the rest is not  *)
(* done.  A reader asks for one page after the other while the handlers    *)
(* write: in the web version by the date of the last post, to the second;  *)
(* over the API by the dates or the offset the client names.  Texts are    *)
(* left out, and of the attachments all but the mark of a check-in; ids of *)
(* check-ins and places too (see StoreIds).                                *)
(***************************************************************************)
EXTENDS Naturals, Sequences, FiniteSets, SequencesExt

CONSTANTS
    Users,
    Reader,     \* the user who turns pages
    Places,     \* places there can be
    Handlers,   \* goroutines that serve requests
    PageSize,   \* feedPageSize, and the parameter count
    FirstTime,  \* the clock at the start, in seconds
    MaxTime,    \* bound: the clock at the end
    MaxPosts,   \* bound: ids of posts given out
    MaxCheckins,\* bound: check-ins stored
    MaxNamed,   \* bound: posts that name a place without a check-in, when
                \* wall.post names one
    MinListed,  \* bound: posts listed when a reader begins
    MaxPages,   \* bound: pages turned
    NoPlace     \* no place

ASSUME FeedAssumption ==
    /\ Reader \in Users
    /\ NoPlace \notin Places
    /\ IsFiniteSet(Handlers)
    /\ PageSize \in Nat \ {0}
    /\ {FirstTime, MaxTime, MaxPosts, MaxCheckins, MaxNamed, MinListed, MaxPages} \subseteq Nat

(* Times are seconds since 1970: no post is of the first one.              *)
ASSUME TimeAssumption == FirstTime > 1

VARIABLES
    now,        \* the clock of the store
    posts,      \* table wall_posts: [id, owner, date, place, geo, deleted]
    lastPostID, \* the counter "wall_post"
    friends,    \* table friends: the friends of Reader
    places,     \* table places: the places there are
    count,      \* their column checkins
    checkins,   \* table checkins: [nr, uid, place, date]
    handler,    \* the remaining statements and local variables of each handler
    session,    \* the pages Reader has turned
    stopped     \* history: handlers stopped between the two statements of a
                \* check-in, for each place

tables == <<posts, lastPostID, friends, places, count, checkins>>
feedVars == <<tables, now, handler, session, stopped>>

-----------------------------------------------------------------------------
(* The handlers that write.                                                *)
handlePost == <<"now", "nextPostID", "createPost">>
wallPost == <<"nextPostID", "now", "createPost">>

(* Mutant: the place counts first. *)
AddCheckinLate == <<"countCheckin", "insertCheckin">>

AddCheckin == <<"insertCheckin", "countCheckin">>

(* Mutant: the post comes first. *)
placesCheckinLate == <<"nextPostID", "now", "createPost", "now">> \o AddCheckin

placesCheckin == <<"now">> \o AddCheckin \o <<"nextPostID", "now", "createPost">>
handleCheckin(isNew) == (IF isNew THEN <<"addPlace">> ELSE <<>>) \o placesCheckin
placesAdd == <<"addPlace">>

(* place: the place in geo_json.  geo: whether the attachment is "geo", as *)
(* that of every post of a check-in and of no other.                       *)
NoHandler == [todo |-> <<>>, owner |-> Reader, date |-> 0, postID |-> 0, place |-> NoPlace, geo |-> FALSE]

(* mode: "feed" (a page of the web version, or newsfeed.get), "wall"       *)
(* (wall.get) or "none".  by: how the reader comes to the next page: from  *)
(* "below" the second of the last post, again "from" that second, or by    *)
(* "offset".  end, start, offset: the bounds on the date (0: none) and the *)
(* offset of the next request.  shown: the posts so far.  cuts: the        *)
(* seconds below which a next page began.  awaited: the posts that have    *)
(* been there all the time and were not shown so far.  removed: whether    *)
(* one has gone from the list while an offset counted it in.               *)
NoSession == [mode |-> "none", by |-> "below", pages |-> 0, end |-> 0, start |-> 0, offset |-> 0,
              shown |-> <<>>, cuts |-> {}, awaited |-> {}, removed |-> FALSE, done |-> FALSE]

FeedInit ==
    /\ now = FirstTime
    /\ posts = {}
    /\ lastPostID = 0
    /\ friends = {}
    /\ places = {}
    /\ count = [p \in Places |-> 0]
    /\ checkins = {}
    /\ handler = [h \in Handlers |-> NoHandler]
    /\ session = NoSession
    /\ stopped = [p \in Places |-> 0]

-----------------------------------------------------------------------------
(* Reading. *)

(* ORDER BY: the rows in the order in which none comes Before an earlier.  *)
OrderBy(rows, Before(_, _)) ==
    CHOOSE s \in SetToSeqs(rows) : \A i, j \in DOMAIN s : i < j => Before(s[i], s[j])

(* date DESC, post_id DESC; post_id DESC.                                  *)
NewerFirst(p, q) == p.date > q.date \/ (p.date = q.date /\ p.id > q.id)
LaterFirst(p, q) == p.id > q.id

(* LIMIT count OFFSET offset.                                              *)
Limit(rows, offset, n) == SubSeq(rows, offset + 1, IF offset + n < Len(rows) THEN offset + n ELSE Len(rows))

IsListed(mode, p) ==
    /\ ~p.deleted
    /\ p.owner \in {Reader} \cup (IF mode = "wall" THEN {} ELSE friends)

Listed(mode) == {p \in posts : IsListed(mode, p)}

(* The bounds of the API on a date, 0 if there is none.                    *)
InRange(end, start, p) == (end > 0 => p.date <= end) /\ (start > 0 => p.date >= start)

(* Mutant: date < endTime. *)
FeedRangeBefore(end, start, offset, n) ==
    Limit(OrderBy({p \in Listed("feed") : InRange(end, start, p) /\ p.date # end}, NewerFirst), offset, n)

FeedRange(end, start, offset, n) ==
    Limit(OrderBy({p \in Listed("feed") : InRange(end, start, p)}, NewerFirst), offset, n)

Posts(offset, n) == Limit(OrderBy(Listed("wall"), LaterFirst), offset, n)

(* The times a client may name as start_time; those before the first post  *)
(* leave out nothing.                                                      *)
StartTimes == {0} \cup (FirstTime + 1 .. MaxTime)

(* A reader begins with the first page: the ways to turn them.             *)
Begun(mode, by, start) ==
    [NoSession EXCEPT !.mode = mode, !.by = by, !.start = start, !.awaited = Listed(mode)]

NewSessions(mode) ==
    IF mode = "wall" THEN {Begun(mode, "offset", 0)}
    ELSE {Begun(mode, by, start) : by \in {"below", "from", "offset"}, start \in StartTimes}

(* The session in which the reader asks for a page.                        *)
Asking(mode) ==
    IF session = NoSession THEN {s \in NewSessions(mode) : Cardinality(Listed(mode)) >= MinListed}
    ELSE {s \in {session} : s.mode = mode /\ ~s.done /\ s.pages < MaxPages}

(* The session after a page: a short one is the last.                      *)
Turned(s, page) ==
    [s EXCEPT !.pages = @ + 1, !.shown = @ \o page, !.awaited = @ \ ToSet(page),
              !.done = Len(page) < PageSize]

(* What the reader asks for next.                                          *)
Below(s, page) ==
    IF Len(page) < PageSize THEN Turned(s, page)
    ELSE [Turned(s, page) EXCEPT !.end = Last(page).date - 1, !.cuts = @ \cup {Last(page).date}]

From(s, page) ==
    IF Len(page) < PageSize THEN Turned(s, page) ELSE [Turned(s, page) EXCEPT !.end = Last(page).date]

Further(s, page) == [Turned(s, page) EXCEPT !.offset = @ + Len(page)]

Reads == UNCHANGED <<tables, now, handler, stopped>>

(* Mutant: the next page begins at the second of the last post. *)
handleFeedAgain ==
    Reads /\ \E s \in Asking("feed") :
        s.by = "below" /\ s.start = 0 /\ session' = From(s, FeedRange(s.end, 0, 0, PageSize))

handleFeed ==
    Reads /\ \E s \in Asking("feed") :
        s.by = "below" /\ s.start = 0 /\ session' = Below(s, FeedRange(s.end, 0, 0, PageSize))

(* The client names the bounds and the offset.                             *)
newsfeedGet ==
    Reads /\ \E s \in Asking("feed") :
        LET page == FeedRange(s.end, s.start, s.offset, PageSize)
        IN  \/ s.by = "below" /\ session' = Below(s, page)
            \/ s.by = "from" /\ session' = From(s, page)
            \/ s.by = "offset" /\ session' = Further(s, page)

wallGet ==
    Reads /\ \E s \in Asking("wall") : session' = Further(s, Posts(s.offset, PageSize))

(* What the session keeps when posts and friends become what they are      *)
(* after the step.                                                         *)
Watch ==
    \E mode \in {session.mode} :
        session' = IF session.done THEN session
                   ELSE [session EXCEPT !.awaited = @ \cap Listed(mode)',
                           !.removed = @ \/ (session.offset > 0 /\ ~(Listed(mode) \subseteq Listed(mode)'))]

-----------------------------------------------------------------------------
(* Writing.                                                                *)
Yet(statement) == Cardinality({h \in Handlers : \E i \in DOMAIN handler[h].todo : handler[h].todo[i] = statement})

MayTakeId == lastPostID + Yet("nextPostID") < MaxPosts

Starts(h, todo, owner, place, geo) ==
    /\ handler[h].todo = <<>>
    /\ handler' = [handler EXCEPT ![h] = [NoHandler EXCEPT !.todo = todo, !.owner = owner, !.place = place, !.geo = geo]]
    /\ UNCHANGED <<tables, now, session, stopped>>

NamesPlace(row) == row.place # NoPlace /\ ~row.geo

Naming == {h \in Handlers : NamesPlace(handler[h]) /\ "createPost" \in ToSet(handler[h].todo)}

MayName == Cardinality({q \in posts : NamesPlace(q)}) + Cardinality(Naming) < MaxNamed

(* The API posts on any wall, and names any place, there or not; who the   *)
(* author is makes no difference here.                                     *)
Post(h) ==
    /\ MayTakeId
    /\ \E owner \in Users :
          \/ Starts(h, wallPost, owner, NoPlace, FALSE)
          \/ MayName /\ \E place \in Places : Starts(h, wallPost, owner, place, FALSE)
          \/ Starts(h, handlePost, owner, NoPlace, FALSE)

(* The place of an id that no one has been given.                          *)
NewPlaces ==
    {p \in Places \ places :
        \A k \in Handlers : handler[k].place = p => \A i \in DOMAIN handler[k].todo : handler[k].todo[i] # "addPlace"}

(* A place that is not there is refused.                                   *)
Checkin(h) ==
    /\ MayTakeId
    /\ Cardinality(checkins) + Yet("insertCheckin") < MaxCheckins
    /\ \E owner \in Users, p \in Places :
          \/ p \in places /\ Starts(h, placesCheckin, owner, p, TRUE)
          \/ p \in places \cup NewPlaces /\ Starts(h, handleCheckin(p \notin places), owner, p, TRUE)

AddsPlace(h) == \E p \in NewPlaces : Starts(h, placesAdd, Reader, p, FALSE)

Does(h, statement) == handler[h].todo # <<>> /\ Head(handler[h].todo) = statement
Done(h) == IF Len(handler[h].todo) = 1 THEN NoHandler ELSE [handler[h] EXCEPT !.todo = Tail(@)]
GoesOn(h) == handler' = [handler EXCEPT ![h] = Done(h)]

Now(h) ==
    /\ Does(h, "now")
    /\ handler' = [handler EXCEPT ![h] = [Done(h) EXCEPT !.date = now]]
    /\ UNCHANGED <<tables, now, session, stopped>>

NextPostID(h) ==
    /\ Does(h, "nextPostID")
    /\ lastPostID' = lastPostID + 1
    /\ handler' = [handler EXCEPT ![h] = [Done(h) EXCEPT !.postID = lastPostID + 1]]
    /\ UNCHANGED <<posts, friends, places, count, checkins, now, session, stopped>>

CreatePost(h) ==
    LET w == handler[h]
    IN  /\ Does(h, "createPost")
        /\ posts' = posts \cup {[id |-> w.postID, owner |-> w.owner, date |-> w.date,
                                place |-> w.place, geo |-> w.geo, deleted |-> FALSE]}
        /\ GoesOn(h)
        /\ UNCHANGED <<lastPostID, friends, places, count, checkins, now, stopped>>
        /\ Watch

(* A row with the id is kept, with its check-ins.                          *)
AddPlace(h) ==
    /\ Does(h, "addPlace")
    /\ places' = places \cup {handler[h].place}
    /\ GoesOn(h)
    /\ UNCHANGED <<posts, lastPostID, friends, count, checkins, now, session, stopped>>

InsertCheckin(h) ==
    LET w == handler[h]
    IN  /\ Does(h, "insertCheckin")
        /\ checkins' = checkins \cup {[nr |-> Cardinality(checkins), uid |-> w.owner, place |-> w.place, date |-> w.date]}
        /\ GoesOn(h)
        /\ UNCHANGED <<posts, lastPostID, friends, places, count, now, session, stopped>>

CheckinsAt(p) == {c \in checkins : c.place = p}

(* UPDATE places SET checkins = checkins + 1.                              *)
CountCheckin(h) ==
    /\ Does(h, "countCheckin")
    /\ count' = [count EXCEPT ![handler[h].place] = @ + 1]
    /\ GoesOn(h)
    /\ UNCHANGED <<posts, lastPostID, friends, places, checkins, now, session, stopped>>

(* A statement fails, or the process is killed before it.                  *)
GiveUp(h) ==
    /\ handler[h].todo # <<>>
    /\ handler' = [handler EXCEPT ![h] = NoHandler]
    /\ stopped' = IF Does(h, "countCheckin") THEN [stopped EXCEPT ![handler[h].place] = @ + 1] ELSE stopped
    /\ UNCHANGED <<tables, now, session>>

(* wall.delete, or the delete button of the author or the owner.           *)
DeletePost(p) ==
    /\ posts' = {IF q = p THEN [q EXCEPT !.deleted = TRUE] ELSE q : q \in posts}
    /\ UNCHANGED <<lastPostID, friends, places, count, checkins, now, handler, stopped>>
    /\ Watch

(* The friends of Reader, see Friends.                                     *)
SetFriends(u) ==
    /\ friends' = IF u \in friends THEN friends \ {u} ELSE friends \cup {u}
    /\ UNCHANGED <<posts, lastPostID, places, count, checkins, now, handler, stopped>>
    /\ Watch

Tick ==
    /\ now < MaxTime
    /\ now' = now + 1
    /\ UNCHANGED <<tables, handler, session, stopped>>

Request(h) == Post(h) \/ Checkin(h) \/ AddsPlace(h)

Execute(h) ==
    \/ Now(h) \/ NextPostID(h) \/ CreatePost(h)
    \/ AddPlace(h) \/ InsertCheckin(h) \/ CountCheckin(h) \/ GiveUp(h)

Read == handleFeed \/ newsfeedGet \/ wallGet

FeedNext ==
    \/ \E h \in Handlers : Request(h) \/ Execute(h)
    \/ Read
    \/ \E p \in {q \in posts : ~q.deleted} : DeletePost(p)
    \/ \E u \in Users \ {Reader} : SetFriends(u)
    \/ Tick

FeedSpec == FeedInit /\ [][FeedNext]_feedVars

-----------------------------------------------------------------------------
(* Turning pages from below the second of the last post, as the web        *)
(* version does and a client of newsfeed.get may, never shows a post again,*)
(* nor a newer one after an older one, whatever is posted, deleted and     *)
(* befriended meanwhile: the pages together are in the order of the feed.  *)
FeedPagesInOrder ==
    session.by = "below" =>
        \A i \in 1 .. Len(session.shown) - 1 : NewerFirst(session.shown[i], session.shown[i + 1])

(* Who has turned all the pages has seen every post that was there all the *)
(* time and is not older than start_time, but: those of a second below     *)
(* which a next page began, and those that slid behind the offset because  *)
(* another post went away.  Who asks from the second of the last post      *)
(* misses none.  New posts hide none.                                      *)
PagesShowTheRest ==
    session.done =>
        \A p \in session.awaited :
            \/ p.date < session.start
            \/ session.by = "below" /\ p.date \in session.cuts
            \/ session.by = "offset" /\ session.removed

(* A place counts its check-ins, but those whose handler is, or was        *)
(* stopped, between the two statements: never more, and no others less.    *)
CheckinsAreCounted ==
    \A p \in Places :
        LET between == {h \in Handlers : handler[h].place = p /\ Does(h, "countCheckin")}
        IN  count[p] + Cardinality(between) + stopped[p] = Cardinality(CheckinsAt(p))

(* A post made by a check-in, which its attachment tells, has its check-in,*)
(* at a place that is there, and not of later than the post.  A post that  *)
(* names a place over wall.post need not.                                  *)
PlacedPostsHaveCheckins ==
    \A q \in posts : q.geo =>
        q.place \in places /\ \E c \in CheckinsAt(q.place) : c.uid = q.owner /\ c.date <= q.date
=============================================================================
