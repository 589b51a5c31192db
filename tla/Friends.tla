------------------------------ MODULE Friends ------------------------------
(***************************************************************************)
(* Friends and friend requests: internal/store/friends.go and the handlers *)
(* that use it, in internal/api/friends.go (friends.add, friends.delete)   *)
(* and internal/web/profile.go (/friend/add, /friend/accept,               *)
(* /friend/delete).                                                        *)
(*                                                                         *)
(* A friendship is two rows, one for each user, written by two statements. *)
(* Every SQL statement is one action; handlers interleave between them,    *)
(* and a killed process leaves what it had written.  A statement that      *)
(* fails (a full disk) is not modelled.                                    *)
(***************************************************************************)
EXTENDS Naturals

CONSTANTS
    Users,
    Handlers,   \* goroutines that serve requests
    Kinds,      \* the requests that are made
    Crashes,    \* may the process be killed?
    None        \* no user

AllKinds == {"apiAdd", "apiDelete", "webAdd", "webAccept", "webDelete"}

ASSUME KindsAssumption == Kinds \subseteq AllKinds /\ Crashes \in BOOLEAN
ASSUME UsersAssumption == None \notin Users

VARIABLES
    friends,    \* table friends: pairs <<uid, fid>>
    requests,   \* table friend_requests: pairs <<from_uid, to_uid>>
    handler,    \* what each handler does next, for whom
    wanted,     \* history: <<v, u>>, v asked or accepted u
    listed,     \* history: the requests there have been
    uninvited,  \* history: <<v, u>>, v accepted u, another, who had not asked
    past        \* history: what has happened, see Tags

wishes == <<wanted, listed, uninvited>>
vars == <<friends, requests, handler, wishes, past>>

Idle == [pc |-> "idle", kind |-> "none", me |-> None, uid |-> None]

Init ==
    /\ friends = {}
    /\ requests = {}
    /\ handler = [h \in Handlers |-> Idle]
    /\ wanted = {}
    /\ listed = {}
    /\ uninvited = {}
    /\ past = {}

-----------------------------------------------------------------------------
(* The history the properties ask about: a user of the web version, a     *)
(* deletion, two handlers at work at the same time, two of which one is to *)
(* delete a friendship, a killed process.                                  *)
Tags == {"web", "deletion", "overlap", "race", "crash"}

Others(h) == {k \in Handlers \ {h} : handler[k].pc # "idle"}

Happens(h, kind, pc) ==
    {tag \in Tags :
        \/ tag = "web" /\ kind \in {"webAdd", "webAccept", "webDelete"}
        \/ tag = "deletion" /\ pc = "deleteFriends"
        \/ tag = "overlap" /\ Others(h) # {}
        \/ tag = "race" /\ \E k \in Others(h) : "deleteFriends" \in {pc, handler[k].pc}}

(* v makes a request about u. *)

Starts(h, kind, v, u, pc) ==
    /\ kind \in Kinds
    /\ handler[h].pc = "idle"
    /\ handler' = [handler EXCEPT ![h] = [pc |-> pc, kind |-> kind, me |-> v, uid |-> u]]
    /\ past' = past \cup Happens(h, kind, pc)
    /\ UNCHANGED <<friends, requests, listed>>

friendsAdd(h, v, u) ==
    /\ Starts(h, "apiAdd", v, u, "areFriends")
    /\ wanted' = wanted \cup {<<v, u>>}
    /\ UNCHANGED uninvited

handleFriendAdd(h, v, u) ==
    /\ u # v
    /\ Starts(h, "webAdd", v, u, "areFriends")
    /\ wanted' = wanted \cup {<<v, u>>}
    /\ UNCHANGED uninvited

(* The handler does not look for the request: any user can be accepted.   *)
handleFriendAccept(h, v, u) ==
    /\ Starts(h, "webAccept", v, u, "upsertMine")
    /\ wanted' = wanted \cup {<<v, u>>}
    /\ uninvited' = IF u = v \/ <<u, v>> \in listed THEN uninvited
                    ELSE uninvited \cup {<<v, u>>}

friendsDelete(h, v, u) ==
    /\ Starts(h, "apiDelete", v, u, "deleteFriends")
    /\ UNCHANGED <<wanted, uninvited>>

(* Also declines a request. *)
handleFriendDelete(h, v, u) ==
    /\ Starts(h, "webDelete", v, u, "deleteFriends")
    /\ UNCHANGED <<wanted, uninvited>>

Goes(h, pc) ==
    handler' = [handler EXCEPT ![h] = IF pc = "idle" THEN Idle ELSE [@ EXCEPT !.pc = pc]]

Mine(h) == <<handler[h].me, handler[h].uid>>
Theirs(h) == <<handler[h].uid, handler[h].me>>

AreFriends(h) ==
    /\ handler[h].pc = "areFriends"
    /\ Goes(h, IF Mine(h) \in friends THEN "idle"
               ELSE IF handler[h].kind = "apiAdd" THEN "friendRequest" ELSE "saveRequest")
    /\ UNCHANGED <<friends, requests, wishes, past>>

(* Mutant: looks for the request of the caller. *)
FriendRequestOfCaller(h) ==
    /\ handler[h].pc = "friendRequest"
    /\ Goes(h, IF Mine(h) \in requests THEN "upsertMine" ELSE "saveRequest")
    /\ UNCHANGED <<friends, requests, wishes, past>>

(* Mutant: deletes the request before the friendship is stored. *)
FriendRequestTaken(h) ==
    /\ handler[h].pc = "friendRequest"
    /\ requests' = requests \ {Theirs(h)}
    /\ Goes(h, IF Theirs(h) \in requests THEN "upsertMine" ELSE "saveRequest")
    /\ UNCHANGED <<friends, wishes, past>>

(* friends.add accepts the request of the other user if there is one. *)
FriendRequest(h) ==
    /\ handler[h].pc = "friendRequest"
    /\ Goes(h, IF Theirs(h) \in requests THEN "upsertMine" ELSE "saveRequest")
    /\ UNCHANGED <<friends, requests, wishes, past>>

SaveFriendRequest(h) ==
    /\ handler[h].pc = "saveRequest"
    /\ requests' = requests \cup {Mine(h)}
    /\ listed' = listed \cup {Mine(h)}
    /\ Goes(h, "idle")
    /\ UNCHANGED <<friends, wanted, uninvited, past>>

(* INSERT OR IGNORE, unless the users are the same. *)
UpsertFriend(pair) ==
    friends' = IF pair[1] = pair[2] THEN friends ELSE friends \cup {pair}

UpsertMine(h) ==
    /\ handler[h].pc = "upsertMine"
    /\ UpsertFriend(Mine(h))
    /\ Goes(h, "upsertTheirs")
    /\ UNCHANGED <<requests, wishes, past>>

(* Mutant: the caller's row is written again. *)
UpsertMineAgain(h) ==
    /\ handler[h].pc = "upsertTheirs"
    /\ UpsertFriend(Mine(h))
    /\ Goes(h, "deleteRequest")
    /\ UNCHANGED <<requests, wishes, past>>

UpsertTheirs(h) ==
    /\ handler[h].pc = "upsertTheirs"
    /\ UpsertFriend(Theirs(h))
    /\ Goes(h, "deleteRequest")
    /\ UNCHANGED <<requests, wishes, past>>

DeleteFriend(h) ==
    /\ handler[h].pc = "deleteFriends"
    /\ friends' = friends \ {Mine(h), Theirs(h)}
    /\ Goes(h, "deleteRequest")
    /\ UNCHANGED <<requests, wishes, past>>

(* Mutant: deletes the request of the caller. *)
DeleteRequestOfCaller(h) ==
    /\ handler[h].pc = "deleteRequest"
    /\ requests' = requests \ {Mine(h)}
    /\ Goes(h, "idle")
    /\ UNCHANGED <<friends, wishes, past>>

(* The last statement of accepting, and of Store.DeleteFriend. *)
DeleteFriendRequest(h) ==
    /\ handler[h].pc = "deleteRequest"
    /\ requests' = requests \ {Theirs(h)}
    /\ Goes(h, "idle")
    /\ UNCHANGED <<friends, wishes, past>>

Crash ==
    /\ Crashes
    /\ handler' = [h \in Handlers |-> Idle]
    /\ past' = past \cup {"crash"}
    /\ UNCHANGED <<friends, requests, wishes>>

Execute(h) ==
    \/ AreFriends(h) \/ FriendRequest(h) \/ SaveFriendRequest(h)
    \/ UpsertMine(h) \/ UpsertTheirs(h)
    \/ DeleteFriend(h) \/ DeleteFriendRequest(h)

Next ==
    \/ \E h \in Handlers :
          \/ \E v, u \in Users :
                \/ friendsAdd(h, v, u) \/ handleFriendAdd(h, v, u)
                \/ handleFriendAccept(h, v, u)
                \/ friendsDelete(h, v, u) \/ handleFriendDelete(h, v, u)
          \/ Execute(h)
    \/ Crash

Spec == Init /\ [][Next]_vars

-----------------------------------------------------------------------------
Pairs == Users \X Users

Pcs == {"idle", "areFriends", "friendRequest", "saveRequest", "upsertMine",
        "upsertTheirs", "deleteFriends", "deleteRequest"}

HandlerType == [pc : Pcs, kind : AllKinds \cup {"none"},
                me : Users \cup {None}, uid : Users \cup {None}]

(* Type invariant.  Nobody is a friend of himself, though friends.add lets *)
(* users send themselves a request.                                        *)
TypeOK ==
    /\ friends \subseteq {pair \in Pairs : pair[1] # pair[2]}
    /\ requests \subseteq listed
    /\ listed \subseteq Pairs
    /\ wanted \subseteq Pairs
    /\ uninvited \subseteq Pairs
    /\ past \subseteq Tags
    /\ handler \in [Handlers -> HandlerType]
    /\ \A h \in Handlers :
         handler[h].pc # "idle" => handler[h].me \in Users /\ handler[h].uid \in Users

Swap(pair) == <<pair[2], pair[1]>>

(* Both users wanted a friendship, whatever the order in which requests,   *)
(* acceptances and deletions of either run, and wherever they were killed: *)
(* a handler that read a request acts on it later, when it may be gone.    *)
(* The one way to a friend who never asked is /friend/accept for a user    *)
(* who had sent no request; friends.add does look for the request, and     *)
(* makes no such friend.                                                   *)
FriendsWanted ==
    \A pair \in friends :
        \/ pair \in wanted /\ Swap(pair) \in wanted
        \/ pair \in uninvited \/ Swap(pair) \in uninvited

HalfListed ==
    \A pair \in friends \ uninvited : Swap(pair) \notin friends => Swap(pair) \in requests

(* As long as no friend is deleted, a friendship that was stored for one   *)
(* user only (the process was killed between the two statements) still has *)
(* its request, from the user without a friend: it is on the other one's   *)
(* page, and accepting it completes the friendship.  Unless there never    *)
(* was one when that other one accepted it (web/profile.go does not look). *)
HalfFriendshipIsListed == "deletion" \notin past => HalfListed

Quiet == \A h \in Handlers : handler[h].pc = "idle"

(* Once no request is being served a friendship is stored for both users,  *)
(* however many handlers add and accept at once, and whatever was deleted  *)
(* while nothing else was going on.  (A deletion between the two           *)
(* statements of an acceptance leaves a half.)                             *)
FriendshipIsMutual ==
    Quiet /\ past \cap {"race", "crash"} = {} =>
        \A pair \in friends : Swap(pair) \in friends

(* Served one at a time, the methods of the API never keep a request that  *)
(* was answered: no request between friends, no two crossing requests.     *)
NoAnsweredRequest ==
    Quiet /\ past \cap {"web", "overlap", "crash"} = {} =>
        \A pair \in requests :
            /\ pair \notin friends /\ Swap(pair) \notin friends
            /\ pair[1] # pair[2] => Swap(pair) \notin requests
-----------------------------------------------------------------------------
(* The inductive invariants behind them. *)

(* FriendsWanted: a handler about to store a friendship knows it is wanted,*)
(* unless it is the accept of a user who had not asked.                    *)
ListedWanted ==
    /\ listed \subseteq wanted
    /\ \A h \in Handlers :
         /\ handler[h].pc \in {"areFriends", "friendRequest", "saveRequest",
                               "upsertMine", "upsertTheirs"} => Mine(h) \in wanted
         /\ handler[h].pc \in {"upsertMine", "upsertTheirs"} =>
               Theirs(h) \in wanted \/ Mine(h) \in uninvited

(* HalfFriendshipIsListed, FriendshipIsMutual: a request is only deleted   *)
(* when the friendship is complete.                                        *)
Complete(pair) ==
    pair[1] = pair[2] \/ (pair \in friends /\ Swap(pair) \in friends)

RequestOrFriends ==
    /\ \A pair \in listed : pair \in requests \/ Complete(pair)
    /\ \A h \in Handlers :
         /\ handler[h].pc # "deleteFriends"
         /\ handler[h].pc = "upsertMine" =>
               Theirs(h) \in requests \/ Complete(Mine(h)) \/ Mine(h) \in uninvited
         /\ handler[h].pc = "upsertTheirs" =>
               /\ Mine(h) \in friends \/ handler[h].me = handler[h].uid
               /\ Theirs(h) \in requests \/ Complete(Mine(h)) \/ Mine(h) \in uninvited
         /\ handler[h].pc = "deleteRequest" => Complete(Mine(h))

(* A half-stored friendship has a handler about to store the other half,   *)
(* and a handler about to delete works alone.                              *)
HalfIsBeingCompleted ==
    \A pair \in friends :
        Swap(pair) \notin friends =>
            \E h \in Handlers : handler[h].pc = "upsertTheirs" /\ Mine(h) = pair

Underway ==
    \A h \in Handlers :
        /\ handler[h].pc = "upsertTheirs" => Mine(h) \in friends \/ handler[h].me = handler[h].uid
        /\ handler[h].pc = "deleteFriends" => Others(h) = {}
=============================================================================
