--------------------------- MODULE FriendsProofs ---------------------------
(* Proofs about friends and friend requests, for every set of users and    *)
(* handlers.                                                               *)
EXTENDS Friends, TLAPS

LEMMA PairFacts ==
    ASSUME NEW v \in Users, NEW u \in Users
    PROVE  /\ <<v, u>> \in Pairs
           /\ <<v, u>>[1] = v /\ <<v, u>>[2] = u
           /\ Swap(<<v, u>>) = <<u, v>>
  BY DEF Pairs, Swap

LEMMA IdleType == Idle \in HandlerType /\ Idle.pc = "idle"
  BY DEF Idle, HandlerType, Pcs

(* What a step of a handler does to the handlers. *)
LEMMA GoesStep ==
    ASSUME handler \in [Handlers -> HandlerType], NEW h \in Handlers,
           NEW pc \in Pcs, Goes(h, pc)
    PROVE  /\ handler' \in [Handlers -> HandlerType]
           /\ handler'[h].pc = pc
           /\ pc # "idle" => /\ handler'[h].kind = handler[h].kind
                             /\ handler'[h].me = handler[h].me
                             /\ handler'[h].uid = handler[h].uid
           /\ \A k \in Handlers : k # h => handler'[k] = handler[k]
  <1> DEFINE new == IF pc = "idle" THEN Idle ELSE [handler[h] EXCEPT !.pc = pc]
  <1>1. handler[h] \in HandlerType
    OBVIOUS
  <1>2. /\ new \in HandlerType /\ new.pc = pc
        /\ pc # "idle" => /\ new.kind = handler[h].kind /\ new.me = handler[h].me
                          /\ new.uid = handler[h].uid
    BY <1>1, IdleType DEF HandlerType
  <1>3. handler' = [handler EXCEPT ![h] = new]
    BY DEF Goes
  <1> HIDE DEF new
  <1> QED  BY <1>2, <1>3

LEMMA StartsStep ==
    ASSUME handler \in [Handlers -> HandlerType], NEW h \in Handlers,
           NEW kind \in AllKinds, NEW v \in Users, NEW u \in Users, NEW pc \in Pcs,
           Starts(h, kind, v, u, pc)
    PROVE  /\ handler' \in [Handlers -> HandlerType]
           /\ handler'[h].pc = pc /\ handler'[h].me = v /\ handler'[h].uid = u
           /\ \A k \in Handlers : k # h => handler'[k] = handler[k]
           /\ handler[h].pc = "idle"
           /\ past' \subseteq past \cup Tags
           /\ UNCHANGED <<friends, requests, listed>>
  <1> DEFINE new == [pc |-> pc, kind |-> kind, me |-> v, uid |-> u]
  <1>1. new \in HandlerType /\ new.pc = pc /\ new.me = v /\ new.uid = u
    BY DEF HandlerType
  <1>2. handler' = [handler EXCEPT ![h] = new]
    BY DEF Starts
  <1> HIDE DEF new
  <1> QED  BY <1>1, <1>2 DEF Starts, Happens

-----------------------------------------------------------------------------
LEMMA InitType == Init => TypeOK
  BY IdleType DEF Init, TypeOK

LEMMA TypeStep == TypeOK /\ [Next]_vars => TypeOK'
  <1> SUFFICES ASSUME TypeOK, [Next]_vars PROVE TypeOK'
    OBVIOUS
  <1>t. handler \in [Handlers -> HandlerType]
    BY DEF TypeOK
  <1>u. ASSUME NEW h \in Handlers, handler[h].pc # "idle"
        PROVE  /\ handler[h].me \in Users /\ handler[h].uid \in Users
               /\ Mine(h) \in Pairs /\ Theirs(h) \in Pairs
    <2>1. handler[h].me \in Users /\ handler[h].uid \in Users
      BY <1>u DEF TypeOK
    <2> QED  BY <2>1, PairFacts DEF Mine, Theirs
  <1>1. ASSUME NEW h \in Handlers, NEW v \in Users, NEW u \in Users,
               NEW kind \in AllKinds, NEW pc \in Pcs, Starts(h, kind, v, u, pc),
               wanted' \in {wanted, wanted \cup {<<v, u>>}},
               uninvited' \in {uninvited, uninvited \cup {<<v, u>>}}
        PROVE  TypeOK'
    <2>1. /\ handler' \in [Handlers -> HandlerType]
          /\ handler'[h].pc = pc /\ handler'[h].me = v /\ handler'[h].uid = u
          /\ \A k \in Handlers : k # h => handler'[k] = handler[k]
          /\ past' \subseteq past \cup Tags
          /\ UNCHANGED <<friends, requests, listed>>
      BY <1>t, <1>1, StartsStep
    <2>2. wanted' \subseteq Pairs /\ uninvited' \subseteq Pairs
      BY <1>1, PairFacts DEF TypeOK
    <2> QED  BY <2>1, <2>2 DEF TypeOK
  <1>2. ASSUME NEW h \in Handlers, NEW pc \in Pcs, Goes(h, pc), handler[h].pc # "idle",
               friends' \subseteq {pair \in Pairs : pair[1] # pair[2]},
               requests' \subseteq listed', listed' \subseteq Pairs, wanted' = wanted,
               uninvited' = uninvited, past' = past
        PROVE  TypeOK'
    <2>1. /\ handler' \in [Handlers -> HandlerType]
          /\ handler'[h].pc = pc
          /\ pc # "idle" => handler'[h].me = handler[h].me /\ handler'[h].uid = handler[h].uid
          /\ \A k \in Handlers : k # h => handler'[k] = handler[k]
      BY <1>t, <1>2, GoesStep
    <2>2. \A k \in Handlers :
            handler'[k].pc # "idle" => handler'[k].me \in Users /\ handler'[k].uid \in Users
      BY <1>u, <1>2, <2>1 DEF TypeOK
    <2> QED  BY <1>2, <2>1, <2>2 DEF TypeOK
  <1>3. ASSUME NEW h \in Handlers, Execute(h) PROVE TypeOK'
    <2>1. handler[h].pc # "idle"
      BY <1>3 DEF Execute, AreFriends, FriendRequest, SaveFriendRequest, UpsertMine, UpsertTheirs,
                  DeleteFriend, DeleteFriendRequest
    <2>2. \E pc \in Pcs : Goes(h, pc)
      BY <1>3 DEF Execute, AreFriends, FriendRequest, SaveFriendRequest, UpsertMine, UpsertTheirs,
                  DeleteFriend, DeleteFriendRequest, Pcs
    <2>3. friends' \subseteq {pair \in Pairs : pair[1] # pair[2]}
      <3>1. CASE UpsertMine(h) \/ UpsertTheirs(h)
        BY <1>u, <2>1, <3>1 DEF UpsertMine, UpsertTheirs, UpsertFriend, TypeOK
      <3>2. CASE friends' \subseteq friends
        BY <3>2 DEF TypeOK
      <3> QED  BY <1>3, <3>1, <3>2 DEF Execute, AreFriends, FriendRequest, SaveFriendRequest,
                  DeleteFriend, DeleteFriendRequest
    <2>4. /\ requests' \subseteq listed' /\ listed' \subseteq Pairs
          /\ wanted' = wanted /\ uninvited' = uninvited /\ past' = past
      BY <1>3, <1>u, <2>1 DEF Execute, AreFriends, FriendRequest, SaveFriendRequest, UpsertMine,
                  UpsertTheirs, DeleteFriend, DeleteFriendRequest, TypeOK, wishes
    <2> QED  BY <1>2, <2>1, <2>2, <2>3, <2>4
  <1>4. ASSUME NEW h \in Handlers, NEW v \in Users, NEW u \in Users,
               \/ friendsAdd(h, v, u) \/ handleFriendAdd(h, v, u)
               \/ handleFriendAccept(h, v, u) \/ friendsDelete(h, v, u)
               \/ handleFriendDelete(h, v, u)
        PROVE  TypeOK'
    <2>1. \E kind \in AllKinds, pc \in Pcs : Starts(h, kind, v, u, pc)
      BY <1>4 DEF friendsAdd, handleFriendAdd, handleFriendAccept, friendsDelete, handleFriendDelete,
             AllKinds, Pcs
    <2>2. /\ wanted' \in {wanted, wanted \cup {<<v, u>>}}
          /\ uninvited' \in {uninvited, uninvited \cup {<<v, u>>}}
      BY <1>4 DEF friendsAdd, handleFriendAdd, handleFriendAccept, friendsDelete, handleFriendDelete
    <2> QED  BY <1>1, <2>1, <2>2
  <1>5. CASE Crash
    BY <1>5, IdleType DEF Crash, TypeOK, Tags, wishes
  <1>6. CASE UNCHANGED vars
    BY <1>6 DEF vars, wishes, TypeOK
  <1> QED  BY <1>3, <1>4, <1>5, <1>6 DEF Next

(* The tables hold pairs of users, and every handler at work serves two.   *)
THEOREM TypeCorrect == Spec => []TypeOK
  <1> QED  BY InitType, TypeStep, PTL DEF Spec

-----------------------------------------------------------------------------
(* What the steps of one handler do, for the invariants below: the other   *)
(* handlers stay, and it keeps the users it works for.                     *)

LEMMA HandlerPairs ==
    ASSUME TypeOK, NEW h \in Handlers, handler[h].pc # "idle"
    PROVE  /\ handler[h].me \in Users /\ handler[h].uid \in Users
           /\ Mine(h) \in Pairs /\ Theirs(h) \in Pairs
           /\ Swap(Mine(h)) = Theirs(h) /\ Swap(Theirs(h)) = Mine(h)
           /\ Mine(h)[1] = handler[h].me /\ Mine(h)[2] = handler[h].uid
           /\ Theirs(h)[1] = handler[h].uid /\ Theirs(h)[2] = handler[h].me
  BY PairFacts DEF TypeOK, Mine, Theirs

LEMMA ExecuteStep ==
    ASSUME TypeOK, NEW h \in Handlers, NEW pc \in Pcs, Goes(h, pc)
    PROVE  /\ handler'[h].pc = pc
           /\ pc # "idle" => Mine(h)' = Mine(h) /\ Theirs(h)' = Theirs(h)
           /\ \A k \in Handlers \ {h} :
                handler'[k] = handler[k] /\ Mine(k)' = Mine(k) /\ Theirs(k)' = Theirs(k)
  <1>1. /\ handler'[h].pc = pc
        /\ pc # "idle" => handler'[h].me = handler[h].me /\ handler'[h].uid = handler[h].uid
        /\ \A k \in Handlers : k # h => handler'[k] = handler[k]
    BY GoesStep DEF TypeOK
  <1> QED  BY <1>1 DEF Mine, Theirs

LEMMA StartStep ==
    ASSUME TypeOK, NEW h \in Handlers, NEW kind \in AllKinds,
           NEW v \in Users, NEW u \in Users, NEW pc \in Pcs, Starts(h, kind, v, u, pc)
    PROVE  /\ handler'[h].pc = pc
           /\ Mine(h)' = <<v, u>> /\ Theirs(h)' = <<u, v>>
           /\ \A k \in Handlers \ {h} :
                handler'[k] = handler[k] /\ Mine(k)' = Mine(k) /\ Theirs(k)' = Theirs(k)
           /\ handler[h].pc = "idle"
           /\ UNCHANGED <<friends, requests, listed>>
  <1>1. /\ handler'[h].pc = pc /\ handler'[h].me = v /\ handler'[h].uid = u
        /\ \A k \in Handlers : k # h => handler'[k] = handler[k]
        /\ handler[h].pc = "idle" /\ UNCHANGED <<friends, requests, listed>>
    BY StartsStep DEF TypeOK
  <1> QED  BY <1>1 DEF Mine, Theirs

-----------------------------------------------------------------------------
(* FriendsWanted. *)

WantedInv == ListedWanted /\ FriendsWanted

LEMMA InitWanted == Init => WantedInv
  BY DEF Init, WantedInv, ListedWanted, FriendsWanted, Idle

LEMMA WantedStep == TypeOK /\ WantedInv /\ [Next]_vars => WantedInv'
  <1> SUFFICES ASSUME TypeOK, WantedInv, [Next]_vars PROVE WantedInv'
    OBVIOUS
  <1> DEFINE Adding == {"areFriends", "friendRequest", "saveRequest", "upsertMine", "upsertTheirs"}
             Accepting == {"upsertMine", "upsertTheirs"}
             Willing(pair) == \/ pair \in wanted /\ Swap(pair) \in wanted
                              \/ pair \in uninvited \/ Swap(pair) \in uninvited
  <1>1. ASSUME NEW h \in Handlers, NEW v \in Users, NEW u \in Users,
               NEW kind \in AllKinds, NEW pc \in Pcs, Starts(h, kind, v, u, pc),
               wanted' \in {wanted, wanted \cup {<<v, u>>}},
               uninvited \subseteq uninvited',
               pc \in Adding => <<v, u>> \in wanted',
               pc \in Accepting => <<u, v>> \in wanted' \/ <<v, u>> \in uninvited'
        PROVE  WantedInv'
    <2>1. /\ handler'[h].pc = pc
          /\ Mine(h)' = <<v, u>> /\ Theirs(h)' = <<u, v>>
          /\ \A k \in Handlers \ {h} :
                handler'[k] = handler[k] /\ Mine(k)' = Mine(k) /\ Theirs(k)' = Theirs(k)
          /\ UNCHANGED <<friends, requests, listed>>
      BY <1>1, StartStep
    <2> QED  BY <1>1, <2>1 DEF WantedInv, ListedWanted, FriendsWanted
  <1>2. ASSUME NEW h \in Handlers, NEW pc \in Pcs, Goes(h, pc), handler[h].pc # "idle",
               pc \in Adding => Mine(h) \in wanted,
               pc \in Accepting => Theirs(h) \in wanted \/ Mine(h) \in uninvited,
               listed' \subseteq wanted, wanted' = wanted, uninvited' = uninvited,
               \A pair \in friends' : Willing(pair)
        PROVE  WantedInv'
    <2>1. /\ handler'[h].pc = pc
          /\ pc # "idle" => Mine(h)' = Mine(h) /\ Theirs(h)' = Theirs(h)
          /\ \A k \in Handlers \ {h} :
                handler'[k] = handler[k] /\ Mine(k)' = Mine(k) /\ Theirs(k)' = Theirs(k)
      BY <1>2, ExecuteStep
    <2> QED  BY <1>2, <2>1 DEF WantedInv, ListedWanted, FriendsWanted
  <1>3. ASSUME NEW h \in Handlers, Execute(h) PROVE WantedInv'
    <2>1. handler[h].pc # "idle"
      BY <1>3 DEF Execute, AreFriends, FriendRequest, SaveFriendRequest, UpsertMine, UpsertTheirs,
                  DeleteFriend, DeleteFriendRequest
    <2>h. /\ Swap(Mine(h)) = Theirs(h) /\ Swap(Theirs(h)) = Mine(h)
          /\ handler[h].pc \in Adding => Mine(h) \in wanted
          /\ handler[h].pc \in Accepting => Theirs(h) \in wanted \/ Mine(h) \in uninvited
      BY <2>1, HandlerPairs DEF WantedInv, ListedWanted
    <2>f. listed \subseteq wanted /\ requests \subseteq wanted
          /\ \A pair \in friends : Willing(pair)
      BY DEF WantedInv, ListedWanted, FriendsWanted, TypeOK
    <2>2. CASE AreFriends(h)
      <3>1. \E pc \in {"idle", "friendRequest", "saveRequest"} : Goes(h, pc)
        BY <2>2 DEF AreFriends
      <3> QED  BY <1>2, <2>1, <2>2, <2>h, <2>f, <3>1 DEF AreFriends, Pcs, wishes
    <2>3. CASE FriendRequest(h)
      <3>1. CASE Theirs(h) \in requests
        BY <1>2, <2>1, <2>3, <2>h, <2>f, <3>1 DEF FriendRequest, Pcs, wishes
      <3>2. CASE Theirs(h) \notin requests
        BY <1>2, <2>1, <2>3, <2>h, <2>f, <3>2 DEF FriendRequest, Pcs, wishes
      <3> QED  BY <3>1, <3>2
    <2>4. CASE SaveFriendRequest(h)
      BY <1>2, <2>1, <2>4, <2>h, <2>f DEF SaveFriendRequest, Pcs, wishes
    <2>5. CASE UpsertMine(h)
      BY <1>2, <2>1, <2>5, <2>h, <2>f DEF UpsertMine, UpsertFriend, Pcs, wishes
    <2>6. CASE UpsertTheirs(h)
      BY <1>2, <2>1, <2>6, <2>h, <2>f DEF UpsertTheirs, UpsertFriend, Pcs, wishes
    <2>7. CASE DeleteFriend(h)
      BY <1>2, <2>1, <2>7, <2>f DEF DeleteFriend, Pcs, wishes
    <2>8. CASE DeleteFriendRequest(h)
      BY <1>2, <2>1, <2>8, <2>f DEF DeleteFriendRequest, Pcs, wishes
    <2> QED  BY <1>3, <2>2, <2>3, <2>4, <2>5, <2>6, <2>7, <2>8 DEF Execute
  <1>4. ASSUME NEW h \in Handlers, NEW v \in Users, NEW u \in Users,
               \/ friendsAdd(h, v, u) \/ handleFriendAdd(h, v, u)
               \/ handleFriendAccept(h, v, u) \/ friendsDelete(h, v, u)
               \/ handleFriendDelete(h, v, u)
        PROVE  WantedInv'
    <2>1. CASE friendsAdd(h, v, u)
      BY <1>1, <2>1 DEF friendsAdd, AllKinds, Pcs
    <2>2. CASE handleFriendAdd(h, v, u)
      BY <1>1, <2>2 DEF handleFriendAdd, AllKinds, Pcs
    <2>3. CASE handleFriendAccept(h, v, u)
      <3>1. <<u, v>> \in wanted' \/ <<v, u>> \in uninvited'
        BY <2>3 DEF handleFriendAccept, WantedInv, ListedWanted
      <3> QED  BY <1>1, <2>3, <3>1 DEF handleFriendAccept, AllKinds, Pcs
    <2>4. CASE friendsDelete(h, v, u) \/ handleFriendDelete(h, v, u)
      BY <1>1, <2>4 DEF friendsDelete, handleFriendDelete,
             AllKinds, Pcs
    <2> QED  BY <1>4, <2>1, <2>2, <2>3, <2>4
  <1>5. CASE Crash
    BY <1>5, IdleType DEF Crash, WantedInv, ListedWanted, FriendsWanted, wishes
  <1>6. CASE UNCHANGED vars
    BY <1>6 DEF vars, WantedInv, ListedWanted, FriendsWanted, Mine, Theirs, wishes
  <1> QED  BY <1>3, <1>4, <1>5, <1>6 DEF Next

(* No interleaving and no crash makes friends of users who did not both    *)
(* ask or accept, unless one accepted the other unasked.                   *)
THEOREM FriendsAreWanted == Spec => []FriendsWanted
  <1>1. WantedInv => FriendsWanted
    BY DEF WantedInv
  <1> QED  BY <1>1, InitWanted, WantedStep, TypeCorrect, PTL DEF Spec

-----------------------------------------------------------------------------
(* What has happened stays so. *)
LEMMA PastGrows == [Next]_vars => past \subseteq past'
  <1>1. ASSUME NEW h \in Handlers, Execute(h) PROVE past' = past
    BY <1>1 DEF Execute, AreFriends, FriendRequest, SaveFriendRequest, UpsertMine, UpsertTheirs,
                DeleteFriend, DeleteFriendRequest
  <1>2. ASSUME NEW h \in Handlers, NEW v \in Users, NEW u \in Users,
               \/ friendsAdd(h, v, u) \/ handleFriendAdd(h, v, u)
               \/ handleFriendAccept(h, v, u) \/ friendsDelete(h, v, u)
               \/ handleFriendDelete(h, v, u)
        PROVE  past \subseteq past'
    <2>1. \E kind \in AllKinds, pc \in Pcs : Starts(h, kind, v, u, pc)
      BY <1>2 DEF friendsAdd, handleFriendAdd, handleFriendAccept, friendsDelete, handleFriendDelete,
             AllKinds, Pcs
    <2> QED  BY <2>1 DEF Starts
  <1> QED  BY <1>1, <1>2 DEF Next, Crash, vars

(* HalfFriendshipIsListed: without deletions friendships only grow, and a  *)
(* request goes when its friendship is complete.                           *)

HalfInv == RequestOrFriends /\ HalfListed

HalfSafe == "deletion" \notin past => HalfInv

LEMMA InitHalf == Init => HalfInv
  BY DEF Init, HalfInv, RequestOrFriends, HalfListed, Idle

LEMMA CompleteSwap ==
    ASSUME NEW v \in Users, NEW u \in Users
    PROVE  Complete(<<v, u>>) <=> Complete(<<u, v>>)
  BY PairFacts DEF Complete

LEMMA HalfStep ==
    ASSUME "deletion" \notin past', TypeOK, HalfInv, [Next]_vars
    PROVE  HalfInv' /\ friends \subseteq friends'
  <1> DEFINE Kept == friends \subseteq friends'
             Promise(h) ==
                /\ handler[h].pc # "deleteFriends"
                /\ handler[h].pc = "upsertMine" =>
                      Theirs(h) \in requests \/ Complete(Mine(h)) \/ Mine(h) \in uninvited
                /\ handler[h].pc = "upsertTheirs" =>
                      /\ Mine(h) \in friends \/ handler[h].me = handler[h].uid
                      /\ Theirs(h) \in requests \/ Complete(Mine(h)) \/ Mine(h) \in uninvited
                /\ handler[h].pc = "deleteRequest" => Complete(Mine(h))
  <1>p. \A h \in Handlers : Promise(h)
    BY DEF HalfInv, RequestOrFriends
  <1>l. \A pair \in listed : pair \in requests \/ Complete(pair)
    BY DEF HalfInv, RequestOrFriends
  <1>i. ASSUME NEW k \in Handlers, handler'[k] = handler[k], friends \subseteq friends',
               requests \subseteq requests', uninvited \subseteq uninvited'
        PROVE  Promise(k)'
    BY <1>i, <1>p DEF Complete, Mine, Theirs
  <1>1. ASSUME NEW h \in Handlers, NEW v \in Users, NEW u \in Users,
               \/ friendsAdd(h, v, u) \/ handleFriendAdd(h, v, u) \/ handleFriendAccept(h, v, u)
        PROVE  HalfInv' /\ Kept
    <2>1. \E kind \in AllKinds, pc \in {"areFriends", "upsertMine"} :
             /\ Starts(h, kind, v, u, pc)
             /\ pc = "upsertMine" => u = v \/ <<u, v>> \in listed \/ <<v, u>> \in uninvited'
      BY <1>1 DEF friendsAdd, handleFriendAdd, handleFriendAccept, AllKinds
    <2> PICK pc \in {"areFriends", "upsertMine"} :
             /\ \E kind \in AllKinds : Starts(h, kind, v, u, pc)
             /\ pc = "upsertMine" => u = v \/ <<u, v>> \in listed \/ <<v, u>> \in uninvited'
      BY <2>1
    <2>u. uninvited \subseteq uninvited'
      BY <1>1 DEF friendsAdd, handleFriendAdd, handleFriendAccept
    <2>2. /\ handler'[h].pc = pc
          /\ Mine(h)' = <<v, u>> /\ Theirs(h)' = <<u, v>>
          /\ \A k \in Handlers \ {h} : handler'[k] = handler[k]
          /\ UNCHANGED <<friends, requests, listed>>
      BY StartStep DEF Pcs
    <2>3. Promise(h)'
      <3>1. CASE pc = "areFriends"
        BY <2>2, <3>1
      <3>2. CASE pc = "upsertMine"
        <4>1. <<u, v>> \in requests \/ Complete(<<v, u>>) \/ <<v, u>> \in uninvited'
          BY <3>2, <1>l, CompleteSwap, PairFacts DEF Complete
        <4>2. <<u, v>> \in requests' \/ Complete(<<v, u>>)' \/ <<v, u>> \in uninvited'
          BY <2>2, <4>1 DEF Complete
        <4>3. Complete(<<v, u>>)' <=> Complete(Mine(h))'
          BY <2>2 DEF Complete
        <4> QED  BY <2>2, <3>2, <4>2, <4>3
      <3> QED  BY <3>1, <3>2
    <2>4. \A k \in Handlers \ {h} : Promise(k)'
      BY <1>i, <2>2, <2>u
    <2>5. RequestOrFriends'
      BY <1>l, <2>2, <2>3, <2>4 DEF RequestOrFriends, Complete
    <2> QED  BY <2>2, <2>5, <2>u DEF HalfInv, HalfListed
  <1>2. ASSUME NEW h \in Handlers, NEW v \in Users, NEW u \in Users
        PROVE  ~friendsDelete(h, v, u) /\ ~handleFriendDelete(h, v, u)
    BY DEF friendsDelete, handleFriendDelete, Starts, Happens, Tags
  <1>3. ASSUME NEW h \in Handlers, Execute(h) PROVE HalfInv' /\ Kept
    <2>1. handler[h].pc # "idle"
      BY <1>3 DEF Execute, AreFriends, FriendRequest, SaveFriendRequest, UpsertMine, UpsertTheirs,
                  DeleteFriend, DeleteFriendRequest
    <2>h. /\ Swap(Mine(h)) = Theirs(h) /\ Swap(Theirs(h)) = Mine(h)
          /\ Mine(h)[1] = handler[h].me /\ Mine(h)[2] = handler[h].uid
          /\ Theirs(h)[1] = handler[h].uid /\ Theirs(h)[2] = handler[h].me
      BY <2>1, HandlerPairs
    <2>g. ASSUME NEW pc \in Pcs, Goes(h, pc), Kept, requests \subseteq requests', uninvited' = uninvited,
                 \A pair \in listed' : pair \in requests' \/ Complete(pair)',
                 HalfListed',
                 pc \in {"idle", "friendRequest", "saveRequest"} \/ Promise(h)'
          PROVE  HalfInv' /\ Kept
      <3>1. /\ handler'[h].pc = pc
            /\ \A k \in Handlers \ {h} : handler'[k] = handler[k]
        BY <2>g, ExecuteStep
      <3>2. Promise(h)'
        BY <2>g, <3>1
      <3>3. \A k \in Handlers \ {h} : Promise(k)'
        BY <1>i, <2>g, <3>1
      <3> QED  BY <2>g, <3>2, <3>3 DEF HalfInv, RequestOrFriends
    <2>2. CASE AreFriends(h)
      <3>1. \E pc \in {"idle", "friendRequest", "saveRequest"} : Goes(h, pc)
        BY <2>2 DEF AreFriends
      <3>2. UNCHANGED <<friends, requests, listed, uninvited>>
        BY <2>2 DEF AreFriends, wishes
      <3> QED  BY <1>l, <2>g, <3>1, <3>2 DEF Pcs, Complete, HalfInv, HalfListed
    <2>3. CASE FriendRequest(h)
      <3>1. UNCHANGED <<friends, requests, listed, uninvited>>
        BY <2>3 DEF FriendRequest, wishes
      <3>2. CASE Theirs(h) \in requests
        <4>1. Goes(h, "upsertMine")
          BY <2>3, <3>2 DEF FriendRequest
        <4>2. handler'[h].pc = "upsertMine" /\ Theirs(h)' = Theirs(h)
          BY <4>1, ExecuteStep DEF Pcs
        <4>3. Promise(h)'
          BY <3>1, <3>2, <4>2
        <4> QED  BY <1>l, <2>g, <3>1, <4>1, <4>3 DEF Pcs, Complete, HalfInv, HalfListed
      <3>3. CASE Theirs(h) \notin requests
        <4>1. Goes(h, "saveRequest")
          BY <2>3, <3>3 DEF FriendRequest
        <4> QED  BY <1>l, <2>g, <3>1, <4>1 DEF Pcs, Complete, HalfInv, HalfListed
      <3> QED  BY <3>2, <3>3
    <2>4. CASE SaveFriendRequest(h)
      <3>1. /\ Goes(h, "idle") /\ friends' = friends
            /\ requests' = requests \cup {Mine(h)} /\ listed' = listed \cup {Mine(h)}
            /\ uninvited' = uninvited
        BY <2>4 DEF SaveFriendRequest
      <3>2. HalfListed'
        BY <3>1 DEF HalfInv, HalfListed
      <3> QED  BY <1>l, <2>g, <3>1, <3>2 DEF Pcs, Complete
    <2>5. CASE UpsertMine(h)
      <3>1. /\ Goes(h, "upsertTheirs") /\ UNCHANGED <<requests, listed, uninvited>>
            /\ friends' = IF Mine(h)[1] = Mine(h)[2] THEN friends ELSE friends \cup {Mine(h)}
        BY <2>5 DEF UpsertMine, UpsertFriend, wishes
      <3>2. /\ handler'[h].pc = "upsertTheirs"
            /\ Mine(h)' = Mine(h) /\ Theirs(h)' = Theirs(h)
        BY <3>1, ExecuteStep DEF Pcs
      <3>3. Theirs(h) \in requests \/ Complete(Mine(h)) \/ Mine(h) \in uninvited
        BY <1>p, <2>5 DEF UpsertMine
      <3>4. handler'[h].me = handler[h].me /\ handler'[h].uid = handler[h].uid
        BY <3>1, GoesStep DEF Pcs, TypeOK
      <3>5. Promise(h)'
        BY <2>h, <3>1, <3>2, <3>3, <3>4 DEF Complete
      <3>6. HalfListed'
        BY <2>h, <3>1, <3>3 DEF Complete, HalfInv, HalfListed
      <3> QED  BY <1>l, <2>g, <3>1, <3>5, <3>6 DEF Pcs, Complete
    <2>6. CASE UpsertTheirs(h)
      <3>1. /\ Goes(h, "deleteRequest") /\ UNCHANGED <<requests, listed, uninvited>>
            /\ friends' = IF Theirs(h)[1] = Theirs(h)[2] THEN friends ELSE friends \cup {Theirs(h)}
        BY <2>6 DEF UpsertTheirs, UpsertFriend, wishes
      <3>2. handler'[h].pc = "deleteRequest" /\ Mine(h)' = Mine(h)
        BY <3>1, ExecuteStep DEF Pcs
      <3>3. Mine(h) \in friends \/ handler[h].me = handler[h].uid
        BY <1>p, <2>6 DEF UpsertTheirs
      <3>4. Promise(h)'
        BY <2>h, <3>1, <3>2, <3>3 DEF Complete
      <3>5. HalfListed'
        BY <2>h, <3>1, <3>3 DEF HalfInv, HalfListed
      <3> QED  BY <1>l, <2>g, <3>1, <3>4, <3>5 DEF Pcs, Complete
    <2>7. ~DeleteFriend(h)
      BY <1>p DEF DeleteFriend
    <2>8. CASE DeleteFriendRequest(h)
      <3>1. /\ Goes(h, "idle") /\ UNCHANGED <<friends, listed, uninvited>>
            /\ requests' = requests \ {Theirs(h)}
        BY <2>8 DEF DeleteFriendRequest, wishes
      <3>2. Complete(Mine(h)) /\ Complete(Theirs(h))
        BY <1>p, <2>8, <2>h DEF DeleteFriendRequest, Complete
      <3>3. HalfListed'
        <4> SUFFICES ASSUME NEW pair \in friends \ uninvited, Swap(pair) \notin friends
                     PROVE  Swap(pair) \in requests'
          BY <3>1 DEF HalfListed
        <4>1. Swap(pair) \in requests
          BY DEF HalfInv, HalfListed
        <4>2. Swap(pair) # Theirs(h)
          <5>1. pair[1] # pair[2] /\ Swap(pair)[1] = pair[2] /\ Swap(pair)[2] = pair[1]
            BY DEF TypeOK, Swap
          <5> QED  BY <3>2, <5>1 DEF Complete
        <4> QED  BY <3>1, <4>1, <4>2
      <3>4. \A pair \in listed' : pair \in requests' \/ Complete(pair)'
        BY <1>l, <3>1, <3>2 DEF Complete
      <3>5. \A k \in Handlers \ {h} : handler'[k] = handler[k]
        BY <3>1, ExecuteStep DEF Pcs
      <3>6. ASSUME NEW k \in Handlers \ {h} PROVE Promise(k)'
        <4>1. CASE handler[k].pc = "idle"
          BY <3>5, <4>1
        <4>2. CASE handler[k].pc # "idle"
          <5>1. /\ Swap(Mine(k)) = Theirs(k) /\ Swap(Theirs(k)) = Mine(k)
                /\ Mine(k)[1] = handler[k].me /\ Mine(k)[2] = handler[k].uid
            BY <4>2, HandlerPairs
          <5>2. Theirs(k) = Theirs(h) => Mine(k) = Mine(h)
            BY <2>h, <5>1
          <5>3. Mine(k)' = Mine(k) /\ Theirs(k)' = Theirs(k)
            BY <3>5 DEF Mine, Theirs
          <5> QED  BY <1>p, <3>1, <3>2, <3>5, <5>2, <5>3 DEF Complete
        <4> QED  BY <4>1, <4>2
      <3>7. Promise(h)'
        <4>1. handler'[h].pc = "idle"
          BY <3>1, ExecuteStep DEF Pcs
        <4> QED  BY <4>1
      <3> QED  BY <3>1, <3>3, <3>4, <3>6, <3>7 DEF HalfInv, RequestOrFriends
    <2> QED  BY <1>3, <2>2, <2>3, <2>4, <2>5, <2>6, <2>7, <2>8 DEF Execute
  <1>4. CASE Crash
    BY <1>4, <1>l, IdleType DEF Crash, HalfInv, RequestOrFriends, HalfListed, Complete, wishes
  <1>5. CASE UNCHANGED vars
    BY <1>5 DEF vars, wishes, HalfInv, RequestOrFriends, HalfListed, Complete, Mine, Theirs
  <1> HIDE DEF Kept
  <1>6. HalfInv' /\ Kept
    <2>4. Crash => Kept
      BY DEF Crash, Kept
    <2>5. UNCHANGED vars => Kept
      BY DEF vars, Kept
    <2> QED  BY <1>1, <1>2, <1>3, <1>4, <1>5, <2>4, <2>5 DEF Next
  <1> QED  BY <1>6 DEF Kept

(* Until a friend is deleted a crash in the middle of an acceptance can be *)
(* repaired: the request is still listed for the user who has the friend,  *)
(* if there ever was one.                                                  *)
THEOREM HalfFriendshipsAreListed == Spec => []HalfFriendshipIsListed
  <1>1. Init => HalfSafe
    BY InitHalf DEF HalfSafe
  <1>2. TypeOK /\ HalfSafe /\ [Next]_vars => HalfSafe'
    BY HalfStep, PastGrows DEF HalfSafe
  <1>3. HalfSafe => HalfFriendshipIsListed
    BY DEF HalfSafe, HalfInv, HalfFriendshipIsListed
  <1> QED  BY <1>1, <1>2, <1>3, TypeCorrect, PTL DEF Spec

-----------------------------------------------------------------------------
(* FriendshipIsMutual: without crashes half a friendship has a handler     *)
(* that is about to write the other half, and without races a handler that *)
(* deletes finds none.                                                     *)

Orderly == past \cap {"race", "crash"} = {}

MutualInv == Orderly => HalfIsBeingCompleted /\ Underway

LEMMA InitMutual == Init => MutualInv
  BY DEF Init, MutualInv, HalfIsBeingCompleted, Underway, Idle

LEMMA MutualStep ==
    ASSUME Orderly', TypeOK, HalfIsBeingCompleted, Underway, [Next]_vars
    PROVE  (HalfIsBeingCompleted /\ Underway)'
  <1> DEFINE Going(h) ==
        /\ handler[h].pc = "upsertTheirs" => Mine(h) \in friends \/ handler[h].me = handler[h].uid
        /\ handler[h].pc = "deleteFriends" => Others(h) = {}
  <1>u. \A h \in Handlers : Going(h)
    BY DEF Underway
  (* Two handlers at work, none of them about to delete. *)
  <1>o. ASSUME NEW h \in Handlers, handler[h].pc # "idle"
        PROVE  \A k \in Handlers \ {h} : handler[k].pc # "deleteFriends"
    BY <1>o DEF Underway, Others
  <1>1. ASSUME NEW h \in Handlers, Execute(h), ~DeleteFriend(h)
        PROVE  (HalfIsBeingCompleted /\ Underway)'
    <2>1. handler[h].pc # "idle" /\ \E pc \in Pcs \ {"deleteFriends"} : Goes(h, pc)
      BY <1>1 DEF Execute, AreFriends, FriendRequest, SaveFriendRequest, UpsertMine, UpsertTheirs,
                  DeleteFriend, DeleteFriendRequest, Pcs
    <2>2. friends \subseteq friends'
      BY <1>1 DEF Execute, AreFriends, FriendRequest, SaveFriendRequest, UpsertMine, UpsertTheirs,
                  UpsertFriend, DeleteFriendRequest
    <2>h. Swap(Mine(h)) = Theirs(h) /\ Swap(Theirs(h)) = Mine(h)
      BY <2>1, HandlerPairs
    <2>k. \A k \in Handlers \ {h} : handler'[k] = handler[k] /\ Mine(k)' = Mine(k)
      BY <2>1, ExecuteStep
    <2>d. handler'[h].pc # "deleteFriends"
      BY <2>1, ExecuteStep
    <2>3. ASSUME NEW k \in Handlers \ {h} PROVE Going(k)'
      <3>1. handler'[k].pc # "deleteFriends"
        BY <1>o, <2>1, <2>k
      <3> QED  BY <1>u, <2>2, <2>k, <3>1
    <2>4. CASE UpsertMine(h)
      <3>1. /\ friends' = IF Mine(h)[1] = Mine(h)[2] THEN friends ELSE friends \cup {Mine(h)}
            /\ Goes(h, "upsertTheirs")
        BY <2>4 DEF UpsertMine, UpsertFriend
      <3>2. /\ handler'[h].pc = "upsertTheirs" /\ Mine(h)' = Mine(h) /\ handler[h].pc = "upsertMine"
            /\ handler'[h].me = handler[h].me /\ handler'[h].uid = handler[h].uid
        BY <2>4, <3>1, ExecuteStep, GoesStep DEF Pcs, UpsertMine, TypeOK
      <3>3. Going(h)'
        BY <3>1, <3>2 DEF Mine
      <3>4. HalfIsBeingCompleted'
        BY <2>2, <2>k, <3>1, <3>2 DEF HalfIsBeingCompleted
      <3> QED  BY <2>3, <3>3, <3>4 DEF Underway
    <2>5. CASE UpsertTheirs(h)
      <3>1. /\ friends' = IF Theirs(h)[1] = Theirs(h)[2] THEN friends ELSE friends \cup {Theirs(h)}
            /\ Goes(h, "deleteRequest")
        BY <2>5 DEF UpsertTheirs, UpsertFriend
      <3>2. Mine(h) \in friends \/ handler[h].me = handler[h].uid
        BY <1>u, <2>5 DEF UpsertTheirs
      <3>3. \A pair \in friends' : Swap(pair) \notin friends' => pair \in friends /\ pair # Mine(h)
        <4> SUFFICES ASSUME NEW pair \in friends', Swap(pair) \notin friends'
                     PROVE  pair \in friends /\ pair # Mine(h)
          OBVIOUS
        <4>1. Theirs(h)[1] = handler[h].uid /\ Theirs(h)[2] = handler[h].me
              /\ Mine(h)[1] = handler[h].me /\ Mine(h)[2] = handler[h].uid
          BY DEF Theirs, Mine
        <4>2. pair \in friends
          BY <2>2, <2>h, <3>1, <3>2, <4>1
        <4>3. pair[1] # pair[2]
          BY <4>2 DEF TypeOK
        <4> QED  BY <2>h, <3>1, <4>1, <4>2, <4>3
      <3>4. handler'[h].pc = "deleteRequest"
        BY <3>1, ExecuteStep DEF Pcs
      <3>5. HalfIsBeingCompleted'
        BY <2>2, <2>k, <3>3 DEF HalfIsBeingCompleted
      <3> QED  BY <2>3, <3>4, <3>5 DEF Underway
    <2>6. CASE friends' = friends /\ handler[h].pc # "upsertTheirs" /\ handler'[h].pc # "upsertTheirs"
      <3>1. HalfIsBeingCompleted'
        BY <2>k, <2>6 DEF HalfIsBeingCompleted
      <3> QED  BY <2>3, <2>6, <2>d, <3>1 DEF Underway
    <2>7. ASSUME NEW pc \in Pcs \ {"upsertTheirs"}, Goes(h, pc) PROVE handler'[h].pc # "upsertTheirs"
      BY <2>7, ExecuteStep
    <2> QED  BY <1>1, <2>4, <2>5, <2>6, <2>7 DEF Execute, AreFriends, FriendRequest,
                SaveFriendRequest, DeleteFriendRequest, Pcs
  <1>2. ASSUME NEW h \in Handlers, DeleteFriend(h)
        PROVE  (HalfIsBeingCompleted /\ Underway)'
    <2>1. /\ handler[h].pc = "deleteFriends" /\ Goes(h, "deleteRequest")
          /\ friends' = friends \ {Mine(h), Theirs(h)}
      BY <1>2 DEF DeleteFriend
    <2>h. Swap(Mine(h)) = Theirs(h) /\ Swap(Theirs(h)) = Mine(h)
      BY <2>1, HandlerPairs
    <2>2. \A k \in Handlers \ {h} : handler[k].pc = "idle" /\ handler'[k] = handler[k]
      BY <2>1, ExecuteStep DEF Underway, Others, Pcs
    <2>3. handler'[h].pc = "deleteRequest"
      BY <2>1, ExecuteStep DEF Pcs
    <2>4. \A pair \in friends : Swap(pair) \in friends
      BY <2>1, <2>2 DEF HalfIsBeingCompleted
    <2>5. ASSUME NEW pair \in friends' PROVE Swap(pair) \in friends'
      <3>1. Swap(Swap(pair)) = pair
        BY <2>1, <2>5 DEF Swap, TypeOK, Pairs
      <3> QED  BY <2>1, <2>4, <2>5, <2>h, <3>1
    <2>6. HalfIsBeingCompleted'
      BY <2>5 DEF HalfIsBeingCompleted
    <2> QED  BY <2>2, <2>3, <2>6 DEF Underway
  <1>3. ASSUME NEW h \in Handlers, NEW v \in Users, NEW u \in Users,
               \/ friendsAdd(h, v, u) \/ handleFriendAdd(h, v, u)
               \/ handleFriendAccept(h, v, u) \/ friendsDelete(h, v, u)
               \/ handleFriendDelete(h, v, u)
        PROVE  (HalfIsBeingCompleted /\ Underway)'
    <2>1. \E kind \in AllKinds, pc \in Pcs \ {"upsertTheirs"} : Starts(h, kind, v, u, pc)
      BY <1>3 DEF friendsAdd, handleFriendAdd, handleFriendAccept, friendsDelete, handleFriendDelete,
             AllKinds, Pcs
    <2> PICK kind \in AllKinds, pc \in Pcs \ {"upsertTheirs"} : Starts(h, kind, v, u, pc)
      BY <2>1
    <2>2. /\ handler[h].pc = "idle" /\ friends' = friends /\ handler'[h].pc = pc
          /\ \A k \in Handlers \ {h} : handler'[k] = handler[k] /\ Mine(k)' = Mine(k)
      BY StartStep
    <2>3. HalfIsBeingCompleted'
      BY <2>2 DEF HalfIsBeingCompleted
    <2>4. \A k \in Others(h) : "deleteFriends" \notin {pc, handler[k].pc}
      BY DEF Starts, Happens, Orderly, Tags
    <2>5. ASSUME NEW g \in Handlers, handler'[g].pc = "deleteFriends" PROVE Others(g)' = {}
      <3>1. CASE g = h
        BY <2>2, <2>4, <2>5, <3>1 DEF Others
      <3>2. CASE g # h
        BY <2>2, <2>4, <2>5, <3>2 DEF Others
      <3> QED  BY <3>1, <3>2
    <2>6. ASSUME NEW g \in Handlers, handler'[g].pc = "upsertTheirs"
          PROVE  Mine(g)' \in friends' \/ handler'[g].me = handler'[g].uid
      BY <1>u, <2>2, <2>6
    <2> QED  BY <2>3, <2>5, <2>6 DEF Underway
  <1>4. ~Crash
    BY DEF Crash, Orderly
  <1>5. CASE UNCHANGED vars
    BY <1>5 DEF vars, HalfIsBeingCompleted, Underway, Mine, Others
  <1> QED  BY <1>1, <1>2, <1>3, <1>4, <1>5 DEF Next

(* Any number of requests and acceptances at once, and deletions that meet *)
(* no other handler, leave every friendship stored for both users.         *)
THEOREM FriendshipsAreMutual == Spec => []FriendshipIsMutual
  <1>1. TypeOK /\ MutualInv /\ [Next]_vars => MutualInv'
    BY MutualStep, PastGrows DEF MutualInv, Orderly
  <1>2. MutualInv => FriendshipIsMutual
    BY DEF MutualInv, Orderly, FriendshipIsMutual, Quiet, HalfIsBeingCompleted
  <1> QED  BY <1>1, <1>2, InitMutual, TypeCorrect, PTL DEF Spec

-----------------------------------------------------------------------------
(* NoAnsweredRequest: a handler that works alone and accepts a request     *)
(* deletes it when it has stored the friendship; one that saves a request  *)
(* has found neither a friendship nor a request of the other user.         *)

Alone == past \cap {"web", "overlap", "crash"} = {}

RaceOverlaps == "race" \in past => "overlap" \in past

OneAtATime ==
    \A h, k \in Handlers : h # k => handler[h].pc = "idle" \/ handler[k].pc = "idle"

Open(pair) ==
    /\ pair \notin friends /\ Swap(pair) \notin friends
    /\ pair[1] # pair[2] => Swap(pair) \notin requests

OpenOrLeaving ==
    \A pair \in requests :
        \/ Open(pair)
        \/ \E h \in Handlers : handler[h].pc \in {"upsertTheirs", "deleteRequest"} /\ pair = Theirs(h)

Found(h) ==
    /\ handler[h].pc = "areFriends" => handler[h].kind = "apiAdd"
    /\ handler[h].pc \in {"friendRequest", "saveRequest"} => Mine(h) \notin friends
    /\ handler[h].pc = "saveRequest" => Theirs(h) \notin requests
    /\ handler[h].pc = "upsertMine" => Theirs(h) \in requests

AnsweredInv == Alone => OneAtATime /\ OpenOrLeaving /\ \A h \in Handlers : Found(h)

LEMMA InitAnswered == Init => AnsweredInv /\ RaceOverlaps
  BY DEF Init, AnsweredInv, RaceOverlaps, OneAtATime, OpenOrLeaving, Found, Idle

LEMMA RaceStep == RaceOverlaps /\ [Next]_vars => RaceOverlaps'
  <1> SUFFICES ASSUME RaceOverlaps, [Next]_vars PROVE RaceOverlaps'
    OBVIOUS
  <1>1. ASSUME NEW h \in Handlers, Execute(h) PROVE past' = past
    BY <1>1 DEF Execute, AreFriends, FriendRequest, SaveFriendRequest, UpsertMine, UpsertTheirs,
                DeleteFriend, DeleteFriendRequest
  <1>2. ASSUME NEW h \in Handlers, NEW v \in Users, NEW u \in Users,
               \/ friendsAdd(h, v, u) \/ handleFriendAdd(h, v, u)
               \/ handleFriendAccept(h, v, u) \/ friendsDelete(h, v, u)
               \/ handleFriendDelete(h, v, u)
        PROVE  RaceOverlaps'
    <2>1. \E kind \in AllKinds, pc \in Pcs : past' = past \cup Happens(h, kind, pc)
      BY <1>2 DEF friendsAdd, handleFriendAdd, handleFriendAccept, friendsDelete, handleFriendDelete,
             Starts, AllKinds, Pcs
    <2>2. PICK kind \in AllKinds, pc \in Pcs : past' = past \cup Happens(h, kind, pc)
      BY <2>1
    <2>3. "race" \in Happens(h, kind, pc) => "overlap" \in Happens(h, kind, pc)
      BY DEF Happens, Tags
    <2> QED  BY <2>2, <2>3 DEF RaceOverlaps
  <1>3. CASE Crash
    BY <1>3 DEF Crash, RaceOverlaps
  <1> QED  BY <1>1, <1>2, <1>3 DEF Next, RaceOverlaps, vars

LEMMA AnsweredStep ==
    ASSUME Alone', TypeOK, HalfIsBeingCompleted, Underway,
           OneAtATime, OpenOrLeaving, \A h \in Handlers : Found(h), [Next]_vars
    PROVE  (OneAtATime /\ OpenOrLeaving /\ \A h \in Handlers : Found(h))'
  <1>1. ASSUME NEW h \in Handlers, Execute(h)
        PROVE  (OneAtATime /\ OpenOrLeaving /\ \A g \in Handlers : Found(g))'
    <2>1. handler[h].pc # "idle" /\ \E pc \in Pcs : Goes(h, pc)
      BY <1>1 DEF Execute, AreFriends, FriendRequest, SaveFriendRequest, UpsertMine, UpsertTheirs,
                  DeleteFriend, DeleteFriendRequest, Pcs
    <2>2. \A k \in Handlers \ {h} : handler[k].pc = "idle" /\ handler'[k].pc = "idle"
      BY <2>1, ExecuteStep DEF OneAtATime
    <2>3. OneAtATime'
      BY <2>2 DEF OneAtATime
    <2>4. \A k \in Handlers \ {h} : Found(k)'
      BY <2>2 DEF Found
    <2>h. /\ Swap(Mine(h)) = Theirs(h) /\ Swap(Theirs(h)) = Mine(h)
          /\ Mine(h)[1] = handler[h].me /\ Mine(h)[2] = handler[h].uid
          /\ Theirs(h)[1] = handler[h].uid /\ Theirs(h)[2] = handler[h].me
      BY <2>1, HandlerPairs
    <2>p. \A pair \in requests \cup friends : pair = <<pair[1], pair[2]>> /\ Swap(Swap(pair)) = pair
      BY DEF TypeOK, Pairs, Swap
    <2>f. Found(h)
      OBVIOUS
    <2>m. handler[h].pc # "upsertTheirs" => \A pair \in friends : Swap(pair) \in friends
      BY <2>2 DEF HalfIsBeingCompleted
    <2>o. \A pair \in requests :
            Open(pair) \/ (handler[h].pc \in {"upsertTheirs", "deleteRequest"} /\ pair = Theirs(h))
      BY <2>2 DEF OpenOrLeaving
    <2>5. CASE AreFriends(h)
      <3>1. PICK pc \in {"idle", "friendRequest"} :
               /\ Goes(h, pc) /\ (pc = "friendRequest" => Mine(h) \notin friends)
               /\ friends' = friends /\ requests' = requests
        BY <2>5, <2>f DEF AreFriends, Found
      <3>2. handler'[h].pc = pc /\ (pc # "idle" => Mine(h)' = Mine(h))
        BY <3>1, ExecuteStep DEF Pcs
      <3>3. Found(h)'
        BY <3>1, <3>2 DEF Found
      <3>4. OpenOrLeaving'
        BY <2>5, <2>o, <3>1 DEF OpenOrLeaving, AreFriends, Open
      <3> QED  BY <2>3, <2>4, <3>3, <3>4
    <2>6. CASE FriendRequest(h)
      <3>1. PICK pc \in {"upsertMine", "saveRequest"} :
               /\ Goes(h, pc) /\ (pc = "upsertMine" <=> Theirs(h) \in requests)
               /\ friends' = friends /\ requests' = requests /\ Mine(h) \notin friends
        BY <2>6, <2>f DEF FriendRequest, Found
      <3>2. handler'[h].pc = pc /\ Mine(h)' = Mine(h) /\ Theirs(h)' = Theirs(h)
        BY <3>1, ExecuteStep DEF Pcs
      <3>3. Found(h)'
        BY <3>1, <3>2 DEF Found
      <3>4. OpenOrLeaving'
        BY <2>6, <2>o, <3>1 DEF OpenOrLeaving, FriendRequest, Open
      <3> QED  BY <2>3, <2>4, <3>3, <3>4
    <2>7. CASE SaveFriendRequest(h)
      <3>1. /\ handler[h].pc = "saveRequest" /\ Goes(h, "idle")
            /\ friends' = friends /\ requests' = requests \cup {Mine(h)}
        BY <2>7 DEF SaveFriendRequest
      <3>2. handler'[h].pc = "idle"
        BY <3>1, ExecuteStep DEF Pcs
      <3>3. Found(h)'
        BY <3>2 DEF Found
      <3>4. Mine(h) \notin friends /\ Theirs(h) \notin friends /\ Theirs(h) \notin requests
        BY <2>f, <2>h, <2>m, <3>1 DEF Found
      <3>5. ASSUME NEW pair \in requests' PROVE Open(pair)'
        <4>1. CASE pair = Mine(h)
          BY <2>h, <3>1, <3>4, <4>1 DEF Open
        <4>2. CASE pair # Mine(h)
          <5>1. pair \in requests /\ Open(pair)
            BY <2>o, <3>1, <3>5, <4>2
          <5>2. Swap(pair) # Mine(h)
            BY <2>h, <2>p, <3>4, <5>1
          <5> QED  BY <3>1, <5>1, <5>2 DEF Open
        <4> QED  BY <4>1, <4>2
      <3>6. OpenOrLeaving'
        BY <3>5 DEF OpenOrLeaving
      <3> QED  BY <2>3, <2>4, <3>3, <3>6
    <2>8. CASE UpsertMine(h)
      <3>1. /\ friends' = IF Mine(h)[1] = Mine(h)[2] THEN friends ELSE friends \cup {Mine(h)}
            /\ requests' = requests /\ Goes(h, "upsertTheirs") /\ handler[h].pc = "upsertMine"
        BY <2>8 DEF UpsertMine, UpsertFriend
      <3>2. handler'[h].pc = "upsertTheirs" /\ Theirs(h)' = Theirs(h)
        BY <3>1, ExecuteStep DEF Pcs
      <3>3. Found(h)'
        BY <3>2 DEF Found
      <3>4. Theirs(h) \in requests /\ Open(Theirs(h))
        BY <2>f, <2>o, <3>1 DEF Found
      <3>5. ASSUME NEW pair \in requests', pair # Theirs(h) PROVE Open(pair)'
        <4>1. pair \in requests /\ Open(pair)
          BY <2>o, <3>1, <3>5
        <4>2. CASE Mine(h)[1] = Mine(h)[2]
          BY <3>1, <4>1, <4>2 DEF Open
        <4>3. CASE Mine(h)[1] # Mine(h)[2]
          <5>1. Mine(h) \notin requests
            BY <2>h, <3>4, <4>3 DEF Open
          <5>2. pair # Mine(h) /\ Swap(pair) # Mine(h)
            BY <2>h, <2>p, <3>5, <4>1, <5>1
          <5> QED  BY <3>1, <4>1, <4>3, <5>2 DEF Open
        <4> QED  BY <4>2, <4>3
      <3>6. OpenOrLeaving'
        BY <3>2, <3>5 DEF OpenOrLeaving
      <3> QED  BY <2>3, <2>4, <3>3, <3>6
    <2>9. CASE UpsertTheirs(h)
      <3>1. /\ friends' = IF Theirs(h)[1] = Theirs(h)[2] THEN friends ELSE friends \cup {Theirs(h)}
            /\ requests' = requests /\ Goes(h, "deleteRequest") /\ handler[h].pc = "upsertTheirs"
        BY <2>9 DEF UpsertTheirs, UpsertFriend
      <3>2. handler'[h].pc = "deleteRequest" /\ Theirs(h)' = Theirs(h)
        BY <3>1, ExecuteStep DEF Pcs
      <3>3. Found(h)'
        BY <3>2 DEF Found
      <3>4. ASSUME NEW pair \in requests', pair # Theirs(h) PROVE Open(pair)'
        <4>1. pair \in requests /\ Open(pair)
          BY <2>o, <3>1, <3>4
        <4>2. CASE Theirs(h)[1] = Theirs(h)[2]
          BY <3>1, <4>1, <4>2 DEF Open
        <4>3. CASE Theirs(h)[1] # Theirs(h)[2]
          <5>1. Mine(h) \in friends
            BY <2>h, <3>1, <4>3 DEF Underway
          <5>2. Swap(pair) # Theirs(h)
            BY <2>h, <2>p, <4>1, <5>1 DEF Open
          <5> QED  BY <3>1, <3>4, <4>1, <4>3, <5>2 DEF Open
        <4> QED  BY <4>2, <4>3
      <3>5. OpenOrLeaving'
        BY <3>2, <3>4 DEF OpenOrLeaving
      <3> QED  BY <2>3, <2>4, <3>3, <3>5
    <2>10. CASE DeleteFriend(h)
      <3>1. /\ friends' \subseteq friends /\ requests' = requests /\ Goes(h, "deleteRequest")
            /\ handler[h].pc = "deleteFriends"
        BY <2>10 DEF DeleteFriend
      <3>2. handler'[h].pc = "deleteRequest"
        BY <3>1, ExecuteStep DEF Pcs
      <3>3. Found(h)'
        BY <3>2 DEF Found
      <3>4. OpenOrLeaving'
        BY <2>o, <3>1 DEF OpenOrLeaving, Open
      <3> QED  BY <2>3, <2>4, <3>3, <3>4
    <2>11. CASE DeleteFriendRequest(h)
      <3>1. friends' = friends /\ requests' = requests \ {Theirs(h)} /\ Goes(h, "idle")
        BY <2>11 DEF DeleteFriendRequest
      <3>2. handler'[h].pc = "idle"
        BY <3>1, ExecuteStep DEF Pcs
      <3>3. Found(h)'
        BY <3>2 DEF Found
      <3>4. OpenOrLeaving'
        BY <2>o, <3>1 DEF OpenOrLeaving, Open
      <3> QED  BY <2>3, <2>4, <3>3, <3>4
    <2> QED  BY <1>1, <2>5, <2>6, <2>7, <2>8, <2>9, <2>10, <2>11 DEF Execute
  <1>2. ASSUME NEW h \in Handlers, NEW v \in Users, NEW u \in Users,
               \/ friendsAdd(h, v, u) \/ handleFriendAdd(h, v, u)
               \/ handleFriendAccept(h, v, u) \/ friendsDelete(h, v, u)
               \/ handleFriendDelete(h, v, u)
        PROVE  (OneAtATime /\ OpenOrLeaving /\ \A g \in Handlers : Found(g))'
    <2>1. \E kind \in AllKinds, pc \in {"areFriends", "upsertMine", "deleteFriends"} :
            /\ Starts(h, kind, v, u, pc)
            /\ <<kind, pc>> \in {<<"apiAdd", "areFriends">>, <<"apiDelete", "deleteFriends">>}
                  \/ kind \in {"webAdd", "webAccept", "webDelete"}
      BY <1>2 DEF friendsAdd, handleFriendAdd, handleFriendAccept, friendsDelete, handleFriendDelete,
             AllKinds
    <2>2. PICK kind \in AllKinds, pc \in {"areFriends", "upsertMine", "deleteFriends"} :
            /\ Starts(h, kind, v, u, pc)
            /\ <<kind, pc>> \in {<<"apiAdd", "areFriends">>, <<"apiDelete", "deleteFriends">>}
                  \/ kind \in {"webAdd", "webAccept", "webDelete"}
      BY <2>1
    <2>3. past' = past \cup Happens(h, kind, pc)
      BY <2>2 DEF Starts
    <2>4. kind \notin {"webAdd", "webAccept", "webDelete"} /\ Others(h) = {}
      BY <2>3 DEF Alone, Happens, Tags
    <2>5. pc \in Pcs /\ pc # "upsertMine" /\ (pc = "areFriends" => kind = "apiAdd")
      BY <2>2, <2>4 DEF Pcs
    <2>6. /\ handler[h].pc = "idle" /\ friends' = friends /\ requests' = requests
          /\ handler'[h].pc = pc /\ \A k \in Handlers \ {h} : handler'[k] = handler[k]
      BY <2>2, <2>5, StartStep
    <2>7. handler'[h].kind = kind
      BY <2>2 DEF Starts, TypeOK
    <2>8. \A k \in Handlers \ {h} : handler[k].pc = "idle" /\ handler'[k].pc = "idle"
      BY <2>4, <2>6 DEF Others
    <2>9. OneAtATime'
      BY <2>8 DEF OneAtATime
    <2>10. OpenOrLeaving'
      BY <2>6, <2>8 DEF OpenOrLeaving, Open
    <2>11. \A g \in Handlers : Found(g)'
      BY <2>2, <2>5, <2>6, <2>7, <2>8 DEF Found
    <2> QED  BY <2>9, <2>10, <2>11
  <1>3. ~Crash
    BY DEF Crash, Alone
  <1>4. CASE UNCHANGED vars
    BY <1>4 DEF vars, OneAtATime, OpenOrLeaving, Open, Found, Mine, Theirs
  <1> QED  BY <1>1, <1>2, <1>3, <1>4 DEF Next

(* Requests of the API that are served one at a time leave no request      *)
(* between friends and no two crossing ones.                               *)
THEOREM NoRequestIsAnswered == Spec => []NoAnsweredRequest
  <1>1. TypeOK /\ MutualInv /\ RaceOverlaps /\ AnsweredInv /\ [Next]_vars => AnsweredInv'
    <2> SUFFICES ASSUME TypeOK, MutualInv, RaceOverlaps, AnsweredInv, [Next]_vars, Alone'
                 PROVE  (OneAtATime /\ OpenOrLeaving /\ \A h \in Handlers : Found(h))'
      BY DEF AnsweredInv
    <2>1. Alone
      BY PastGrows DEF Alone
    <2>2. Orderly
      BY <2>1 DEF Alone, RaceOverlaps, Orderly
    <2> QED  BY <2>1, <2>2, AnsweredStep DEF AnsweredInv, MutualInv
  <1>2. TypeOK /\ MutualInv /\ [Next]_vars => MutualInv'
    BY MutualStep, PastGrows DEF MutualInv, Orderly
  <1>3. AnsweredInv => NoAnsweredRequest
    BY DEF AnsweredInv, Alone, NoAnsweredRequest, Quiet, OpenOrLeaving, Open
  <1> QED  BY <1>1, <1>2, <1>3, InitMutual, InitAnswered, RaceStep, TypeCorrect, PTL DEF Spec
=============================================================================
