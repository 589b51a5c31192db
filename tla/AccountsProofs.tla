--------------------------- MODULE AccountsProofs ---------------------------
(* Proofs about accounts, sessions and profiles, for every set of logins   *)
(* and handlers.                                                           *)
EXTENDS Accounts, TLAPS

LEMMA IdleType == Idle \in HandlerType /\ Idle.pc = "idle" /\ Idle.kind = "none"
  BY DEF Idle, HandlerType, Pcs, NoUser, UserType

LEMMA NewUserType ==
    ASSUME NEW l \in Logins
    PROVE  NewUser(l) \in UserType /\ NewUser(l).exists /\ NewUser(l).domain = l
  BY DEF NewUser, NoUser, UserType

(* What a handler is after a step. *)
LEMMA OnwardFacts ==
    ASSUME NEW step \in HandlerType, NEW pc \in Pcs
    PROVE  /\ Onward(step, pc) \in HandlerType
           /\ Onward(step, pc).pc = pc
           /\ pc = "idle" => Onward(step, pc).kind = "none"
           /\ pc # "idle" => /\ Onward(step, pc).kind = step.kind
                             /\ Onward(step, pc).uid = step.uid
                             /\ Onward(step, pc).user = step.user
                             /\ Onward(step, pc).text = step.text
           /\ pc \notin {"idle", "startSession", "saveSession"} =>
                 Onward(step, pc).login = step.login
  <1>1. CASE pc = "idle"
    BY <1>1, IdleType DEF Onward
  <1>2. CASE pc \in {"startSession", "saveSession"}
    BY <1>2 DEF Onward, HandlerType
  <1>3. CASE pc \in {"readUser", "update"}
    BY <1>3 DEF Onward, HandlerType
  <1>4. CASE pc \notin {"idle", "startSession", "saveSession", "readUser", "update"}
    <2>1. Onward(step, pc) = [step EXCEPT !.pc = pc]
      BY <1>4 DEF Onward
    <2> QED  BY <1>4, <2>1 DEF HandlerType
  <1> QED  BY <1>1, <1>2, <1>3, <1>4

Moves(h, pc, u) == (Goes(h, pc) /\ u = handler[h].uid) \/ GoesFor(h, pc, u)

LEMMA MoveFacts ==
    ASSUME TypeOK, NEW h \in Handlers, NEW pc \in Pcs, NEW u \in Nat, Moves(h, pc, u)
    PROVE  /\ handler' \in [Handlers -> HandlerType]
           /\ handler'[h].pc = pc
           /\ pc = "idle" => handler'[h].kind = "none"
           /\ pc # "idle" => /\ handler'[h].kind = handler[h].kind
                             /\ handler'[h].uid = u
                             /\ handler'[h].user = handler[h].user
                             /\ handler'[h].text = handler[h].text
           /\ pc \notin {"idle", "startSession", "saveSession"} =>
                 handler'[h].login = handler[h].login
           /\ \A k \in Handlers \ {h} : handler'[k] = handler[k]
  <1>1. handler \in [Handlers -> HandlerType] /\ handler[h] \in HandlerType
    BY DEF TypeOK
  <1> DEFINE step == [handler[h] EXCEPT !.uid = u]
  <1>s. /\ step \in HandlerType
        /\ step.kind = handler[h].kind /\ step.uid = u /\ step.user = handler[h].user
        /\ step.text = handler[h].text /\ step.login = handler[h].login
    BY <1>1 DEF HandlerType
  <1>2. CASE Goes(h, pc) /\ u = handler[h].uid
    <2>1. handler' = [handler EXCEPT ![h] = Onward(handler[h], pc)]
      BY <1>2 DEF Goes
    <2> QED  BY <1>1, <1>2, <2>1, OnwardFacts
  <1>3. CASE GoesFor(h, pc, u)
    <2>1. handler' = [handler EXCEPT ![h] = Onward(step, pc)]
      BY <1>3 DEF GoesFor
    <2> HIDE DEF step
    <2> QED  BY <1>1, <1>s, <2>1, OnwardFacts
  <1> QED  BY <1>2, <1>3 DEF Moves

LEMMA StartFacts ==
    ASSUME TypeOK, NEW h \in Handlers, NEW kind \in AllKinds, NEW pc \in Pcs,
           NEW l \in Logins \cup {None}, NEW text \in Texts \cup {None}, NEW t \in Nat,
           Starts(h, kind, pc, l, text, t)
    PROVE  /\ handler' \in [Handlers -> HandlerType]
           /\ handler'[h].pc = pc /\ handler'[h].kind = kind
           /\ \A k \in Handlers \ {h} : handler'[k] = handler[k]
           /\ handler[h].pc = "idle"
           /\ past' \subseteq Tags /\ past \subseteq past'
           /\ UNCHANGED <<users, nextUid, web, sessions, nextToken, asked>>
  <1> DEFINE new == [Idle EXCEPT !.pc = pc, !.kind = kind, !.login = l, !.text = text, !.token = t]
  <1>1. new \in HandlerType /\ new.pc = pc /\ new.kind = kind
    BY IdleType DEF HandlerType, Idle
  <1>2. handler \in [Handlers -> HandlerType] /\ past \subseteq Tags
    BY DEF TypeOK
  <1>3. handler' = [handler EXCEPT ![h] = new]
    BY DEF Starts
  <1> HIDE DEF new
  <1> QED  BY <1>1, <1>2, <1>3 DEF Starts, Overlap

(* Every request starts at one place, with a kind that fits it. *)
LEMMA RequestStarts ==
    ASSUME TypeOK, NEW h \in Handlers, Request(h)
    PROVE  \E kind \in AllKinds, pc \in {"loginTaken", "userByDomain", "cookie", "drop", "sid"},
              l \in Logins \cup {None}, text \in Texts \cup {None}, t \in Nat :
                 Starts(h, kind, pc, l, text, t) /\ Fits(pc, kind)
  <1>1. \A t \in 1..(nextToken - 1) : t \in Nat
    BY DEF TypeOK
  <1> USE DEF Fits, AllKinds, EntryKinds, RowKinds
  <1>2. CASE \E l \in Logins : handleRegister(h, l)
    BY <1>2 DEF handleRegister, Enters
  <1>3. CASE \E l \in Logins : handleLogin(h, l) \/ authGetSession(h, l)
    BY <1>3 DEF handleLogin, authGetSession, Enters
  <1>4. CASE \E t \in 1..(nextToken - 1) :
                handleLogout(h, t) \/ authLogout(h, t) \/ activityOnline(h, t)
    BY <1>1, <1>4 DEF handleLogout, authLogout, activityOnline
  <1>5. CASE \E t \in 1..(nextToken - 1), text \in Texts :
                handleStatus(h, t, text) \/ handleUploadAvatar(h, t, text) \/ statusSet(h, t, text)
    BY <1>1, <1>5 DEF handleStatus, handleUploadAvatar, statusSet
  <1>6. CASE \E t \in 1..(nextToken - 1), text \in Texts, phone \in Logins \cup {None} :
                handleSettings(h, t, phone, text)
    BY <1>1, <1>6 DEF handleSettings
  <1> QED  BY <1>2, <1>3, <1>4, <1>5, <1>6 DEF Request

-----------------------------------------------------------------------------
LEMMA InitType == Init => TypeOK /\ Placed
  BY IdleType, BoundsAssumption
  DEF Init, TypeOK, Placed, Fits, NoUser, UserType, Uids, ForUser

(* A step of one handler keeps the types, if it leaves it where its kind   *)
(* fits, with a user where one is needed.                                  *)
LEMMA TypedStep ==
    ASSUME TypeOK, Placed, NEW h \in Handlers,
           handler' \in [Handlers -> HandlerType],
           \A k \in Handlers \ {h} : handler'[k] = handler[k],
           Fits(handler'[h].pc, handler'[h].kind),
           handler'[h].pc \in ForUser \cup {"createUser"} => handler'[h].uid \in Uids,
           users' \in [Uids -> UserType], asked' \in [Uids -> UserType],
           nextUid' \in Nat \ {0}, nextToken' \in Nat \ {0},
           web' \subseteq SessionType, sessions' \subseteq SessionType, past' \subseteq Tags
    PROVE  TypeOK' /\ Placed'
  <1>1. \A k \in Handlers : /\ Fits(handler'[k].pc, handler'[k].kind)
                            /\ handler'[k].pc \in ForUser \cup {"createUser"} => handler'[k].uid \in Uids
    BY DEF TypeOK, Placed
  <1> QED  BY <1>1 DEF TypeOK, Placed

(* The same for a step that leaves the tables alone. *)
LEMMA LocalStep ==
    ASSUME TypeOK, Placed, NEW h \in Handlers, NEW pc \in Pcs, NEW u \in Nat,
           Moves(h, pc, u), Fits(pc, IF pc = "idle" THEN "none" ELSE handler[h].kind),
           pc \in ForUser \cup {"createUser"} => u \in Uids,
           UNCHANGED <<users, asked, past>>,
           nextUid' \in Nat \ {0}, nextToken' \in Nat \ {0},
           web' \subseteq SessionType, sessions' \subseteq SessionType
    PROVE  TypeOK' /\ Placed'
  <1>1. /\ handler' \in [Handlers -> HandlerType]
        /\ handler'[h].pc = pc
        /\ handler'[h].kind = IF pc = "idle" THEN "none" ELSE handler[h].kind
        /\ pc # "idle" => handler'[h].uid = u
        /\ \A k \in Handlers \ {h} : handler'[k] = handler[k]
    BY MoveFacts
  <1>2. pc \in ForUser \cup {"createUser"} => pc # "idle"
    BY DEF ForUser
  <1>3. /\ users' \in [Uids -> UserType] /\ asked' \in [Uids -> UserType]
        /\ past' \subseteq Tags
    BY DEF TypeOK
  <1> QED  BY <1>1, <1>2, <1>3, TypedStep

LEMMA UpdatedType ==
    ASSUME TypeOK, Placed, NEW h \in Handlers, At(h, "update"), NEW row \in UserType
    PROVE  /\ Updated(h, row) \in UserType
           /\ Updated(h, row).exists = row.exists /\ Updated(h, row).domain = row.domain
  <1>1. handler[h].kind \in RowKinds \ {"settings"} /\ handler[h].text \in Texts \cup {None}
    BY DEF At, Placed, Fits, TypeOK, HandlerType
  <1>2. CASE handler[h].kind \in {"status", "statusSet"}
    BY <1>1, <1>2 DEF Updated, UserType
  <1>3. CASE handler[h].kind = "avatar"
    BY <1>1, <1>3 DEF Updated, UserType
  <1>4. CASE handler[h].kind \in {"getSession", "online"}
    BY <1>4 DEF Updated, UserType
  <1>5. CASE handler[h].kind = "logout"
    BY <1>5 DEF Updated, UserType
  <1> QED  BY <1>1, <1>2, <1>3, <1>4, <1>5 DEF RowKinds

LEMMA FormType ==
    ASSUME TypeOK, NEW h \in Handlers, NEW row \in UserType
    PROVE  /\ Form(h, row) \in UserType
           /\ Form(h, row).exists = row.exists /\ Form(h, row).domain = row.domain
  <1>1. handler[h].login \in Logins \cup {None} /\ handler[h].text \in Texts \cup {None}
    BY DEF TypeOK, HandlerType
  <1> QED  BY <1>1 DEF Form, UserType

(* A write to the row of a handler's user. *)
LEMMA WriteFacts ==
    ASSUME TypeOK, NEW u \in Uids, NEW row \in UserType, NEW profile \in UserType,
           users' = [users EXCEPT ![u] = row], Asks(u, profile)
    PROVE  /\ users' \in [Uids -> UserType] /\ asked' \in [Uids -> UserType]
           /\ users'[u] = row /\ \A v \in Uids \ {u} : users'[v] = users[v]
  <1>1. users \in [Uids -> UserType] /\ asked \in [Uids -> UserType]
    BY DEF TypeOK
  <1> QED  BY <1>1 DEF Asks

LEMMA TypeStep ==
    ASSUME TypeOK, Placed, [Next]_vars
    PROVE  TypeOK' /\ Placed'
  <1>t. /\ users \in [Uids -> UserType] /\ asked \in [Uids -> UserType]
        /\ nextUid \in Nat \ {0} /\ nextToken \in Nat \ {0}
        /\ web \subseteq SessionType /\ sessions \subseteq SessionType
        /\ past \subseteq Tags
        /\ nextUid + 1 \in Nat \ {0} /\ nextToken + 1 \in Nat \ {0}
    BY DEF TypeOK
  <1>h. ASSUME NEW h \in Handlers
        PROVE  /\ handler[h] \in HandlerType /\ Fits(handler[h].pc, handler[h].kind)
               /\ handler[h].uid \in Nat
               /\ handler[h].pc \in ForUser \cup {"createUser"} => handler[h].uid \in Uids
    BY DEF TypeOK, Placed, HandlerType
  <1>1. ASSUME NEW h \in Handlers, Request(h) PROVE TypeOK' /\ Placed'
    <2> PICK kind \in AllKinds, pc \in {"loginTaken", "userByDomain", "cookie", "drop", "sid"},
             l \in Logins \cup {None}, text \in Texts \cup {None}, t \in Nat :
                Starts(h, kind, pc, l, text, t) /\ Fits(pc, kind)
      BY <1>1, RequestStarts
    <2>1. pc \in Pcs /\ pc \notin ForUser \cup {"createUser"}
      BY DEF Pcs, ForUser
    <2>2. /\ handler' \in [Handlers -> HandlerType]
          /\ handler'[h].pc = pc /\ handler'[h].kind = kind
          /\ \A k \in Handlers \ {h} : handler'[k] = handler[k]
          /\ past' \subseteq Tags
          /\ UNCHANGED <<users, nextUid, web, sessions, nextToken, asked>>
      BY <2>1, StartFacts
    <2> QED  BY <1>t, <2>1, <2>2, TypedStep
  <1>2. ASSUME NEW h \in Handlers, LoginTaken(h) PROVE TypeOK' /\ Placed'
    <2> PICK pc \in {"idle", "nextUserID"} : Moves(h, pc, handler[h].uid)
      BY <1>2 DEF LoginTaken, Moves
    <2>1. /\ pc \in Pcs /\ pc \notin ForUser \cup {"createUser"}
          /\ Fits(pc, IF pc = "idle" THEN "none" ELSE handler[h].kind)
      BY <1>2, <1>h DEF LoginTaken, At, Fits, Pcs, ForUser
    <2> QED  BY <1>2, <1>t, <1>h, <2>1, LocalStep DEF LoginTaken
  <1>3. ASSUME NEW h \in Handlers, NextUserID(h) PROVE TypeOK' /\ Placed'
    <2>1. ASSUME nextUid <= MaxUsers, nextUid' = nextUid + 1, GoesFor(h, "createUser", nextUid)
          PROVE  TypeOK' /\ Placed'
      <3>1. nextUid \in Uids /\ nextUid \in Nat
        BY <1>t, <2>1, BoundsAssumption DEF Uids
      <3>2. "createUser" \in Pcs /\ Fits("createUser", handler[h].kind)
        BY <1>3, <1>h DEF NextUserID, At, Fits, Pcs
      <3>3. Moves(h, "createUser", nextUid)
        BY <2>1 DEF Moves
      <3> QED  BY <1>3, <1>t, <2>1, <3>1, <3>2, <3>3, LocalStep DEF NextUserID
    <2>2. ASSUME Goes(h, "idle"), UNCHANGED nextUid PROVE TypeOK' /\ Placed'
      <3>1. "idle" \in Pcs /\ Fits("idle", "none") /\ "idle" \notin ForUser \cup {"createUser"}
        BY DEF Fits, Pcs, ForUser
      <3>2. Moves(h, "idle", handler[h].uid)
        BY <2>2 DEF Moves
      <3> QED  BY <1>3, <1>t, <1>h, <2>2, <3>1, <3>2, LocalStep DEF NextUserID
    <2> QED  BY <1>3, <2>1, <2>2 DEF NextUserID
  <1>4. ASSUME NEW h \in Handlers, CreateUser(h) PROVE TypeOK' /\ Placed'
    <2>1. Moves(h, "startSession", handler[h].uid) /\ "startSession" \in Pcs
      BY <1>4 DEF CreateUser, Moves, Pcs
    <2>2. /\ handler' \in [Handlers -> HandlerType]
          /\ handler'[h].pc = "startSession"
          /\ handler'[h].kind = handler[h].kind /\ handler'[h].uid = handler[h].uid
          /\ \A k \in Handlers \ {h} : handler'[k] = handler[k]
      BY <1>h, <2>1, MoveFacts
    <2>3. handler[h].uid \in Uids /\ Fits("startSession", handler[h].kind)
      BY <1>4, <1>h DEF CreateUser, At, Fits
    <2>4. NewUser(handler[h].login) \in UserType
      BY <1>h DEF NewUser, NoUser, UserType, HandlerType
    <2>5. users' \in [Uids -> UserType] /\ asked' \in [Uids -> UserType]
      BY <1>4, <2>3, <2>4, WriteFacts DEF CreateUser
    <2> QED  BY <1>4, <1>t, <2>2, <2>3, <2>5, TypedStep DEF CreateUser
  <1>5. ASSUME NEW h \in Handlers, FindUser(h) PROVE TypeOK' /\ Placed'
    <2>1. ASSUME NEW u \in Uids, NEW pc \in {"startSession", "saveSession"}, GoesFor(h, pc, u),
                 pc = IF handler[h].kind = "login" THEN "startSession" ELSE "saveSession"
          PROVE  TypeOK' /\ Placed'
      <3>1. u \in Nat /\ Moves(h, pc, u)
        BY <2>1, BoundsAssumption DEF Uids, Moves
      <3>2. pc \in Pcs /\ pc # "idle" /\ Fits(pc, handler[h].kind)
        BY <1>5, <1>h, <2>1 DEF FindUser, At, Fits, Pcs
      <3> QED  BY <1>5, <1>t, <3>1, <3>2, LocalStep DEF FindUser
    <2>2. ASSUME Goes(h, "idle") PROVE TypeOK' /\ Placed'
      <3>1. "idle" \in Pcs /\ Fits("idle", "none") /\ "idle" \notin ForUser \cup {"createUser"}
        BY DEF Fits, Pcs, ForUser
      <3>2. Moves(h, "idle", handler[h].uid)
        BY <2>2 DEF Moves
      <3> QED  BY <1>5, <1>t, <1>h, <3>1, <3>2, LocalStep DEF FindUser
    <2> QED  BY <1>5, <2>1, <2>2 DEF FindUser, UserByDomain
  <1>6. ASSUME NEW h \in Handlers, startSession(h) \/ SaveSession(h) PROVE TypeOK' /\ Placed'
    <2>1. handler[h].uid \in Uids
      BY <1>6, <1>h DEF startSession, SaveSession, At, ForUser
    <2>2. NewSession(h) \in SessionType
      BY <1>t, <2>1 DEF NewSession, SessionType
    <2> PICK pc \in {"idle", "update"} :
               /\ Moves(h, pc, handler[h].uid)
               /\ pc = "update" => SaveSession(h)
               /\ pc = "idle" => startSession(h)
      BY <1>6 DEF startSession, SaveSession, Moves
    <2>3. pc \in Pcs /\ Fits(pc, IF pc = "idle" THEN "none" ELSE handler[h].kind)
      BY <1>h DEF SaveSession, At, Fits, Pcs, RowKinds
    <2>4. /\ web' \subseteq SessionType /\ sessions' \subseteq SessionType
          /\ nextToken' = nextToken + 1 /\ nextUid' = nextUid
          /\ UNCHANGED <<users, asked, past>>
      BY <1>6, <1>t, <2>2 DEF startSession, SaveSession
    <2> QED  BY <1>t, <1>h, <2>1, <2>3, <2>4, LocalStep
  <1>7. ASSUME NEW h \in Handlers, ReadCookie(h) \/ ReadSid(h) PROVE TypeOK' /\ Placed'
    <2>1. UNCHANGED <<users, nextUid, web, sessions, nextToken, asked, past>>
      BY <1>7 DEF ReadCookie, ReadSid
    <2>2. ASSUME NEW s \in web \cup sessions, NEW pc \in {"readUser", "deleteSession", "update"},
                 GoesFor(h, pc, s.uid), Fits(pc, handler[h].kind)
          PROVE  TypeOK' /\ Placed'
      <3>1. s.uid \in Uids /\ s.uid \in Nat /\ pc \in Pcs /\ pc # "idle" /\ Moves(h, pc, s.uid)
        BY <1>t, <2>2, BoundsAssumption DEF SessionType, Uids, Pcs, Moves
      <3> QED  BY <1>t, <2>1, <2>2, <3>1, LocalStep
    <2>3. ASSUME Goes(h, "idle") PROVE TypeOK' /\ Placed'
      <3>1. "idle" \in Pcs /\ Fits("idle", "none") /\ "idle" \notin ForUser \cup {"createUser"}
        BY DEF Fits, Pcs, ForUser
      <3>2. Moves(h, "idle", handler[h].uid)
        BY <2>3 DEF Moves
      <3> QED  BY <1>t, <1>h, <2>1, <3>1, <3>2, LocalStep
    <2>4. CASE ReadCookie(h)
      <3>1. Fits("readUser", handler[h].kind)
        BY <1>h, <2>4 DEF ReadCookie, At, Fits
      <3> QED  BY <2>2, <2>3, <2>4, <3>1 DEF ReadCookie
    <2>5. CASE ReadSid(h)
      <3> DEFINE to == IF handler[h].kind = "logout" THEN "deleteSession" ELSE "update"
      <3>1. Fits(to, handler[h].kind) /\ to \in {"readUser", "deleteSession", "update"}
        BY <1>h, <2>5 DEF ReadSid, At, Fits, RowKinds
      <3> QED  BY <2>2, <2>3, <2>5, <3>1 DEF ReadSid
    <2> QED  BY <1>7, <2>4, <2>5
  <1>8. ASSUME NEW h \in Handlers, ReadUser(h) PROVE TypeOK' /\ Placed'
    <2>0. /\ handler[h].uid \in Uids /\ handler[h].kind \in {"settings", "status", "avatar"}
          /\ UNCHANGED <<users, nextUid, web, sessions, nextToken, asked, past>>
      BY <1>8, <1>h DEF ReadUser, At, Fits, ForUser
    <2>1. CASE handler[h].kind = "settings"
      <3> DEFINE new == [handler[h] EXCEPT !.pc = "upsertUser", !.user = users[handler[h].uid]]
      <3>1. /\ new \in HandlerType /\ new.pc = "upsertUser" /\ new.kind = handler[h].kind
            /\ new.uid = handler[h].uid
        BY <1>t, <1>h, <2>0 DEF HandlerType, Pcs
      <3>2. handler' = [handler EXCEPT ![h] = new]
        BY <1>8, <2>1 DEF ReadUser
      <3>3. handler \in [Handlers -> HandlerType] /\ Fits("upsertUser", handler[h].kind)
        BY <2>1 DEF TypeOK, Fits
      <3> HIDE DEF new
      <3>4. /\ handler' \in [Handlers -> HandlerType] /\ handler'[h] = new
            /\ \A k \in Handlers \ {h} : handler'[k] = handler[k]
        BY <3>1, <3>2, <3>3
      <3> QED  BY <1>t, <2>0, <3>1, <3>3, <3>4, TypedStep
    <2>2. CASE handler[h].kind # "settings"
      <3>1. Moves(h, "update", handler[h].uid) /\ "update" \in Pcs
        BY <1>8, <2>2 DEF ReadUser, Moves, Pcs
      <3>2. Fits("update", handler[h].kind)
        BY <2>0, <2>2 DEF Fits, RowKinds
      <3> QED  BY <1>t, <1>h, <2>0, <3>1, <3>2, LocalStep
    <2> QED  BY <2>1, <2>2
  <1>9. ASSUME NEW h \in Handlers, Drop(h) \/ DeleteSession(h) PROVE TypeOK' /\ Placed'
    <2> PICK pc \in {"idle", "update"} :
               Moves(h, pc, handler[h].uid) /\ (pc = "update" => DeleteSession(h))
      BY <1>9 DEF Drop, DeleteSession, Moves
    <2>1. /\ pc \in Pcs /\ Fits(pc, IF pc = "idle" THEN "none" ELSE handler[h].kind)
          /\ pc \in ForUser \cup {"createUser"} => handler[h].uid \in Uids
      BY <1>h DEF DeleteSession, At, Fits, Pcs, RowKinds, ForUser
    <2>2. /\ web' \subseteq SessionType /\ sessions' \subseteq SessionType
          /\ UNCHANGED <<users, nextUid, nextToken, asked, past>>
      BY <1>9, <1>t DEF Drop, DeleteSession
    <2> QED  BY <1>t, <1>h, <2>1, <2>2, LocalStep
  <1>10. ASSUME NEW h \in Handlers, Update(h) \/ UpsertUser(h) PROVE TypeOK' /\ Placed'
    <2>1. Moves(h, "idle", handler[h].uid) /\ "idle" \in Pcs /\ handler[h].uid \in Uids
      BY <1>10, <1>h DEF Update, UpsertUser, At, Moves, Pcs, ForUser
    <2>2. /\ handler' \in [Handlers -> HandlerType]
          /\ handler'[h].pc = "idle" /\ handler'[h].kind = "none"
          /\ \A k \in Handlers \ {h} : handler'[k] = handler[k]
      BY <1>h, <2>1, MoveFacts
    <2>3. Fits("idle", "none") /\ "idle" \notin ForUser \cup {"createUser"}
      BY DEF Fits, ForUser
    <2>4. users[handler[h].uid] \in UserType /\ asked[handler[h].uid] \in UserType
      BY <1>t, <2>1
    <2>5. users' \in [Uids -> UserType] /\ asked' \in [Uids -> UserType]
      <3>1. CASE Update(h)
        BY <2>1, <2>4, <3>1, UpdatedType, WriteFacts DEF Update
      <3>2. CASE UpsertUser(h)
        <4>1. handler[h].user \in UserType
          BY <1>h DEF HandlerType
        <4> QED  BY <2>1, <2>4, <3>2, <4>1, FormType, WriteFacts DEF UpsertUser
      <3> QED  BY <1>10, <3>1, <3>2
    <2>6. UNCHANGED <<nextUid, web, sessions, nextToken, past>>
      BY <1>10 DEF Update, UpsertUser
    <2> QED  BY <1>t, <2>2, <2>3, <2>5, <2>6, TypedStep
  <1>11. CASE Crash
    BY <1>11, IdleType DEF Crash, TypeOK, Placed, Fits, ForUser
  <1>12. CASE UNCHANGED vars
    BY <1>12 DEF vars, TypeOK, Placed
  <1> QED
    BY <1>1, <1>2, <1>3, <1>4, <1>5, <1>6, <1>7, <1>8, <1>9, <1>10, <1>11, <1>12
    DEF Next, Execute

LEMMA TypedAndPlaced == Spec => [](TypeOK /\ Placed)
  <1>1. (TypeOK /\ Placed) /\ [Next]_vars => (TypeOK /\ Placed)'
    BY TypeStep
  <1> QED  BY <1>1, InitType, PTL DEF Spec

(* The tables and the sessions keep their type, and a handler that acts    *)
(* for a user has the id of one.                                           *)
THEOREM TypeCorrect == Spec => []TypeOK
  <1> QED  BY TypedAndPlaced, PTL

-----------------------------------------------------------------------------
(* What any step of a handler does to the users, the sessions and itself.  *)
IdInv == SessionsHaveUsers /\ Numbered /\ ReadLogin

KeepsRows(h) ==
    /\ \A u \in Uids : Exists(u) => users'[u].exists /\ users'[u].domain = users[u].domain
    /\ \A u \in Uids : users'[u].exists =>
          \/ Exists(u)
          \/ At(h, "createUser") /\ u = handler[h].uid /\ users'[u].domain = handler[h].login
    /\ \A u \in Uids \ {handler[h].uid} : users'[u] = users[u]
    /\ handler[h].pc \in {"createUser", "update", "upsertUser"} \/ UNCHANGED <<users, asked>>

KeepsSessions == \A s \in web' \cup sessions' : users'[s.uid].exists

GoesOn(h) ==
    /\ \A k \in Handlers \ {h} : handler'[k] = handler[k]
    /\ handler'[h].pc \in ForUser => users'[handler'[h].uid].exists
    /\ handler'[h].pc = "createUser" =>
          At(h, "nextUserID") /\ handler'[h].uid = nextUid /\ nextUid' = nextUid + 1
    /\ handler'[h].pc \in {"nextUserID", "createUser"} =>
          /\ users' = users /\ handler'[h].login = handler[h].login
          /\ \/ At(h, "nextUserID")
             \/ At(h, "loginTaken") /\ UserByDomain(handler[h].login) = {}
    /\ handler'[h].pc = "upsertUser" =>
          users' = users /\ handler'[h].user = users[handler'[h].uid]

Remembers(h) ==
    /\ past \subseteq past'
    /\ \/ handler'[h].kind \in {handler[h].kind, "none"}
       \/ \A k \in Handlers \ {h} : Overlap(handler[k].kind, handler'[h].kind) \subseteq past'

Follows(h) ==
    nextUid' >= nextUid /\ KeepsRows(h) /\ KeepsSessions /\ GoesOn(h) /\ Remembers(h)

(* A step that changes neither users nor sessions. *)
LEMMA QuietStep ==
    ASSUME TypeOK, Placed, IdInv, NEW h \in Handlers, NEW pc \in Pcs, NEW u \in Nat,
           Moves(h, pc, u), UNCHANGED <<users, asked, past>>, nextUid' >= nextUid,
           \A s \in web' \cup sessions' : s \in web \cup sessions \/ (s.uid \in Uids /\ Exists(s.uid)),
           pc \in ForUser => u \in Uids /\ Exists(u),
           pc \notin {"nextUserID", "createUser", "upsertUser"}
    PROVE  Follows(h)
  <1>1. /\ handler'[h].pc = pc
        /\ pc = "idle" => handler'[h].kind = "none"
        /\ pc # "idle" => handler'[h].kind = handler[h].kind /\ handler'[h].uid = u
        /\ \A k \in Handlers \ {h} : handler'[k] = handler[k]
    BY MoveFacts
  <1>2. KeepsRows(h)
    BY DEF KeepsRows, Exists
  <1>3. KeepsSessions
    BY DEF KeepsSessions, IdInv, SessionsHaveUsers, Exists
  <1>4. GoesOn(h)
    <2>1. pc \in ForUser => pc # "idle"
      BY DEF ForUser
    <2> QED  BY <1>1, <2>1 DEF GoesOn, Exists
  <1>5. Remembers(h)
    BY <1>1 DEF Remembers
  <1> QED  BY <1>2, <1>3, <1>4, <1>5 DEF Follows

LEMMA StepFollows ==
    ASSUME TypeOK, Placed, IdInv, NEW h \in Handlers, Request(h) \/ Execute(h)
    PROVE  Follows(h)
  <1>t. /\ users \in [Uids -> UserType] /\ nextUid \in Nat \ {0}
        /\ web \subseteq SessionType /\ sessions \subseteq SessionType
        /\ \A u \in Uids : u \in Nat
    BY BoundsAssumption DEF TypeOK, Uids
  <1>h. /\ handler[h] \in HandlerType /\ Fits(handler[h].pc, handler[h].kind)
        /\ handler[h].uid \in Nat
        /\ handler[h].pc \in ForUser \cup {"createUser"} => handler[h].uid \in Uids
        /\ handler[h].pc \in ForUser => Exists(handler[h].uid)
    BY DEF TypeOK, Placed, HandlerType, IdInv, SessionsHaveUsers
  <1>s. \A s \in web \cup sessions : s.uid \in Uids /\ Exists(s.uid)
    BY <1>t DEF SessionType, IdInv, SessionsHaveUsers
  <1>i. "idle" \in Pcs /\ "idle" \notin ForUser
    BY DEF Pcs, ForUser
  <1>1. CASE Request(h)
    <2> PICK kind \in AllKinds, pc \in {"loginTaken", "userByDomain", "cookie", "drop", "sid"},
             l \in Logins \cup {None}, text \in Texts \cup {None}, t \in Nat :
                Starts(h, kind, pc, l, text, t) /\ Fits(pc, kind)
      BY <1>1, RequestStarts
    <2>1. pc \in Pcs /\ pc \notin ForUser \cup {"createUser", "nextUserID", "upsertUser"}
      BY DEF Pcs, ForUser
    <2>2. /\ handler'[h].pc = pc /\ handler'[h].kind = kind
          /\ \A k \in Handlers \ {h} : handler'[k] = handler[k]
          /\ past \subseteq past'
          /\ UNCHANGED <<users, nextUid, web, sessions, nextToken, asked>>
      BY <2>1, StartFacts
    <2>3. \A k \in Handlers \ {h} : Overlap(handler[k].kind, kind) \subseteq past'
      BY DEF Starts
    <2> QED  BY <1>t, <1>s, <2>1, <2>2, <2>3
             DEF Follows, KeepsRows, KeepsSessions, GoesOn, Remembers, Exists
  <1>2. CASE LoginTaken(h)
    <2>1. CASE Goes(h, "idle")
      <3>1. Moves(h, "idle", handler[h].uid)
        BY <2>1 DEF Moves
      <3> QED  BY <1>2, <1>t, <1>h, <1>i, <3>1, QuietStep DEF LoginTaken
    <2>2. CASE UserByDomain(handler[h].login) = {} /\ Goes(h, "nextUserID")
      <3>1. Moves(h, "nextUserID", handler[h].uid) /\ "nextUserID" \in Pcs \ ForUser
        BY <2>2 DEF Moves, Pcs, ForUser
      <3>2. /\ handler'[h].pc = "nextUserID" /\ handler'[h].kind = handler[h].kind
            /\ handler'[h].login = handler[h].login
            /\ \A k \in Handlers \ {h} : handler'[k] = handler[k]
        BY <1>h, <3>1, MoveFacts
      <3> QED  BY <1>2, <1>t, <1>s, <2>2, <3>1, <3>2
               DEF LoginTaken, Follows, KeepsRows, KeepsSessions, GoesOn, Remembers, Exists
    <2> QED  BY <1>2, <2>1, <2>2 DEF LoginTaken
  <1>3. CASE NextUserID(h)
    <2>1. CASE nextUid' = nextUid + 1 /\ GoesFor(h, "createUser", nextUid)
      <3>1. Moves(h, "createUser", nextUid) /\ "createUser" \in Pcs \ ForUser
        BY <2>1 DEF Moves, Pcs, ForUser
      <3>2. /\ handler'[h].pc = "createUser" /\ handler'[h].kind = handler[h].kind
            /\ handler'[h].login = handler[h].login /\ handler'[h].uid = nextUid
            /\ \A k \in Handlers \ {h} : handler'[k] = handler[k]
        BY <1>t, <3>1, MoveFacts
      <3> QED  BY <1>3, <1>t, <1>s, <2>1, <3>1, <3>2
               DEF NextUserID, Follows, KeepsRows, KeepsSessions, GoesOn, Remembers, Exists, At
    <2>2. CASE Goes(h, "idle") /\ UNCHANGED nextUid
      <3>1. Moves(h, "idle", handler[h].uid)
        BY <2>2 DEF Moves
      <3> QED  BY <1>3, <1>t, <1>h, <1>i, <2>2, <3>1, QuietStep DEF NextUserID
    <2> QED  BY <1>3, <2>1, <2>2 DEF NextUserID
  <1>4. CASE CreateUser(h)
    <2>1. Moves(h, "startSession", handler[h].uid) /\ "startSession" \in Pcs
      BY <1>4 DEF CreateUser, Moves, Pcs
    <2>2. /\ handler'[h].pc = "startSession"
          /\ handler'[h].kind = handler[h].kind /\ handler'[h].uid = handler[h].uid
          /\ \A k \in Handlers \ {h} : handler'[k] = handler[k]
      BY <1>h, <2>1, MoveFacts
    <2>3. handler[h].uid \in Uids /\ ~Exists(handler[h].uid)
      BY <1>4, <1>h DEF CreateUser, At, IdInv, Numbered
    <2>4. /\ users'[handler[h].uid] = NewUser(handler[h].login)
          /\ \A v \in Uids \ {handler[h].uid} : users'[v] = users[v]
      BY <1>4, <1>t, <2>3 DEF CreateUser
    <2>5. NewUser(handler[h].login).exists /\ NewUser(handler[h].login).domain = handler[h].login
      BY DEF NewUser, NoUser
    <2>6. KeepsRows(h)
      BY <1>4, <2>3, <2>4, <2>5 DEF CreateUser, KeepsRows, Exists, At
    <2>7. KeepsSessions
      BY <1>4, <1>s, <2>6 DEF CreateUser, KeepsRows, KeepsSessions
    <2>8. GoesOn(h) /\ Remembers(h)
      BY <1>4, <2>2, <2>4, <2>5 DEF CreateUser, GoesOn, Remembers
    <2> QED  BY <1>4, <1>t, <2>6, <2>7, <2>8 DEF CreateUser, Follows
  <1>5. CASE FindUser(h)
    <2>1. ASSUME NEW u \in Uids, Exists(u), NEW pc \in {"startSession", "saveSession"}, GoesFor(h, pc, u)
          PROVE  Follows(h)
      <3>1. u \in Nat /\ Moves(h, pc, u) /\ pc \in Pcs
        BY <1>t, <2>1 DEF Moves, Pcs
      <3> QED  BY <1>5, <1>t, <2>1, <3>1, QuietStep DEF FindUser
    <2>2. CASE Goes(h, "idle")
      <3>1. Moves(h, "idle", handler[h].uid)
        BY <2>2 DEF Moves
      <3> QED  BY <1>5, <1>t, <1>h, <1>i, <3>1, QuietStep DEF FindUser
    <2> QED  BY <1>5, <2>1, <2>2 DEF FindUser, UserByDomain
  <1>6. CASE startSession(h) \/ SaveSession(h)
    <2>1. handler[h].uid \in Uids /\ Exists(handler[h].uid)
      BY <1>6, <1>h DEF startSession, SaveSession, At, ForUser
    <2>2. NewSession(h).uid = handler[h].uid
      BY DEF NewSession
    <2>3. \A s \in web' \cup sessions' : s \in web \cup sessions \/ s = NewSession(h)
      BY <1>6 DEF startSession, SaveSession
    <2> PICK pc \in {"idle", "update"} : Moves(h, pc, handler[h].uid)
      BY <1>6 DEF startSession, SaveSession, Moves
    <2>4. pc \in Pcs
      BY DEF Pcs
    <2>5. UNCHANGED <<users, asked, past>> /\ nextUid' >= nextUid
      BY <1>6, <1>t DEF startSession, SaveSession
    <2> QED  BY <1>h, <2>1, <2>2, <2>3, <2>4, <2>5, QuietStep
  <1>7. CASE ReadCookie(h) \/ ReadSid(h)
    <2>1. UNCHANGED <<users, nextUid, web, sessions, nextToken, asked, past>> /\ nextUid' >= nextUid
      BY <1>7, <1>t DEF ReadCookie, ReadSid
    <2>2. ASSUME NEW s \in web \cup sessions, NEW pc \in {"readUser", "deleteSession", "update"},
                 GoesFor(h, pc, s.uid)
          PROVE  Follows(h)
      <3>1. s.uid \in Nat /\ pc \in Pcs /\ Moves(h, pc, s.uid)
        BY <1>t, <1>s, <2>2 DEF Pcs, Moves
      <3> QED  BY <1>s, <2>1, <2>2, <3>1, QuietStep
    <2>3. CASE Goes(h, "idle")
      <3>1. Moves(h, "idle", handler[h].uid)
        BY <2>3 DEF Moves
      <3> QED  BY <1>h, <1>i, <2>1, <3>1, QuietStep
    <2>4. CASE ReadCookie(h)
      BY <2>2, <2>3, <2>4 DEF ReadCookie
    <2>5. CASE ReadSid(h)
      <3> DEFINE to == IF handler[h].kind = "logout" THEN "deleteSession" ELSE "update"
      <3>1. to \in {"readUser", "deleteSession", "update"}
        OBVIOUS
      <3> QED  BY <2>2, <2>3, <2>5, <3>1 DEF ReadSid
    <2> QED  BY <1>7, <2>4, <2>5
  <1>8. CASE ReadUser(h)
    <2>0. /\ handler[h].uid \in Uids /\ Exists(handler[h].uid)
          /\ UNCHANGED <<users, nextUid, web, sessions, nextToken, asked, past>>
      BY <1>8, <1>h DEF ReadUser, At, ForUser
    <2>1. CASE handler[h].kind = "settings"
      <3> DEFINE new == [handler[h] EXCEPT !.pc = "upsertUser", !.user = users[handler[h].uid]]
      <3>1. /\ new.pc = "upsertUser" /\ new.kind = handler[h].kind
            /\ new.uid = handler[h].uid /\ new.user = users[handler[h].uid]
        BY <1>h DEF HandlerType
      <3>2. handler' = [handler EXCEPT ![h] = new]
        BY <1>8, <2>1 DEF ReadUser
      <3>3. handler \in [Handlers -> HandlerType]
        BY DEF TypeOK
      <3> HIDE DEF new
      <3>4. handler'[h] = new /\ \A k \in Handlers \ {h} : handler'[k] = handler[k]
        BY <3>2, <3>3
      <3> QED  BY <1>t, <1>s, <2>0, <3>1, <3>4
               DEF Follows, KeepsRows, KeepsSessions, GoesOn, Remembers, Exists
    <2>2. CASE handler[h].kind # "settings"
      <3>1. Moves(h, "update", handler[h].uid) /\ "update" \in Pcs
        BY <1>8, <2>2 DEF ReadUser, Moves, Pcs
      <3> QED  BY <1>t, <1>h, <2>0, <3>1, QuietStep
    <2> QED  BY <2>1, <2>2
  <1>9. CASE Drop(h) \/ DeleteSession(h)
    <2> PICK pc \in {"idle", "update"} :
               Moves(h, pc, handler[h].uid) /\ (pc = "update" => DeleteSession(h))
      BY <1>9 DEF Drop, DeleteSession, Moves
    <2>1. pc \in Pcs /\ (pc \in ForUser => handler[h].uid \in Uids /\ Exists(handler[h].uid))
      BY <1>h DEF DeleteSession, At, Pcs, ForUser
    <2>2. /\ web' \cup sessions' \subseteq web \cup sessions /\ nextUid' >= nextUid
          /\ UNCHANGED <<users, asked, past>>
      BY <1>9, <1>t DEF Drop, DeleteSession
    <2> QED  BY <1>h, <2>1, <2>2, QuietStep
  <1>10. CASE Update(h) \/ UpsertUser(h)
    <2>1. /\ Moves(h, "idle", handler[h].uid)
          /\ handler[h].uid \in Uids /\ Exists(handler[h].uid)
          /\ handler[h].pc \in {"update", "upsertUser"}
      BY <1>10, <1>h DEF Update, UpsertUser, At, Moves, ForUser
    <2>2. /\ handler'[h].pc = "idle" /\ handler'[h].kind = "none"
          /\ \A k \in Handlers \ {h} : handler'[k] = handler[k]
      BY <1>h, <1>i, <2>1, MoveFacts
    <2>3. users[handler[h].uid] \in UserType
      BY <1>t, <2>1
    <2>4. PICK row \in UserType : /\ users' = [users EXCEPT ![handler[h].uid] = row]
                                  /\ row.exists /\ row.domain = users[handler[h].uid].domain
      <3>1. CASE Update(h)
        BY <2>1, <2>3, <3>1, UpdatedType DEF Update, Exists
      <3>2. CASE UpsertUser(h)
        <4>1. handler[h].user \in UserType
          BY <1>h DEF HandlerType
        <4>2. handler[h].user.exists /\ handler[h].user.domain = users[handler[h].uid].domain
          BY <3>2 DEF UpsertUser, IdInv, ReadLogin
        <4>3. /\ Form(h, handler[h].user) \in UserType
              /\ Form(h, handler[h].user).exists = handler[h].user.exists
              /\ Form(h, handler[h].user).domain = handler[h].user.domain
          BY <4>1, FormType
        <4>4. Form(h, handler[h].user).exists
          BY <4>2, <4>3, Zenon
        <4>5. users' = [users EXCEPT ![handler[h].uid] = Form(h, handler[h].user)]
          BY <3>2 DEF UpsertUser
        <4> QED  BY <4>2, <4>3, <4>4, <4>5
      <3> QED  BY <1>10, <3>1, <3>2
    <2>5. users'[handler[h].uid] = row /\ \A v \in Uids \ {handler[h].uid} : users'[v] = users[v]
      BY <1>t, <2>1, <2>4
    <2>6. UNCHANGED <<nextUid, web, sessions, nextToken, past>>
      BY <1>10 DEF Update, UpsertUser
    <2>7. KeepsRows(h)
      BY <2>1, <2>4, <2>5 DEF KeepsRows, Exists
    <2>8. KeepsSessions
      BY <1>s, <2>6, <2>7 DEF KeepsRows, KeepsSessions
    <2>9. GoesOn(h) /\ Remembers(h)
      BY <1>i, <2>2, <2>6 DEF GoesOn, Remembers
    <2> QED  BY <1>t, <2>6, <2>7, <2>8, <2>9 DEF Follows
  <1> QED  BY <1>1, <1>2, <1>3, <1>4, <1>5, <1>6, <1>7, <1>8, <1>9, <1>10 DEF Execute

-----------------------------------------------------------------------------
LEMMA InitIds == Init => IdInv
  BY DEF Init, IdInv, SessionsHaveUsers, Numbered, ReadLogin, Exists, NoUser, Idle, At, ForUser

(* The ids of users, the sessions and what settings have read stay right.  *)
LEMMA IdStep ==
    ASSUME TypeOK, TypeOK', Placed, IdInv, NEW h \in Handlers, Follows(h)
    PROVE  IdInv'
  <1>t. /\ nextUid \in Nat /\ nextUid' \in Nat /\ nextUid <= nextUid'
        /\ \A u \in Uids : u \in Nat
    BY BoundsAssumption DEF TypeOK, Uids, Follows
  <1>k. \A k \in Handlers \ {h} : handler'[k] = handler[k]
    BY DEF Follows, GoesOn
  <1>u. \A k \in Handlers :
           /\ handler[k].pc \in ForUser \cup {"createUser"} => handler[k].uid \in Uids
           /\ handler'[k].pc \in ForUser \cup {"createUser"} => handler'[k].uid \in Uids
    BY DEF TypeOK
  <1>1. SessionsHaveUsers'
    <2>1. ASSUME NEW k \in Handlers, handler'[k].pc \in ForUser
          PROVE  users'[handler'[k].uid].exists
      <3>1. CASE k = h
        BY <2>1, <3>1 DEF Follows, GoesOn
      <3>2. CASE k # h
        <4>1. handler[k].pc \in ForUser /\ handler'[k].uid = handler[k].uid
          BY <1>k, <2>1, <3>2
        <4>2. Exists(handler[k].uid) /\ handler[k].uid \in Uids
          BY <1>u, <4>1 DEF IdInv, SessionsHaveUsers
        <4> QED  BY <4>1, <4>2 DEF Follows, KeepsRows
      <3> QED  BY <3>1, <3>2
    <2> QED  BY <2>1 DEF SessionsHaveUsers, Exists, Follows, KeepsSessions
  <1>2. Numbered'
    <2>1. ASSUME NEW u \in Uids, users'[u].exists
          PROVE  u < nextUid'
      <3>1. Exists(u) \/ (At(h, "createUser") /\ u = handler[h].uid)
        BY <2>1 DEF Follows, KeepsRows
      <3>2. CASE Exists(u)
        BY <1>t, <3>2 DEF IdInv, Numbered
      <3>3. CASE At(h, "createUser") /\ u = handler[h].uid
        BY <1>t, <3>3 DEF IdInv, Numbered
      <3> QED  BY <3>1, <3>2, <3>3
    <2>2. ASSUME NEW k \in Handlers, handler'[k].pc = "createUser", k = h
          PROVE  handler'[k].uid = nextUid /\ nextUid' = nextUid + 1 /\ users' = users
      BY <2>2 DEF Follows, GoesOn
    <2>3. ASSUME NEW k \in Handlers, handler'[k].pc = "createUser", k # h
          PROVE  /\ At(k, "createUser") /\ handler'[k].uid = handler[k].uid
                 /\ handler[k].uid < nextUid
                 /\ handler[k].uid \in Uids /\ ~users'[handler[k].uid].exists
      <3>1. At(k, "createUser") /\ handler'[k].uid = handler[k].uid
        BY <1>k, <2>3 DEF At
      <3>2. /\ handler[k].uid \in Uids /\ ~Exists(handler[k].uid)
            /\ handler[k].uid < nextUid
            /\ At(h, "createUser") => handler[h].uid # handler[k].uid
        BY <1>u, <2>3, <3>1 DEF IdInv, Numbered, At
      <3> QED  BY <3>1, <3>2 DEF Follows, KeepsRows
    <2>4. ASSUME NEW k \in Handlers, handler'[k].pc = "createUser"
          PROVE  handler'[k].uid < nextUid' /\ ~users'[handler'[k].uid].exists
      <3>1. CASE k = h
        <4>1. handler'[k].uid = nextUid /\ nextUid' = nextUid + 1 /\ users' = users
          BY <2>2, <2>4, <3>1
        <4>2. ~Exists(nextUid)
          BY <1>t, <1>u, <2>4, <4>1 DEF IdInv, Numbered
        <4> QED  BY <1>t, <4>1, <4>2 DEF Exists
      <3>2. CASE k # h
        BY <1>t, <2>3, <2>4, <3>2
      <3> QED  BY <3>1, <3>2
    <2>5. ASSUME NEW k \in Handlers, NEW m \in Handlers \ {k},
                 handler'[k].pc = "createUser", handler'[m].pc = "createUser"
          PROVE  handler'[m].uid # handler'[k].uid
      <3>1. CASE k = h
        <4>1. handler'[k].uid = nextUid /\ handler'[m].uid < nextUid
          BY <2>2, <2>3, <2>5, <3>1
        <4>2. handler'[m].uid \in Uids
          BY <1>u, <2>5
        <4> QED  BY <1>t, <4>1, <4>2
      <3>2. CASE m = h
        <4>1. handler'[m].uid = nextUid /\ handler'[k].uid < nextUid
          BY <2>2, <2>3, <2>5, <3>2
        <4>2. handler'[k].uid \in Uids
          BY <1>u, <2>5
        <4> QED  BY <1>t, <4>1, <4>2
      <3>3. CASE k # h /\ m # h
        <4>1. /\ At(k, "createUser") /\ handler'[k].uid = handler[k].uid
              /\ At(m, "createUser") /\ handler'[m].uid = handler[m].uid
          BY <2>3, <2>5, <3>3
        <4> QED  BY <2>5, <4>1 DEF IdInv, Numbered
      <3> QED  BY <3>1, <3>2, <3>3
    <2> QED  BY <2>1, <2>4, <2>5 DEF Numbered, Exists, At
  <1>3. ReadLogin'
    <2> SUFFICES ASSUME NEW k \in Handlers, handler'[k].pc = "upsertUser"
                 PROVE  /\ handler'[k].user.exists
                        /\ handler'[k].user.domain = users'[handler'[k].uid].domain
      BY DEF ReadLogin, At
    <2>1. CASE k = h
      BY <2>1, <1>1 DEF Follows, GoesOn, SessionsHaveUsers, Exists, ForUser
    <2>2. CASE k # h
      <3>1. At(k, "upsertUser") /\ handler'[k] = handler[k]
        BY <1>k, <2>2 DEF At
      <3>2. handler[k].uid \in Uids /\ Exists(handler[k].uid)
        BY <1>u, <3>1 DEF IdInv, SessionsHaveUsers, At, ForUser
      <3>3. handler[k].user.exists /\ handler[k].user.domain = users[handler[k].uid].domain
        BY <3>1 DEF IdInv, ReadLogin
      <3> QED  BY <3>1, <3>2, <3>3 DEF Follows, KeepsRows
    <2> QED  BY <2>1, <2>2
  <1> QED  BY <1>1, <1>2, <1>3 DEF IdInv

LEMMA IdCrash == ASSUME IdInv, Crash PROVE IdInv'
  <1>1. \A k \in Handlers : handler'[k].pc = "idle"
    BY DEF Crash, Idle
  <1> QED
    BY <1>1 DEF IdInv, Crash, SessionsHaveUsers, Numbered, ReadLogin, Exists, At, ForUser

LEMMA IdStutter == ASSUME IdInv, UNCHANGED vars PROVE IdInv'
  BY DEF IdInv, vars, SessionsHaveUsers, Numbered, ReadLogin, Exists, At

LEMMA IdAlways == Spec => [](TypeOK /\ Placed /\ IdInv)
  <1>1. (TypeOK /\ Placed /\ IdInv) /\ [Next]_vars => (TypeOK /\ Placed /\ IdInv)'
    <2> SUFFICES ASSUME TypeOK, Placed, IdInv, [Next]_vars PROVE IdInv'
      BY TypeStep
    <2>1. TypeOK'
      BY TypeStep
    <2>2. ASSUME NEW h \in Handlers, Request(h) \/ Execute(h) PROVE IdInv'
      BY <2>1, <2>2, StepFollows, IdStep
    <2> QED  BY <2>2, IdCrash, IdStutter DEF Next
  <1> QED  BY <1>1, InitType, InitIds, PTL DEF Spec

(* Every session, in memory or in the table, belongs to a user who is in   *)
(* the table, and so does every request on behalf of a user, over crashes  *)
(* between the steps of a registration.                                    *)
THEOREM SessionsAlwaysHaveUsers == Spec => []SessionsHaveUsers
  <1>1. TypeOK /\ Placed /\ IdInv => SessionsHaveUsers
    BY DEF IdInv
  <1> QED  BY <1>1, IdAlways, PTL

(* No step takes a user or his login away, though settings write the whole *)
(* row they have read.                                                     *)
THEOREM LoginsAreKept == Spec => LoginIsKept
  <1> DEFINE Kept == \A u \in Uids :
                        Exists(u) => /\ users'[u].exists
                                     /\ users'[u].domain = users[u].domain
  <1>1. TypeOK /\ Placed /\ IdInv /\ [Next]_vars => [Kept]_vars
    <2> SUFFICES ASSUME TypeOK, Placed, IdInv, Next PROVE Kept
      OBVIOUS
    <2>1. ASSUME NEW h \in Handlers, Request(h) \/ Execute(h) PROVE Kept
      BY <2>1, StepFollows DEF Follows, KeepsRows
    <2>2. CASE Crash
      BY <2>2 DEF Crash, Exists
    <2> QED  BY <2>1, <2>2 DEF Next
  <1> QED  BY <1>1, IdAlways, PTL DEF Spec, LoginIsKept

-----------------------------------------------------------------------------
TurnInv == StillFree /\ UniqueInTurn

LEMMA TurnStep ==
    ASSUME TypeOK, Placed, IdInv, TurnInv, NEW h \in Handlers, Follows(h)
    PROVE  TurnInv'
  <1> SUFFICES ASSUME "registrations" \notin past'
               PROVE  StillFree' /\ UniqueDomains'
    BY DEF TurnInv, StillFree, UniqueInTurn
  <1>p. "registrations" \notin past
    BY DEF Follows, Remembers
  <1>k. \A k \in Handlers \ {h} : handler'[k] = handler[k]
    BY DEF Follows, GoesOn
  <1>h. \A k \in Handlers : At(k, "nextUserID") \/ At(k, "createUser") => handler[k].kind = "register"
    BY DEF Placed, Fits, At
  (* A registration is alone. *)
  <1>a. ASSUME NEW g \in Handlers, NEW k \in Handlers \ {g},
               handler[g].kind = "register"
        PROVE  handler[k].kind # "register"
    BY <1>p, <1>a DEF TurnInv, StillFree
  <1>b. ASSUME NEW k \in Handlers \ {h}, handler[k].kind = "register"
        PROVE  handler'[h].kind # "register"
    <2>1. CASE handler'[h].kind \in {handler[h].kind, "none"}
      BY <1>a, <1>b, <2>1
    <2>2. CASE Overlap(handler[k].kind, handler'[h].kind) \subseteq past'
      BY <1>b, <2>2 DEF Overlap, Tags
    <2> QED  BY <2>1, <2>2 DEF Follows, Remembers
  <1>1. ASSUME NEW g \in Handlers, NEW k \in Handlers \ {g}, handler'[g].kind = "register"
        PROVE  handler'[k].kind # "register"
    <2>1. CASE g = h
      BY <1>1, <1>b, <1>k, <2>1
    <2>2. CASE k = h
      BY <1>1, <1>b, <1>k, <2>2
    <2>3. CASE g # h /\ k # h
      BY <1>1, <1>a, <1>k, <2>3
    <2> QED  BY <2>1, <2>2, <2>3
  <1>2. ASSUME NEW g \in Handlers, handler'[g].kind = "register",
               handler'[g].pc \in {"nextUserID", "createUser"},
               NEW u \in Uids, users'[u].exists
        PROVE  users'[u].domain # handler'[g].login
    <2>1. CASE g = h
      <3>1. /\ users' = users /\ handler'[h].login = handler[h].login
            /\ \/ At(h, "nextUserID")
               \/ At(h, "loginTaken") /\ UserByDomain(handler[h].login) = {}
        BY <1>2, <2>1 DEF Follows, GoesOn
      <3>2. CASE At(h, "nextUserID")
        BY <1>p, <1>h, <1>2, <2>1, <3>1, <3>2 DEF TurnInv, StillFree, At, Exists
      <3>3. CASE UserByDomain(handler[h].login) = {}
        BY <1>2, <2>1, <3>1, <3>3 DEF UserByDomain, Exists
      <3> QED  BY <3>1, <3>2, <3>3
    <2>2. CASE g # h
      <3>1. handler'[g] = handler[g]
        BY <1>k, <2>2
      <3>2. ~At(h, "createUser")
        BY <1>2, <1>a, <1>h, <2>2, <3>1
      <3>3. Exists(u) /\ users'[u].domain = users[u].domain
        BY <1>2, <3>2 DEF Follows, KeepsRows
      <3> QED  BY <1>p, <1>2, <3>1, <3>3 DEF TurnInv, StillFree
    <2> QED  BY <2>1, <2>2
  <1>3. StillFree'
    BY <1>1, <1>2 DEF StillFree, Exists
  <1>4. ASSUME NEW u \in Uids, NEW v \in Uids, users'[u].exists, users'[v].exists,
               users'[u].domain = users'[v].domain
        PROVE  u = v
    <2>1. CASE Exists(u) /\ Exists(v)
      <3>1. users[u].domain = users[v].domain
        BY <1>4, <2>1 DEF Follows, KeepsRows
      <3> QED  BY <1>p, <2>1, <3>1 DEF TurnInv, UniqueInTurn, UniqueDomains
    <2>2. ASSUME NEW w \in Uids, NEW new \in Uids, ~Exists(new), users'[new].exists
          PROVE  /\ new = handler[h].uid
                 /\ Exists(w) => users'[w].domain # users'[new].domain
      <3>1. /\ At(h, "createUser") /\ new = handler[h].uid
            /\ users'[new].domain = handler[h].login
        BY <2>2 DEF Follows, KeepsRows
      <3>2. Exists(w) => users[w].domain # handler[h].login
        BY <1>p, <1>h, <3>1 DEF TurnInv, StillFree, At
      <3>3. Exists(w) => users'[w].domain = users[w].domain
        BY DEF Follows, KeepsRows
      <3> QED  BY <3>1, <3>2, <3>3
    <2>3. CASE ~Exists(u) \/ ~Exists(v)
      BY <1>4, <2>2, <2>3
    <2> QED  BY <2>1, <2>3
  <1>5. UniqueDomains'
    BY <1>4 DEF UniqueDomains, Exists
  <1> QED  BY <1>3, <1>5

(* No two users have one login, as long as no two registrations overlap:   *)
(* a login that was found free is still free when its user is inserted.    *)
THEOREM LoginsAreUniqueInTurn == Spec => []UniqueInTurn
  <1>1. Init => TurnInv
    BY DEF Init, TurnInv, StillFree, UniqueInTurn, UniqueDomains, Exists, NoUser, Idle
  <1>2. TypeOK /\ Placed /\ IdInv /\ TurnInv /\ [Next]_vars => TurnInv'
    <2> SUFFICES ASSUME TypeOK, Placed, IdInv, TurnInv, [Next]_vars PROVE TurnInv'
      OBVIOUS
    <2>1. ASSUME NEW h \in Handlers, Request(h) \/ Execute(h) PROVE TurnInv'
      BY <2>1, StepFollows, TurnStep
    <2>2. CASE Crash
      <3>1. \A k \in Handlers : handler'[k].kind = "none"
        BY <2>2 DEF Crash, Idle
      <3> QED
        BY <2>2, <3>1 DEF Crash, TurnInv, StillFree, UniqueInTurn, UniqueDomains, Exists
    <2>3. CASE UNCHANGED vars
      BY <2>3 DEF vars, TurnInv, StillFree, UniqueInTurn, UniqueDomains, Exists
    <2> QED  BY <2>1, <2>2, <2>3 DEF Next
  <1>3. TurnInv => UniqueInTurn
    BY DEF TurnInv
  <1> QED  BY <1>1, <1>2, <1>3, IdAlways, PTL DEF Spec

-----------------------------------------------------------------------------
RestInv == ReadFresh /\ SettingsKeepTheRest

(* What was written is what was asked for. *)
LEMMA RowAsAsked ==
    ASSUME TypeOK, Placed, IdInv, RestInv, NEW h \in Handlers, Request(h) \/ Execute(h),
           Follows(h), "settings" \notin past'
    PROVE  users' = asked'
  <1>p. "settings" \notin past /\ users = asked
    BY DEF Follows, Remembers, RestInv, SettingsKeepTheRest
  <1>1. CASE CreateUser(h)
    BY <1>p, <1>1 DEF CreateUser, Asks
  <1>2. CASE Update(h)
    BY <1>p, <1>2 DEF Update, Asks
  <1>3. CASE UpsertUser(h)
    <2>1. handler[h].user = asked[handler[h].uid]
      BY <1>p, <1>3 DEF UpsertUser, RestInv, ReadFresh
    <2> QED  BY <1>p, <1>3, <2>1 DEF UpsertUser, Asks
  <1>4. CASE handler[h].pc \notin {"createUser", "update", "upsertUser"}
    BY <1>p, <1>4 DEF Follows, KeepsRows
  <1>5. Request(h) => handler[h].pc = "idle"
    <2> SUFFICES ASSUME Request(h) PROVE handler[h].pc = "idle"
      OBVIOUS
    <2> PICK kind \in AllKinds, pc \in {"loginTaken", "userByDomain", "cookie", "drop", "sid"},
             l \in Logins \cup {None}, text \in Texts \cup {None}, t \in Nat :
                Starts(h, kind, pc, l, text, t)
      BY RequestStarts
    <2> QED  BY DEF Starts
  <1>6. Execute(h) /\ handler[h].pc \in {"createUser", "update", "upsertUser"} =>
           CreateUser(h) \/ Update(h) \/ UpsertUser(h)
    BY DEF Execute, At, LoginTaken, NextUserID, FindUser, startSession, SaveSession,
           ReadCookie, ReadUser, Drop, ReadSid, DeleteSession
  <1> QED  BY <1>1, <1>2, <1>3, <1>4, <1>5, <1>6

LEMMA RestStep ==
    ASSUME TypeOK, Placed, IdInv, RestInv, NEW h \in Handlers, Request(h) \/ Execute(h),
           Follows(h)
    PROVE  RestInv'
  <1> SUFFICES ASSUME "settings" \notin past'
               PROVE  ReadFresh' /\ users' = asked'
    BY DEF RestInv, ReadFresh, SettingsKeepTheRest
  <1>p. "settings" \notin past
    BY DEF Follows, Remembers
  <1>k. \A k \in Handlers \ {h} : handler'[k] = handler[k]
    BY DEF Follows, GoesOn
  (* Who serves a settings form is the only one to write a row. *)
  <1>a. ASSUME NEW g \in Handlers, NEW k \in Handlers \ {g}, handler[g].kind = "settings"
        PROVE  handler[k].kind \notin RowKinds
    BY <1>p, <1>a DEF RestInv, ReadFresh
  <1>b. ASSUME NEW k \in Handlers \ {h},
               {handler[k].kind, handler'[h].kind} \subseteq RowKinds
        PROVE  "settings" \notin {handler[k].kind, handler'[h].kind}
    <2>1. CASE handler'[h].kind = handler[h].kind
      BY <1>a, <1>b, <2>1
    <2>2. CASE handler'[h].kind = "none"
      BY <1>b, <2>2 DEF RowKinds
    <2>3. CASE Overlap(handler[k].kind, handler'[h].kind) \subseteq past'
      BY <1>b, <2>3 DEF Overlap, Tags
    <2> QED  BY <2>1, <2>2, <2>3 DEF Follows, Remembers
  <1>1. ASSUME NEW g \in Handlers, NEW k \in Handlers \ {g}, handler'[g].kind = "settings"
        PROVE  handler'[k].kind \notin RowKinds
    <2>0. "settings" \in RowKinds
      BY DEF RowKinds
    <2>1. CASE g = h
      BY <1>1, <1>b, <1>k, <2>0, <2>1
    <2>2. CASE k = h
      BY <1>1, <1>b, <1>k, <2>0, <2>2
    <2>3. CASE g # h /\ k # h
      BY <1>1, <1>a, <1>k, <2>3
    <2> QED  BY <2>1, <2>2, <2>3
  <1>2. ASSUME NEW g \in Handlers, handler'[g].pc = "upsertUser"
        PROVE  handler'[g].user = users'[handler'[g].uid]
    <2>1. CASE g = h
      BY <1>2, <2>1 DEF Follows, GoesOn
    <2>2. CASE g # h
      <3>1. At(g, "upsertUser") /\ handler'[g] = handler[g] /\ handler[g].kind = "settings"
        BY <1>2, <1>k, <2>2 DEF Placed, Fits, At
      <3>2. handler[g].user = users[handler[g].uid]
        BY <1>p, <3>1 DEF RestInv, ReadFresh
      <3>3. handler[g].uid \in Uids /\ Exists(handler[g].uid)
        BY <3>1 DEF TypeOK, IdInv, SessionsHaveUsers, At, ForUser
      <3>4. handler[h].kind \notin RowKinds
        BY <1>a, <2>2, <3>1
      <3>5. handler[h].pc \notin {"update", "upsertUser"}
        BY <3>4 DEF Placed, Fits, RowKinds
      <3>6. CASE At(h, "createUser")
        <4>1. handler[g].uid # handler[h].uid
          BY <3>3, <3>6 DEF IdInv, Numbered
        <4> QED  BY <3>1, <3>2, <3>3, <4>1 DEF Follows, KeepsRows
      <3>7. CASE users' = users
        BY <3>1, <3>2, <3>7
      <3> QED  BY <3>5, <3>6, <3>7 DEF Follows, KeepsRows, At
    <2> QED  BY <2>1, <2>2
  <1>3. ReadFresh'
    BY <1>1, <1>2 DEF ReadFresh, At
  <1> QED  BY <1>3, RowAsAsked

(* Every column of a user is what was last asked for it, as long as no     *)
(* settings form is served at the same time as another request that writes *)
(* a row.                                                                  *)
THEOREM SettingsAlwaysKeepTheRest == Spec => []SettingsKeepTheRest
  <1>1. Init => RestInv
    BY DEF Init, RestInv, ReadFresh, SettingsKeepTheRest, At, Idle
  <1>2. TypeOK /\ Placed /\ IdInv /\ RestInv /\ [Next]_vars => RestInv'
    <2> SUFFICES ASSUME TypeOK, Placed, IdInv, RestInv, [Next]_vars PROVE RestInv'
      OBVIOUS
    <2>1. ASSUME NEW h \in Handlers, Request(h) \/ Execute(h) PROVE RestInv'
      BY <2>1, StepFollows, RestStep
    <2>2. CASE Crash
      <3>1. \A k \in Handlers : handler'[k].kind = "none" /\ handler'[k].pc = "idle"
        BY <2>2 DEF Crash, Idle
      <3> QED
        BY <2>2, <3>1 DEF Crash, RestInv, ReadFresh, SettingsKeepTheRest, At
    <2>3. CASE UNCHANGED vars
      BY <2>3 DEF vars, RestInv, ReadFresh, SettingsKeepTheRest, At
    <2> QED  BY <2>1, <2>2, <2>3 DEF Next
  <1>3. RestInv => SettingsKeepTheRest
    BY DEF RestInv
  <1> QED  BY <1>1, <1>2, <1>3, IdAlways, PTL DEF Spec
=============================================================================
