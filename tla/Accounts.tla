------------------------------ MODULE Accounts ------------------------------
(***************************************************************************)
(* Accounts, sessions and profiles: internal/store/register.go, users.go   *)
(* and the session part of friends.go, with their callers                  *)
(* internal/web/web.go, session.go and social.go, internal/api/auth.go,    *)
(* messages.go (activity.online) and audio.go (status.set).                *)
(*                                                                         *)
(* Every SQL statement, and every critical section of the web version's    *)
(* session store, is one action.  Sessions of the web version are in       *)
(* memory and end with the process, those of the API are rows.  Passwords  *)
(* are left out: a login that finds a user may still be refused.  A row    *)
(* has the columns that say who the user is (domain, phone), and one of    *)
(* each sort of the rest: status, which the settings form has too, avatar  *)
(* and online, which it does not.                                          *)
(***************************************************************************)
EXTENDS Naturals, FiniteSets

CONSTANTS
    Logins,      \* what can be a login or a phone number
    Texts,       \* what can be a status or the URL of an avatar
    Handlers,    \* goroutines that serve requests
    MaxUsers,    \* bound: users ever registered
    MaxTokens,   \* bound: sessions ever started
    Crashes,     \* may the process be killed?
    None         \* an empty column

ASSUME BoundsAssumption == MaxUsers \in Nat /\ MaxTokens \in Nat
ASSUME NoneAssumption == None \notin Logins

Uids == 1..MaxUsers

VARIABLES
    users,       \* table users; NoUser: no row
    nextUid,     \* counter "user"
    web,         \* sessionStore.sessions
    sessions,    \* table sessions
    nextToken,   \* the next token or sid; they are taken never to repeat
    handler,     \* what each handler does next, and its local variables
    asked,       \* history: the profile each user asked for, field by field
    past         \* history: what has happened, see Tags

vars == <<users, nextUid, web, sessions, nextToken, handler, asked, past>>

NoUser == [exists |-> FALSE, domain |-> None, phone |-> None,
           status |-> None, avatar |-> None, online |-> FALSE]

Exists(u) == users[u].exists

(* login: also the phone number in the form of the settings; user: the row *)
(* that handleSettings has read.                                           *)
Idle == [pc |-> "idle", kind |-> "none", login |-> None, text |-> None,
         token |-> 0, uid |-> 0, user |-> NoUser]

Init ==
    /\ users = [u \in Uids |-> NoUser]
    /\ nextUid = 1
    /\ web = {}
    /\ sessions = {}
    /\ nextToken = 1
    /\ handler = [h \in Handlers |-> Idle]
    /\ asked = [u \in Uids |-> NoUser]
    /\ past = {}

-----------------------------------------------------------------------------
(* Requests.  What past remembers: two registrations at the same time, a   *)
(* settings form at the same time as another request that writes a row.    *)
Tags == {"registrations", "settings"}

EntryKinds == {"register", "login", "getSession"}
RowKinds == {"settings", "status", "avatar", "statusSet", "getSession", "logout", "online"}
AllKinds == EntryKinds \cup RowKinds \cup {"webLogout"}

Overlap(a, b) ==
    {tag \in Tags :
        \/ tag = "registrations" /\ a = "register" /\ b = "register"
        \/ tag = "settings" /\ "settings" \in {a, b} /\ {a, b} \subseteq RowKinds}

Starts(h, kind, pc, login, text, token) ==
    /\ handler[h].pc = "idle"
    /\ handler' = [handler EXCEPT ![h] = [Idle EXCEPT !.pc = pc, !.kind = kind,
                      !.login = login, !.text = text, !.token = token]]
    /\ past' = past \cup UNION {Overlap(handler[k].kind, kind) : k \in Handlers \ {h}}
    /\ UNCHANGED <<users, nextUid, web, sessions, nextToken, asked>>

(* Handlers that may start a session, for the bound. *)
Entering == {h \in Handlers : handler[h].kind \in EntryKinds}

Enters(h, kind, pc, l) ==
    /\ nextToken + Cardinality(Entering) <= MaxTokens
    /\ Starts(h, kind, pc, l, None, 0)

handleRegister(h, l) == Enters(h, "register", "loginTaken", l)
handleLogin(h, l) == Enters(h, "login", "userByDomain", l)
authGetSession(h, l) == Enters(h, "getSession", "userByDomain", l)

(* A client sends the token of a session it was given; it may be over.     *)
handleSettings(h, t, phone, text) == Starts(h, "settings", "cookie", phone, text, t)
handleStatus(h, t, text) == Starts(h, "status", "cookie", None, text, t)
handleUploadAvatar(h, t, text) == Starts(h, "avatar", "cookie", None, text, t)
handleLogout(h, t) == Starts(h, "webLogout", "drop", None, None, t)
statusSet(h, t, text) == Starts(h, "statusSet", "sid", None, text, t)
authLogout(h, t) == Starts(h, "logout", "sid", None, None, t)
activityOnline(h, t) == Starts(h, "online", "sid", None, None, t)

-----------------------------------------------------------------------------
(* Steps of a handler. *)
At(h, pc) == handler[h].pc = pc

(* A handler goes on, and forgets what it no longer needs (fewer states).  *)
Onward(step, pc) ==
    CASE pc = "idle" -> Idle
      [] pc \in {"startSession", "saveSession"} -> [step EXCEPT !.pc = pc, !.login = None]
      [] pc \in {"readUser", "update"} -> [step EXCEPT !.pc = pc, !.token = 0]
      [] OTHER -> [step EXCEPT !.pc = pc]

Goes(h, pc) == handler' = [handler EXCEPT ![h] = Onward(@, pc)]

GoesFor(h, pc, u) == handler' = [handler EXCEPT ![h] = Onward([@ EXCEPT !.uid = u], pc)]

(* The users with this login or phone; which one the store takes when      *)
(* there are several, the query does not say.                              *)
UserByDomain(l) == {u \in Uids : Exists(u) /\ l \in {users[u].domain, users[u].phone}}

(* Mutant: only phone numbers are compared. *)
LoginTakenByPhone(h) ==
    /\ At(h, "loginTaken")
    /\ Goes(h, IF \E u \in Uids : Exists(u) /\ users[u].phone = handler[h].login
               THEN "idle" ELSE "nextUserID")
    /\ UNCHANGED <<users, nextUid, web, sessions, nextToken, asked, past>>

LoginTaken(h) ==
    /\ At(h, "loginTaken")
    /\ Goes(h, IF UserByDomain(handler[h].login) # {} THEN "idle" ELSE "nextUserID")
    /\ UNCHANGED <<users, nextUid, web, sessions, nextToken, asked, past>>

(* Mutant: the session comes before the row. *)
NextUserIDAndSession(h) ==
    /\ At(h, "nextUserID")
    /\ nextUid <= MaxUsers
    /\ nextUid' = nextUid + 1
    /\ web' = web \cup {[token |-> nextToken, uid |-> nextUid]}
    /\ nextToken' = nextToken + 1
    /\ GoesFor(h, "createUser", nextUid)
    /\ UNCHANGED <<users, sessions, asked, past>>

(* Store.nextID (see StoreIds), which may fail. *)
NextUserID(h) ==
    /\ At(h, "nextUserID")
    /\ \/ /\ nextUid <= MaxUsers
          /\ nextUid' = nextUid + 1
          /\ GoesFor(h, "createUser", nextUid)
       \/ Goes(h, "idle") /\ UNCHANGED nextUid
    /\ UNCHANGED <<users, web, sessions, nextToken, asked, past>>

(* What was asked for is no longer followed after a race of the settings.  *)
Asks(u, profile) ==
    asked' = IF "settings" \in past THEN users' ELSE [asked EXCEPT ![u] = profile]

NewUser(l) == [NoUser EXCEPT !.exists = TRUE, !.domain = l, !.online = TRUE]

CreateUser(h) ==
    /\ At(h, "createUser")
    /\ users' = [users EXCEPT ![handler[h].uid] = NewUser(handler[h].login)]
    /\ Asks(handler[h].uid, NewUser(handler[h].login))
    /\ Goes(h, "startSession")
    /\ UNCHANGED <<nextUid, web, sessions, nextToken, past>>

(* No such user, or the wrong password: the request ends. *)
FindUser(h) ==
    /\ At(h, "userByDomain")
    /\ \/ \E u \in UserByDomain(handler[h].login) :
             GoesFor(h, IF handler[h].kind = "login" THEN "startSession" ELSE "saveSession", u)
       \/ Goes(h, "idle")
    /\ UNCHANGED <<users, nextUid, web, sessions, nextToken, asked, past>>

NewSession(h) == [token |-> nextToken, uid |-> handler[h].uid]

startSession(h) ==
    /\ At(h, "startSession")
    /\ web' = web \cup {NewSession(h)}
    /\ nextToken' = nextToken + 1
    /\ Goes(h, "idle")
    /\ UNCHANGED <<users, nextUid, sessions, asked, past>>

SaveSession(h) ==
    /\ At(h, "saveSession")
    /\ sessions' = sessions \cup {NewSession(h)}
    /\ nextToken' = nextToken + 1
    /\ Goes(h, "update")
    /\ UNCHANGED <<users, nextUid, web, asked, past>>

(* Server.current: sessionStore.uid, then Store.User. *)
ReadCookie(h) ==
    /\ At(h, "cookie")
    /\ \/ \E s \in web : s.token = handler[h].token /\ GoesFor(h, "readUser", s.uid)
       \/ (\A s \in web : s.token # handler[h].token) /\ Goes(h, "idle")
    /\ UNCHANGED <<users, nextUid, web, sessions, nextToken, asked, past>>

(* Only handleSettings writes back what it has read. *)
ReadUser(h) ==
    /\ At(h, "readUser")
    /\ IF handler[h].kind = "settings"
       THEN handler' = [handler EXCEPT ![h].pc = "upsertUser", ![h].user = users[handler[h].uid]]
       ELSE Goes(h, "update")
    /\ UNCHANGED <<users, nextUid, web, sessions, nextToken, asked, past>>

Drop(h) ==
    /\ At(h, "drop")
    /\ web' = {s \in web : s.token # handler[h].token}
    /\ Goes(h, "idle")
    /\ UNCHANGED <<users, nextUid, sessions, nextToken, asked, past>>

(* handleAPI looks up the sid.  An unknown one is user 0, who has no row:  *)
(* the statements to come change nothing, and are left out.                *)
ReadSid(h) ==
    /\ At(h, "sid")
    /\ \/ \E s \in sessions :
             /\ s.token = handler[h].token
             /\ GoesFor(h, IF handler[h].kind = "logout" THEN "deleteSession" ELSE "update", s.uid)
       \/ (\A s \in sessions : s.token # handler[h].token) /\ Goes(h, "idle")
    /\ UNCHANGED <<users, nextUid, web, sessions, nextToken, asked, past>>

DeleteSession(h) ==
    /\ At(h, "deleteSession")
    /\ sessions' = {s \in sessions : s.token # handler[h].token}
    /\ Goes(h, "update")
    /\ UNCHANGED <<users, nextUid, web, nextToken, asked, past>>

(* UpdateUserStatus, SetUserAvatar, SetUserOnline: one column. *)
Updated(h, row) ==
    CASE handler[h].kind \in {"status", "statusSet"} -> [row EXCEPT !.status = handler[h].text]
      [] handler[h].kind = "avatar" -> [row EXCEPT !.avatar = handler[h].text]
      [] handler[h].kind \in {"getSession", "online"} -> [row EXCEPT !.online = TRUE]
      [] handler[h].kind = "logout" -> [row EXCEPT !.online = FALSE]

Update(h) ==
    /\ At(h, "update")
    /\ users' = [users EXCEPT ![handler[h].uid] = Updated(h, @)]
    /\ Asks(handler[h].uid, Updated(h, asked[handler[h].uid]))
    /\ Goes(h, "idle")
    /\ UNCHANGED <<nextUid, web, sessions, nextToken, past>>

Form(h, row) == [row EXCEPT !.phone = handler[h].login, !.status = handler[h].text]

(* Mutants: the form has a login as well; what it lacks is written empty.  *)
UpsertLogin(h) ==
    /\ At(h, "upsertUser")
    /\ users' = [users EXCEPT ![handler[h].uid] =
                    [Form(h, handler[h].user) EXCEPT !.domain = handler[h].login]]
    /\ Asks(handler[h].uid, Form(h, asked[handler[h].uid]))
    /\ Goes(h, "idle")
    /\ UNCHANGED <<nextUid, web, sessions, nextToken, past>>

UpsertForm(h) ==
    /\ At(h, "upsertUser")
    /\ users' = [users EXCEPT ![handler[h].uid] =
                    Form(h, [NewUser(handler[h].user.domain) EXCEPT !.online = FALSE])]
    /\ Asks(handler[h].uid, Form(h, asked[handler[h].uid]))
    /\ Goes(h, "idle")
    /\ UNCHANGED <<nextUid, web, sessions, nextToken, past>>

(* applySettings puts the form into the row that was read, and writes all  *)
(* its columns back.                                                       *)
UpsertUser(h) ==
    /\ At(h, "upsertUser")
    /\ users' = [users EXCEPT ![handler[h].uid] = Form(h, handler[h].user)]
    /\ Asks(handler[h].uid, Form(h, asked[handler[h].uid]))
    /\ Goes(h, "idle")
    /\ UNCHANGED <<nextUid, web, sessions, nextToken, past>>

(* The process is killed and starts again. *)
Crash ==
    /\ Crashes
    /\ web' = {}
    /\ handler' = [h \in Handlers |-> Idle]
    /\ UNCHANGED <<users, nextUid, sessions, nextToken, asked, past>>

Execute(h) ==
    \/ LoginTaken(h) \/ NextUserID(h) \/ CreateUser(h) \/ FindUser(h)
    \/ startSession(h) \/ SaveSession(h) \/ ReadCookie(h) \/ ReadUser(h) \/ Drop(h)
    \/ ReadSid(h) \/ DeleteSession(h) \/ Update(h) \/ UpsertUser(h)

Request(h) ==
    \/ \E l \in Logins : handleRegister(h, l) \/ handleLogin(h, l) \/ authGetSession(h, l)
    \/ \E t \in 1..(nextToken - 1) :
          \/ handleLogout(h, t) \/ authLogout(h, t) \/ activityOnline(h, t)
          \/ \E text \in Texts :
                \/ handleStatus(h, t, text) \/ handleUploadAvatar(h, t, text)
                \/ statusSet(h, t, text)
                \/ \E phone \in Logins \cup {None} : handleSettings(h, t, phone, text)

Next == (\E h \in Handlers : Request(h) \/ Execute(h)) \/ Crash

Spec == Init /\ [][Next]_vars

-----------------------------------------------------------------------------
Pcs == {"idle", "loginTaken", "nextUserID", "createUser", "userByDomain", "startSession",
        "saveSession", "cookie", "readUser", "drop", "sid", "deleteSession", "update", "upsertUser"}

(* A handler there acts for a user. *)
ForUser == {"startSession", "saveSession", "readUser", "deleteSession", "update", "upsertUser"}

UserType == [exists : BOOLEAN, domain : Logins \cup {None}, phone : Logins \cup {None},
             status : Texts \cup {None}, avatar : Texts \cup {None}, online : BOOLEAN]

SessionType == [token : Nat, uid : Uids]

HandlerType == [pc : Pcs, kind : AllKinds \cup {"none"}, login : Logins \cup {None},
                text : Texts \cup {None}, token : Nat, uid : Nat, user : UserType]

(* Type invariant.  Who acts for a user acts for one of the table: an id   *)
(* is given out before its row is there, a session after.                  *)
TypeOK ==
    /\ users \in [Uids -> UserType]
    /\ nextUid \in Nat \ {0}
    /\ web \subseteq SessionType
    /\ sessions \subseteq SessionType
    /\ nextToken \in Nat \ {0}
    /\ handler \in [Handlers -> HandlerType]
    /\ asked \in [Uids -> UserType]
    /\ past \subseteq Tags
    /\ \A h \in Handlers : handler[h].pc \in ForUser \cup {"createUser"} => handler[h].uid \in Uids

UniqueDomains ==
    \A u, v \in Uids : Exists(u) /\ Exists(v) /\ users[u].domain = users[v].domain => u = v

(* A test (TestRegisterRejectsDuplicateLogin) and ErrLoginTaken say that a *)
(* login is registered once.                                               *)
UniqueLogins == UniqueDomains

(* It is, as long as no two registrations overlap, whatever logins, phone  *)
(* numbers and settings come between.                                      *)
UniqueInTurn == "registrations" \notin past => UniqueDomains

(* A login belongs to its user for good: settings write the whole row, and *)
(* write it late, but never change the login, nor bring one to a row that  *)
(* has none.                                                               *)
LoginIsKept ==
    [][\A u \in Uids : Exists(u) => /\ users'[u].exists
                                    /\ users'[u].domain = users[u].domain]_vars

(* Every session is one of a registered user, over crashes between the     *)
(* steps of a registration: whoever is logged in has a row to be updated.  *)
SessionsHaveUsers ==
    /\ \A s \in web \cup sessions : Exists(s.uid)
    /\ \A h \in Handlers : handler[h].pc \in ForUser => Exists(handler[h].uid)

(* A profile is what its user asked for, field by field, as long as no     *)
(* settings form is served at the same time as another request that writes *)
(* a row: the form is written back with the columns it does not have as    *)
(* they were read.                                                         *)
SettingsKeepTheRest == "settings" \notin past => users = asked

-----------------------------------------------------------------------------
(* The inductive invariants behind them. *)

(* What kind of request a handler can be serving where it is.              *)
Fits(pc, kind) ==
    /\ pc = "idle" <=> kind = "none"
    /\ pc \in {"loginTaken", "nextUserID", "createUser"} => kind = "register"
    /\ pc = "userByDomain" => kind \in {"login", "getSession"}
    /\ pc = "startSession" => kind \in {"register", "login"}
    /\ pc = "saveSession" => kind = "getSession"
    /\ pc \in {"cookie", "readUser"} => kind \in {"settings", "status", "avatar"}
    /\ pc = "drop" => kind = "webLogout"
    /\ pc = "sid" => kind \in {"statusSet", "logout", "online"}
    /\ pc = "deleteSession" => kind = "logout"
    /\ pc = "update" => kind \in RowKinds \ {"settings"}
    /\ pc = "upsertUser" => kind = "settings"

Placed == \A h \in Handlers : Fits(handler[h].pc, handler[h].kind)

(* A new row is new: its id was given out, to this handler only.           *)
Numbered ==
    /\ \A u \in Uids : Exists(u) => u < nextUid
    /\ \A h \in Handlers :
         At(h, "createUser") =>
            /\ handler[h].uid < nextUid
            /\ ~Exists(handler[h].uid)
            /\ \A k \in Handlers \ {h} : At(k, "createUser") => handler[k].uid # handler[h].uid

(* LoginIsKept: what settings write back has the login of the row.         *)
ReadLogin ==
    \A h \in Handlers :
        At(h, "upsertUser") =>
            handler[h].user.exists /\ handler[h].user.domain = users[handler[h].uid].domain

(* SettingsKeepTheRest: what a settings form is written back with, is what *)
(* the row holds, when no other handler is to write one.                   *)
ReadFresh ==
    "settings" \notin past =>
        \A h \in Handlers :
            /\ handler[h].kind = "settings" =>
                  \A k \in Handlers \ {h} : handler[k].kind \notin RowKinds
            /\ At(h, "upsertUser") => handler[h].user = users[handler[h].uid]

(* UniqueInTurn: a login that was found free still is, when its            *)
(* registration is the only one.                                           *)
StillFree ==
    "registrations" \notin past =>
        \A h \in Handlers :
            handler[h].kind = "register" =>
                /\ \A k \in Handlers \ {h} : handler[k].kind # "register"
                /\ handler[h].pc \in {"nextUserID", "createUser"} =>
                      \A u \in Uids : Exists(u) => users[u].domain # handler[h].login

AccountsInv ==
    /\ TypeOK /\ Placed /\ SessionsHaveUsers /\ Numbered /\ ReadLogin
    /\ ReadFresh /\ SettingsKeepTheRest
    /\ StillFree /\ UniqueInTurn
=============================================================================
