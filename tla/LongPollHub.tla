---------------------------- MODULE LongPollHub ----------------------------
(***************************************************************************)
(* internal/longpoll: the in-memory hub that hands updates to long polls,  *)
(* with the two handlers that use it (messages.getLongPollServer and       *)
(* GET /longpoll).  Every critical section of Hub.mu is one action; the    *)
(* steps between two critical sections interleave.                         *)
(*                                                                         *)
(* An update is identified by its time stamp.  The slice events[uid] is    *)
(* appended to in the critical section that increments the counter, so it  *)
(* is ascending and is modelled by the set of its time stamps.  A key is   *)
(* MD5("lp:uid:second"); it is modelled by the user and the boot of the    *)
(* server it was bound in (a restart is assumed to last a second or more). *)
(***************************************************************************)
EXTENDS Naturals, FiniteSets

CONSTANTS
    Users,      \* user ids
    Devices,    \* clients; each is logged in as one user
    Owner,      \* the user of each device
    Polls,      \* goroutines that serve GET /longpoll
    Pushers,    \* goroutines of handlers that call Hub.Push
    None,       \* no user, no device
    MaxPush,    \* bound: time stamps given out before pushing stops
    MaxBoot,    \* bound: restarts of the server
    Flaky       \* may connections break and clients end a session?

ASSUME ConstantsAssumption ==
    /\ Owner \in [Devices -> Users]
    /\ None \notin Users \cup Devices
    /\ MaxPush \in Nat
    /\ MaxBoot \in Nat
    /\ Flaky \in BOOLEAN

VARIABLES
    counter,    \* Hub.counter, shared by all users
    events,     \* Hub.events[uid]
    token,      \* Hub.waiters[uid] holds its one element
    keys,       \* Hub.keys
    signal,     \* the user a pusher has unlocked for, but not yet woken
    poll,       \* the state of each /longpoll goroutine
    session,    \* what a client knows: key (the boot it was bound in), ts
    got,        \* history: updates a client received in its session
    boot        \* how many times the server was restarted

hubVars == <<counter, events, token, keys>>
vars == <<counter, events, token, keys, signal, poll, session, got, boot>>

NoPoll == [pc |-> "idle", dev |-> None, key |-> 0, since |-> 0,
           expired |-> FALSE, updates |-> {}, live |-> FALSE]

NoSession == [pc |-> "none", key |-> 0, ts |-> 0]

Init ==
    /\ counter = 0
    /\ events = [u \in Users |-> {}]
    /\ token = [u \in Users |-> FALSE]
    /\ keys = {}
    /\ signal = [q \in Pushers |-> None]
    /\ poll = [p \in Polls |-> NoPoll]
    /\ session = [d \in Devices |-> NoSession]
    /\ got = [d \in Devices |-> {}]
    /\ boot = 0

UserOf(p) == Owner[poll[p].dev]

PollOf(d) == {p \in Polls : poll[p].dev = d /\ poll[p].live}

-----------------------------------------------------------------------------
(* Hub.Push: number and queue the update under the lock, then, unlocked,  *)
(* put a token into the waiter's channel unless it already holds one.     *)

PushAppend(q, u) ==
    /\ signal[q] = None
    /\ counter < MaxPush
    /\ counter' = counter + 1
    /\ events' = [events EXCEPT ![u] = @ \cup {counter + 1}]
    /\ signal' = [signal EXCEPT ![q] = u]
    /\ UNCHANGED <<token, keys, poll, session, got, boot>>

(* Mutant: an unbuffered channel; only a poll inside the select is woken. *)
PushSignalUnbuffered(q) ==
    /\ signal[q] # None
    /\ token' = [token EXCEPT ![signal[q]] =
                    @ \/ \E p \in Polls : poll[p].pc = "wait" /\ UserOf(p) = signal[q]]
    /\ signal' = [signal EXCEPT ![q] = None]
    /\ UNCHANGED <<counter, events, keys, poll, session, got, boot>>

PushSignal(q) ==
    /\ signal[q] # None
    /\ token' = [token EXCEPT ![signal[q]] = TRUE]
    /\ signal' = [signal EXCEPT ![q] = None]
    /\ UNCHANGED <<counter, events, keys, poll, session, got, boot>>

-----------------------------------------------------------------------------
(* messages.getLongPollServer: bind a key, then read the counter.  The    *)
(* two calls of the hub lock separately.                                  *)

BindKey(d) ==
    /\ session[d].pc = "none"
    /\ keys' = keys \cup {<<Owner[d], boot>>}
    /\ session' = [session EXCEPT ![d] = [pc |-> "bound", key |-> boot, ts |-> 0]]
    /\ UNCHANGED <<counter, events, token, signal, poll, got, boot>>

ServerTS(d) ==
    /\ session[d].pc = "bound"
    /\ session' = [session EXCEPT ![d].pc = "open", ![d].ts = counter]
    /\ got' = [got EXCEPT ![d] = {}]
    /\ UNCHANGED <<hubVars, signal, poll, boot>>

-----------------------------------------------------------------------------
(* GET /longpoll. *)

StartPoll(d, p) ==
    /\ session[d].pc = "open"
    /\ PollOf(d) = {}
    /\ poll[p].pc = "idle"
    /\ poll' = [poll EXCEPT ![p] = [pc |-> "lookup", dev |-> d,
                 key |-> session[d].key, since |-> session[d].ts,
                 expired |-> FALSE, updates |-> {}, live |-> TRUE]]
    /\ UNCHANGED <<hubVars, signal, session, got, boot>>

(* Mutant: the key is not looked up. *)
LookupAnyKey(p) ==
    /\ poll[p].pc = "lookup"
    /\ poll' = [poll EXCEPT ![p].pc = IF poll[p].since = 0 THEN "ts" ELSE "scan"]
    /\ UNCHANGED <<hubVars, signal, session, got, boot>>

(* UIDByKey; an unknown key is answered {"failed": 1}. *)
Lookup(p) ==
    /\ poll[p].pc = "lookup"
    /\ poll' = [poll EXCEPT ![p].pc =
                   IF <<UserOf(p), poll[p].key>> \notin keys
                   THEN "failed"
                   ELSE IF poll[p].since = 0 THEN "ts" ELSE "scan"]
    /\ UNCHANGED <<hubVars, signal, session, got, boot>>

(* A client without a time stamp is given the current one; if that is     *)
(* still 0 it is answered at once.                                        *)
ReadTS(p) ==
    /\ poll[p].pc = "ts"
    /\ poll' = [poll EXCEPT ![p].since = counter,
                            ![p].pc = IF counter = 0 THEN "reply" ELSE "scan"]
    /\ UNCHANGED <<hubVars, signal, session, got, boot>>

(* One turn of the loop of Hub.Wait, under the lock: take the updates     *)
(* later than since, drop the ones before it.                             *)
Newer(p) == {e \in events[UserOf(p)] : e > poll[p].since}

(* Mutant: what is returned stays queued. *)
AtCursorOrNewer(p) == {e \in events[UserOf(p)] : e >= poll[p].since}

AtCursor(p) == {e \in events[UserOf(p)] : e = poll[p].since}

(* Mutant: one update at a time, from the end of the queue. *)
ScanTakesLast(p) ==
    /\ poll[p].pc = "scan"
    /\ \E last \in Newer(p) :
          /\ \A e \in Newer(p) : e <= last
          /\ poll' = [poll EXCEPT ![p].pc = "reply", ![p].updates = {last}]
          /\ events' = [events EXCEPT ![UserOf(p)] = @ \ {last}]
    /\ UNCHANGED <<counter, token, keys, signal, session, got, boot>>

ScanTakes(p) ==
    /\ poll[p].pc = "scan"
    /\ \E last \in Newer(p) :
          /\ \A e \in Newer(p) : e <= last
          /\ poll' = [poll EXCEPT ![p].pc = "reply", ![p].since = last,
                                  ![p].updates = Newer(p)]
    /\ events' = [events EXCEPT ![UserOf(p)] = AtCursor(p)]
    /\ UNCHANGED <<counter, token, keys, signal, session, got, boot>>

ScanFindsNone(p) ==
    /\ poll[p].pc = "scan"
    /\ Newer(p) = {}
    /\ events' = [events EXCEPT ![UserOf(p)] = AtCursor(p)]
    /\ poll' = [poll EXCEPT ![p].pc = "check"]
    /\ UNCHANGED <<counter, token, keys, signal, session, got, boot>>

(* Unlocked: give up if the deadline has passed, else go to the select.   *)
CheckDeadline(p) ==
    /\ poll[p].pc = "check"
    /\ poll' = [poll EXCEPT ![p].pc = IF poll[p].expired THEN "reply" ELSE "wait"]
    /\ UNCHANGED <<hubVars, signal, session, got, boot>>

(* The select of Hub.Wait: either case may be taken when both are ready.  *)
Wake(p) ==
    /\ poll[p].pc = "wait"
    /\ token[UserOf(p)]
    /\ token' = [token EXCEPT ![UserOf(p)] = FALSE]
    /\ poll' = [poll EXCEPT ![p].pc = "scan"]
    /\ UNCHANGED <<counter, events, keys, signal, session, got, boot>>

(* Mutants: the select without its timer; a timeout that answers with the *)
(* counter.                                                                *)
TimeoutNever(p) == poll[p].pc = "wait" /\ FALSE /\ UNCHANGED vars

TimeoutAnswersCounter(p) ==
    /\ poll[p].pc = "wait"
    /\ poll[p].expired
    /\ poll' = [poll EXCEPT ![p].pc = "reply", ![p].since = counter]
    /\ UNCHANGED <<hubVars, signal, session, got, boot>>

Timeout(p) ==
    /\ poll[p].pc = "wait"
    /\ poll[p].expired
    /\ poll' = [poll EXCEPT ![p].pc = "reply"]
    /\ UNCHANGED <<hubVars, signal, session, got, boot>>

Expire(p) ==
    /\ poll[p].pc \in {"scan", "check", "wait"}
    /\ ~poll[p].expired
    /\ poll' = [poll EXCEPT ![p].expired = TRUE]
    /\ UNCHANGED <<hubVars, signal, session, got, boot>>

(* The answer is written; a client that is still there takes it. *)
Respond(p) ==
    /\ poll[p].pc = "reply"
    /\ poll' = [poll EXCEPT ![p] = NoPoll]
    /\ IF poll[p].live
       THEN /\ session' = [session EXCEPT ![poll[p].dev].ts = poll[p].since]
            /\ got' = [got EXCEPT ![poll[p].dev] = @ \cup poll[p].updates]
       ELSE UNCHANGED <<session, got>>
    /\ UNCHANGED <<hubVars, signal, boot>>

RespondFailed(p) ==
    /\ poll[p].pc = "failed"
    /\ poll' = [poll EXCEPT ![p] = NoPoll]
    /\ session' = IF poll[p].live
                  THEN [session EXCEPT ![poll[p].dev] = NoSession]
                  ELSE session
    /\ UNCHANGED <<hubVars, signal, got, boot>>

-----------------------------------------------------------------------------
(* The client and the network. *)

(* The connection breaks; the handler does not watch the request context  *)
(* and goes on.                                                           *)
Disconnect(p) ==
    /\ Flaky
    /\ poll[p].live
    /\ poll' = [poll EXCEPT ![p].live = FALSE]
    /\ UNCHANGED <<hubVars, signal, session, got, boot>>

Leave(d) ==
    /\ Flaky
    /\ session[d].pc = "open"
    /\ PollOf(d) = {}
    /\ session' = [session EXCEPT ![d] = NoSession]
    /\ UNCHANGED <<hubVars, signal, poll, got, boot>>

(* The process stops and starts again: the hub and all requests in flight *)
(* are gone, the clients keep what they know.                             *)
Restart ==
    /\ boot < MaxBoot
    /\ boot' = boot + 1
    /\ counter' = 0
    /\ events' = [u \in Users |-> {}]
    /\ token' = [u \in Users |-> FALSE]
    /\ keys' = {}
    /\ signal' = [q \in Pushers |-> None]
    /\ poll' = [p \in Polls |-> NoPoll]
    /\ session' = [d \in Devices |-> IF session[d].pc = "bound"
                                     THEN NoSession ELSE session[d]]
    /\ got' = [d \in Devices |-> {}]

-----------------------------------------------------------------------------
ServePoll(p) ==
    \/ Lookup(p) \/ ReadTS(p) \/ ScanTakes(p) \/ ScanFindsNone(p)
    \/ CheckDeadline(p) \/ Wake(p) \/ Timeout(p) \/ Respond(p) \/ RespondFailed(p)

Next ==
    \/ \E q \in Pushers : (\E u \in Users : PushAppend(q, u)) \/ PushSignal(q)
    \/ \E d \in Devices : \/ BindKey(d) \/ ServerTS(d) \/ Leave(d)
                          \/ \E p \in Polls : StartPoll(d, p)
    \/ \E p \in Polls : ServePoll(p) \/ Expire(p) \/ Disconnect(p)
    \/ Restart

Spec == Init /\ [][Next]_vars

(* The scheduler runs every goroutine, and timers fire. *)
ServerFairness ==
    /\ \A q \in Pushers : WF_vars(PushSignal(q))
    /\ \A p \in Polls : WF_vars(ServePoll(p)) /\ WF_vars(Expire(p))

(* The client program polls again after every answer. *)
ClientFairness ==
    \A d \in Devices : /\ WF_vars(ServerTS(d))
                       /\ WF_vars(\E p \in Polls : StartPoll(d, p))

FairSpec == Spec /\ ServerFairness
PollingSpec == Spec /\ ServerFairness /\ ClientFairness
-----------------------------------------------------------------------------
PollPcs == {"idle", "lookup", "failed", "ts", "scan", "check", "wait", "reply"}
Served == {"ts", "scan", "check", "wait", "reply"}

PollType == [pc : PollPcs, dev : Devices \cup {None}, key : Nat, since : Nat,
             expired : BOOLEAN, updates : SUBSET Nat, live : BOOLEAN]

SessionType == [pc : {"none", "bound", "open"}, key : Nat, ts : Nat]

(* Type invariant.  A goroutine that is not idle serves a device. *)
TypeOK ==
    /\ counter \in Nat
    /\ events \in [Users -> SUBSET Nat]
    /\ token \in [Users -> BOOLEAN]
    /\ keys \in SUBSET (Users \X Nat)
    /\ signal \in [Pushers -> Users \cup {None}]
    /\ poll \in [Polls -> PollType]
    /\ session \in [Devices -> SessionType]
    /\ got \in [Devices -> SUBSET Nat]
    /\ boot \in Nat
    /\ \A p \in Polls : poll[p].pc # "idle" => poll[p].dev \in Devices

(* An update is in one place only: in the queue of its user, in one answer *)
(* being written, or with one client that received it.  So no two polls of *)
(* a user, on one device or on several, are ever handed the same update    *)
(* (Hub.Wait removes what it returns in the same critical section).        *)
AtMostOnce ==
    /\ \A p \in Polls :
         /\ poll[p].updates # {} => poll[p].updates \cap events[UserOf(p)] = {}
         /\ \A q \in Polls \ {p} : poll[p].updates \cap poll[q].updates = {}
         /\ \A d \in Devices : poll[p].updates \cap got[d] = {}
    /\ \A d \in Devices :
         /\ got[d] \cap events[Owner[d]] = {}
         /\ \A e \in Devices \ {d} : got[d] \cap got[e] = {}

(* A poll never sleeps on an update it could return: when it is on its way *)
(* to the select of Hub.Wait, or blocked there, with a newer update queued *)
(* for it, the wake-up is in the channel or the pusher has yet to send it. *)
(* It holds for a user with one device on an unbroken connection: the      *)
(* channel wakes one poll, and with two the wrong one can take the token   *)
(* (the other then waits for its timeout).                                 *)
NoLostWakeup ==
    \A p \in Polls :
        /\ poll[p].pc \in {"check", "wait"}
        /\ Newer(p) # {}
        /\ ~Flaky
        /\ \A d \in Devices : Owner[d] = UserOf(p) => d = poll[p].dev
        => \/ token[UserOf(p)]
           \/ \E q \in Pushers : signal[q] = UserOf(p)

(* A time stamp the hub works with is one this hub gave out: no poll that  *)
(* passed UIDByKey carries a time stamp from before a restart, which would *)
(* purge the queue and hide updates until the counter catches up.          *)
FreshTimeStamps ==
    \A p \in Polls :
        poll[p].pc \in Served => poll[p].since <= counter

(* What a client receives is later than all it received before, and its    *)
(* time stamp never goes back while its session lasts.                     *)
InOrder ==
    [][\A d \in Devices :
         session[d].pc = "open" /\ session'[d].pc = "open" =>
            /\ session'[d].ts >= session[d].ts
            /\ \A new \in got'[d] \ got[d], old \in got[d] : old < new]_vars

(* Every poll is answered, however often it is woken (timers fire once and *)
(* the deadline is not extended by a wake-up).                             *)
PollAnswered ==
    \A p \in Polls : poll[p].pc # "idle" ~> poll[p].pc = "idle"

(* How many steps a poll has before its answer, once its timer fired. *)
StepsLeft(p) ==
    [lookup |-> 6, ts |-> 5, wait |-> 4, scan |-> 3, check |-> 2,
     reply |-> 1, failed |-> 1, idle |-> 0][poll[p].pc]

(* What PollAnswered rests on: once its timer fired, each step of a poll   *)
(* brings it nearer to its answer; no wake-up sends it round the loop for  *)
(* another wait, and no step of anybody else sets it back.                 *)
ExpiredPollsCountDown ==
    [][\A p \in Polls : poll[p].pc # "idle" /\ poll[p].expired =>
          /\ StepsLeft(p)' <= StepsLeft(p)
          /\ ServePoll(p) => StepsLeft(p)' < StepsLeft(p)]_vars

(* The time stamp from which the server counts for d at this moment. *)
Cursor(d) ==
    IF PollOf(d) = {} THEN session[d].ts
    ELSE LET p == CHOOSE p \in PollOf(d) : TRUE IN poll[p].since

(* The devices in a session with this process; a session of an earlier one *)
(* ends with it, before its client knows.                                  *)
Joined == {d \in Devices : session[d].pc = "open" /\ session[d].key = boot}

(* The updates promised to d: those queued after its time stamp and those  *)
(* in an answer to it.  Nothing is promised to a client whose time stamp   *)
(* is still 0: GET /longpoll replaces it by the counter of that moment.    *)
Owed(d) ==
    IF d \notin Joined \/ Cursor(d) = 0 THEN {}
    ELSE {e \in events[Owner[d]] : e > Cursor(d)}
            \cup UNION {poll[p].updates : p \in PollOf(d)}

Seen(d) == IF d \in Joined THEN got[d] ELSE {}

(* Devices of one user read from one queue, and what one of them takes out *)
(* the others lose; a goroutine goes on after its connection broke, and    *)
(* its client loses what it takes out.                                     *)
Lossy == {d \in Devices : Flaky \/ \E e \in Devices \ {d} : Owner[e] = Owner[d]}

Feed == INSTANCE UpdateFeed
            WITH Stamps <- 1..MaxPush, joined <- Joined,
                 owed <- [d \in Devices |-> Owed(d)], seen <- [d \in Devices |-> Seen(d)]

(* The hub implements the feed, with nobody Lossy if users have one device *)
(* each and no connection breaks: no update is lost between the queue, the *)
(* purge in Hub.Wait, the timeout and the next poll, and each one reaches  *)
(* a polling client, unless the server is restarted before.                *)
ImplementsFeed == Feed!FairFeedSpec

-----------------------------------------------------------------------------
(* The inductive invariants behind the properties above. *)

(* Every time stamp in use was given out by this hub. *)
Stamped ==
    /\ \A u \in Users : events[u] \subseteq 1..counter
    /\ \A p \in Polls : poll[p].updates \subseteq 1..counter
    /\ \A d \in Devices : got[d] \subseteq 1..counter

(* AtMostOnce across all users: time stamps are shared by them. *)
OnePlace ==
    /\ \A u, v \in Users : u # v => events[u] \cap events[v] = {}
    /\ \A p \in Polls :
         /\ poll[p].updates # {} => poll[p].pc = "reply"
         /\ \A u \in Users : poll[p].updates \cap events[u] = {}
         /\ \A q \in Polls : q # p => poll[p].updates \cap poll[q].updates = {}
         /\ \A d \in Devices : poll[p].updates \cap got[d] = {}
    /\ \A d \in Devices :
         /\ \A u \in Users : got[d] \cap events[u] = {}
         /\ \A e \in Devices : e # d => got[d] \cap got[e] = {}

DeliveryInv == TypeOK /\ Stamped /\ OnePlace

(* A connected poll serves the session of its device, and is the only one  *)
(* to do so.                                                               *)
Connected ==
    \A p \in Polls :
        /\ poll[p].live =>
              /\ poll[p].pc # "idle"
              /\ session[poll[p].dev].pc = "open"
              /\ session[poll[p].dev].key = poll[p].key
              /\ \A q \in Polls : q # p /\ poll[q].live => poll[q].dev # poll[p].dev
        /\ ~Flaky /\ poll[p].pc # "idle" => poll[p].live

(* Keys are of this boot, and a time stamp that goes with such a key is    *)
(* one of this boot's.                                                     *)
Fresh ==
    /\ \A k \in keys : k[2] = boot
    /\ \A d \in Devices :
         /\ session[d].key <= boot
         /\ session[d].pc = "open" /\ session[d].key = boot => session[d].ts <= counter
    /\ \A p \in Polls :
         /\ poll[p].pc # "idle" => poll[p].key <= boot
         /\ poll[p].pc # "idle" /\ poll[p].key = boot => poll[p].since <= counter
         /\ poll[p].pc \in Served => poll[p].key = boot

(* What a device received is not later than its time stamp, what it is     *)
(* about to receive is.                                                    *)
Received ==
    /\ \A d \in Devices :
         session[d].pc = "open" => \A s \in got[d] : s <= session[d].ts
    /\ \A p \in Polls : poll[p].live =>
         /\ session[poll[p].dev].ts <= poll[p].since
         /\ \A s \in poll[p].updates :
               session[poll[p].dev].ts < s /\ s <= poll[p].since

SessionInv == DeliveryInv /\ Connected /\ Fresh /\ Received

(* What a poll carries, by where it is: a time stamp unless it is about to *)
(* be given one, and a key this hub knows unless it is of an earlier boot. *)
PollPath ==
    /\ \A p \in Polls :
         /\ poll[p].pc = "ts" => poll[p].since = 0
         /\ poll[p].pc \in {"scan", "check", "wait"} => poll[p].since # 0
         /\ poll[p].pc = "failed" => poll[p].key # boot
         /\ poll[p].pc # "idle" /\ poll[p].key = boot => <<UserOf(p), boot>> \in keys
    /\ \A d \in Devices :
         session[d].pc # "none" /\ session[d].key = boot => <<Owner[d], boot>> \in keys

(* A poll that is ahead of its client's time stamp has left nothing behind *)
(* in the queue: its client can fall back to that time stamp.              *)
NothingBetween ==
    \A p \in Polls :
        poll[p].live /\ poll[p].key = boot /\ session[poll[p].dev].ts # 0 =>
            \A e \in events[UserOf(p)] : e <= session[poll[p].dev].ts \/ e > poll[p].since

FeedInv == SessionInv /\ PollPath /\ NothingBetween
=============================================================================
