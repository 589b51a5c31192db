---------------------------- MODULE RateLimiter ----------------------------
(***************************************************************************)
(* internal/ratelimit: the token bucket per client address, the limit on   *)
(* the requests in progress, and the clean-up of idle buckets.  The        *)
(* program builds two limiters, one in api.NewServer and one in main for   *)
(* the web version.                                                        *)
(*                                                                         *)
(* Time and tokens are natural numbers: a request costs Cost tokens and    *)
(* Rate of them come back in a tick, so that Rate / Cost is the code's     *)
(* Rate and a fraction of a token can be left over.  Every critical        *)
(* section of Limiter.mu is one action.  The clock is read before the lock *)
(* is taken: a request can use a time that others have overtaken.          *)
(***************************************************************************)
EXTENDS Naturals, FiniteSets

CONSTANTS
    Limiters,
    SkipLongPoll,  \* the limiters whose Options.Skip lets /longpoll pass
    Addresses,     \* what Limiter.key makes of a request
    Requests,      \* goroutines of the HTTP servers
    Rate, Burst, Cost,
    MaxConns,      \* 0: no limit
    Retention,     \* the three minutes of the clean-up
    MaxStall,      \* assumed: no request waits longer for Limiter.mu
    MaxTime,       \* bound of the clock
    None

ASSUME OptionsAssumption ==
    /\ Rate \in Nat
    /\ Cost \in Nat \ {0}
    /\ Burst \in Nat /\ Burst >= Cost
    /\ MaxConns \in Nat
    /\ Retention \in Nat
    /\ MaxStall \in Nat
    /\ MaxTime \in Nat

ASSUME SetsAssumption ==
    /\ SkipLongPoll \subseteq Limiters
    /\ None \notin Limiters \cup Addresses
    /\ IsFiniteSet(Requests)

VARIABLES
    now,       \* the clock
    clients,   \* Limiter.clients
    inflight,  \* the number of elements in Limiter.inflight
    request,   \* the state of each request
    cleanup,   \* the clean-up goroutine: pc and its local variable cutoff
    closed,    \* Limiter.stop is closed
    admitted   \* history: requests allow() let through

vars == <<now, clients, inflight, request, cleanup, closed, admitted>>

NoClient == [known |-> FALSE, tokens |-> 0, last |-> 0]

NoRequest == [pc |-> "idle", limiter |-> None, addr |-> None, at |-> 0, slot |-> FALSE]

Init ==
    /\ now = 0
    /\ clients = [l \in Limiters |-> [a \in Addresses |-> NoClient]]
    /\ inflight = [l \in Limiters |-> 0]
    /\ request = [r \in Requests |-> NoRequest]
    /\ cleanup = [l \in Limiters |-> [pc |-> "wait", cutoff |-> 0]]
    /\ closed = [l \in Limiters |-> FALSE]
    /\ admitted = [l \in Limiters |-> [a \in Addresses |-> 0]]

-----------------------------------------------------------------------------
(* Limiter.Middleware. *)

(* A request arrives; allow() starts by reading the clock.  A Rate of 0    *)
(* switches the buckets off.                                               *)
Arrive(r, l, a) ==
    /\ request[r].pc = "idle"
    /\ request' = [request EXCEPT ![r] = [pc |-> IF Rate > 0 THEN "allow" ELSE "slot",
                                          limiter |-> l, addr |-> a,
                                          at |-> now, slot |-> FALSE]]
    /\ UNCHANGED <<now, clients, inflight, cleanup, closed, admitted>>

(* Options.Skip: a long poll passes both limits. *)
ArriveSkipped(r, l, a) ==
    /\ request[r].pc = "idle"
    /\ l \in SkipLongPoll
    /\ request' = [request EXCEPT ![r] = [pc |-> "serve", limiter |-> l, addr |-> a,
                                          at |-> now, slot |-> FALSE]]
    /\ UNCHANGED <<now, clients, inflight, cleanup, closed, admitted>>

(* Mutant: a refill that does not move the time of the last one. *)
RefilledTwice(c, at) ==
    IF ~c.known THEN [known |-> TRUE, tokens |-> Burst, last |-> at]
    ELSE IF at > c.last
         THEN LET tokens == c.tokens + (at - c.last) * Rate
              IN  [c EXCEPT !.tokens = IF tokens > Burst THEN Burst ELSE tokens]
         ELSE c

(* Mutant: a request that read the clock before the last refill takes the  *)
(* time in between back.                                                   *)
RefilledBackwards(c, at) ==
    IF ~c.known THEN [known |-> TRUE, tokens |-> Burst, last |-> at]
    ELSE LET tokens == c.tokens + (at - c.last) * Rate
         IN  [known |-> TRUE, last |-> at,
              tokens |-> IF tokens > Burst THEN Burst ELSE tokens]

(* The bucket that allow() takes a token from. *)
Refilled(c, at) ==
    IF ~c.known THEN [known |-> TRUE, tokens |-> Burst, last |-> at]
    ELSE IF at > c.last
         THEN LET tokens == c.tokens + (at - c.last) * Rate
              IN  [known |-> TRUE, last |-> at,
                   tokens |-> IF tokens > Burst THEN Burst ELSE tokens]
         ELSE c

Allow(r) ==
    LET l == request[r].limiter
        a == request[r].addr
        c == Refilled(clients[l][a], request[r].at)
    IN  /\ request[r].pc = "allow"
        /\ \/ /\ c.tokens >= Cost
              /\ clients' = [clients EXCEPT ![l][a] = [c EXCEPT !.tokens = @ - Cost]]
              /\ admitted' = [admitted EXCEPT ![l][a] = @ + 1]
              /\ request' = [request EXCEPT ![r].pc = "slot"]
           \/ /\ c.tokens < Cost
              /\ clients' = [clients EXCEPT ![l][a] = c]
              /\ request' = [request EXCEPT ![r].pc = "tooMany"]
              /\ UNCHANGED admitted
        /\ UNCHANGED <<now, inflight, cleanup, closed>>

(* Without a limit on the requests in progress there is no channel. *)
TakeSlot(r) ==
    LET l == request[r].limiter
    IN  /\ request[r].pc = "slot"
        /\ \/ /\ MaxConns = 0
              /\ request' = [request EXCEPT ![r].pc = "serve"]
              /\ UNCHANGED inflight
           \/ /\ MaxConns > 0 /\ inflight[l] < MaxConns
              /\ inflight' = [inflight EXCEPT ![l] = @ + 1]
              /\ request' = [request EXCEPT ![r].pc = "serve", ![r].slot = TRUE]
           \/ /\ MaxConns > 0 /\ inflight[l] >= MaxConns
              /\ request' = [request EXCEPT ![r].pc = "busy"]
              /\ UNCHANGED inflight
        /\ UNCHANGED <<now, clients, cleanup, closed, admitted>>

(* Mutant: only a request that was served gives its slot back, and a       *)
(* handler that panics does not.                                           *)
FinishOrPanic(r) ==
    /\ request[r].pc \in {"serve", "tooMany", "busy"}
    /\ \E panics \in BOOLEAN :
          inflight' = IF request[r].slot /\ ~panics
                      THEN [inflight EXCEPT ![request[r].limiter] = @ - 1]
                      ELSE inflight
    /\ request' = [request EXCEPT ![r] = NoRequest]
    /\ UNCHANGED <<now, clients, cleanup, closed, admitted>>

(* The handler returns or panics, or the refusal is written; the slot is   *)
(* given back by a deferred call.                                          *)
Finish(r) ==
    /\ request[r].pc \in {"serve", "tooMany", "busy"}
    /\ inflight' = IF request[r].slot
                   THEN [inflight EXCEPT ![request[r].limiter] = @ - 1]
                   ELSE inflight
    /\ request' = [request EXCEPT ![r] = NoRequest]
    /\ UNCHANGED <<now, clients, cleanup, closed, admitted>>

-----------------------------------------------------------------------------
(* Limiter.cleanup and Limiter.Close.  A tick of the first three minutes   *)
(* finds nothing to delete and is left out.                                *)

CleanupTick(l) ==
    /\ cleanup[l].pc = "wait"
    /\ now > Retention
    /\ cleanup' = [cleanup EXCEPT ![l] = [pc |-> "sweep", cutoff |-> now - Retention]]
    /\ UNCHANGED <<now, clients, inflight, request, closed, admitted>>

(* Mutant: the clean-up deletes the buckets still in use. *)
SweepRecent(l) ==
    /\ cleanup[l].pc = "sweep"
    /\ clients' = [clients EXCEPT ![l] =
                     [a \in Addresses |-> IF @[a].last > cleanup[l].cutoff
                                          THEN NoClient ELSE @[a]]]
    /\ cleanup' = [cleanup EXCEPT ![l] = [pc |-> "wait", cutoff |-> 0]]
    /\ UNCHANGED <<now, inflight, request, closed, admitted>>

Sweep(l) ==
    /\ cleanup[l].pc = "sweep"
    /\ clients' = [clients EXCEPT ![l] =
                     [a \in Addresses |-> IF @[a].last < cleanup[l].cutoff
                                          THEN NoClient ELSE @[a]]]
    /\ cleanup' = [cleanup EXCEPT ![l] = [pc |-> "wait", cutoff |-> 0]]
    /\ UNCHANGED <<now, inflight, request, closed, admitted>>

CleanupStop(l) ==
    /\ cleanup[l].pc = "wait"
    /\ closed[l]
    /\ cleanup' = [cleanup EXCEPT ![l].pc = "stopped"]
    /\ UNCHANGED <<now, clients, inflight, request, closed, admitted>>

Close(l) ==
    /\ ~closed[l]
    /\ closed' = [closed EXCEPT ![l] = TRUE]
    /\ UNCHANGED <<now, clients, inflight, request, cleanup, admitted>>

-----------------------------------------------------------------------------
Tick ==
    /\ now < MaxTime
    /\ \A r \in Requests : request[r].pc = "allow" => now < request[r].at + MaxStall
    /\ now' = now + 1
    /\ UNCHANGED <<clients, inflight, request, cleanup, closed, admitted>>

Next ==
    \/ \E r \in Requests :
          \/ \E l \in Limiters, a \in Addresses : Arrive(r, l, a) \/ ArriveSkipped(r, l, a)
          \/ Allow(r) \/ TakeSlot(r) \/ Finish(r)
    \/ \E l \in Limiters : CleanupTick(l) \/ Sweep(l) \/ CleanupStop(l) \/ Close(l)
    \/ Tick

Spec == Init /\ [][Next]_vars

(* Goroutines run, handlers return, time passes, the ticker fires. *)
FairSpec ==
    /\ Spec
    /\ WF_vars(Tick)
    /\ \A r \in Requests : WF_vars(Allow(r) \/ TakeSlot(r) \/ Finish(r))
    /\ \A l \in Limiters : WF_vars(CleanupTick(l)) /\ WF_vars(Sweep(l))
-----------------------------------------------------------------------------
ClientType == [known : BOOLEAN, tokens : Nat, last : Nat]

RequestType == [pc : {"idle", "allow", "slot", "serve", "tooMany", "busy"},
                limiter : Limiters \cup {None}, addr : Addresses \cup {None},
                at : Nat, slot : BOOLEAN]

(* Type invariant.  Tokens are never spent below zero nor saved beyond the *)
(* burst, and a request that is not idle came to a limiter from an address.*)
TypeOK ==
    /\ now \in Nat
    /\ clients \in [Limiters -> [Addresses -> ClientType]]
    /\ inflight \in [Limiters -> Nat]
    /\ request \in [Requests -> RequestType]
    /\ cleanup \in [Limiters -> [pc : {"wait", "sweep", "stopped"}, cutoff : Nat]]
    /\ closed \in [Limiters -> BOOLEAN]
    /\ admitted \in [Limiters -> [Addresses -> Nat]]
    /\ \A l \in Limiters, a \in Addresses : clients[l][a].tokens <= Burst
    /\ \A r \in Requests :
         request[r].pc # "idle" => request[r].limiter \in Limiters /\ request[r].addr \in Addresses

(* README, Anti-DDoS: Rate is the steady rate of a client and Burst the    *)
(* size of a burst.  In any run of the server allow() lets through what    *)
(* the burst and the time passed pay for, with any interleaving of         *)
(* requests that read the clock early and of the clean-up, which gives a   *)
(* client that returns a full bucket.  It needs CleanupIsLate.             *)
SustainedRate ==
    \A l \in Limiters, a \in Addresses :
        admitted[l][a] * Cost <= Burst + Rate * now

(* A bucket is full again before the clean-up can delete it. *)
CleanupIsLate == Burst + Rate * MaxStall <= Rate * Retention

(* The converse: a client is refused for its rate only when the requests   *)
(* let through have used up its burst.  A request that read the clock      *)
(* before the last refill takes nothing back.                              *)
BurstIsGranted ==
    \A r \in Requests :
        request[r].pc = "tooMany" =>
            admitted[request[r].limiter][request[r].addr] * Cost + Cost > Burst

Holders(l) == {r \in Requests : request[r].slot /\ request[r].limiter = l}

(* The channel holds one element for each request being served, whatever   *)
(* way requests end, so the server neither serves more than MaxConns at    *)
(* once nor loses capacity.                                                *)
SlotsMatchRequests ==
    \A l \in Limiters :
        /\ inflight[l] = Cardinality(Holders(l))
        /\ MaxConns > 0 => Cardinality(Holders(l)) <= MaxConns

(* README, Anti-DDoS: the counters of clients are cleaned, so memory does  *)
(* not grow.  A bucket that is not used is deleted, unless the limiter was *)
(* closed.  (The last MaxTime - Retention ticks are not followed.)         *)
IdleIsForgotten ==
    \A l \in Limiters, a \in Addresses : \A t \in 0..MaxTime :
        clients[l][a].known /\ clients[l][a].last = t /\ t + Retention < MaxTime
            ~> closed[l] \/ ~clients[l][a].known \/ clients[l][a].last # t

-----------------------------------------------------------------------------
(* The inductive invariant behind SustainedRate. *)

(* Clock readings in use are of the past; one that waits for the lock is   *)
(* not older than MaxStall.                                                *)
ReadEarlier ==
    /\ \A r \in Requests :
         request[r].pc = "allow" => request[r].at <= now /\ now <= request[r].at + MaxStall
    /\ \A l \in Limiters : cleanup[l].pc = "sweep" => cleanup[l].cutoff + Retention <= now

(* What a bucket let through and what is left in it were paid for by the   *)
(* time of its last refill; without a bucket, all was paid for before any  *)
(* clock reading still in use.                                             *)
PaidFor(c, used) ==
    IF c.known
    THEN c.last <= now /\ used + c.tokens <= Burst + Rate * c.last
    ELSE used = 0 \/ used + Rate * MaxStall <= Rate * now

Paid ==
    \A l \in Limiters, a \in Addresses : PaidFor(clients[l][a], admitted[l][a] * Cost)

(* The same bucket from below: the burst is either left or was let through. *)
Granted ==
    \A l \in Limiters, a \in Addresses :
        clients[l][a].known => admitted[l][a] * Cost + clients[l][a].tokens >= Burst
=============================================================================
