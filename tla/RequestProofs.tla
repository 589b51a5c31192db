--------------------------- MODULE RequestProofs ---------------------------
(***************************************************************************)
(* Proofs about what a request meets on its way to a method: the limiter   *)
(* (RateLimiter), for any sets of limiters, addresses and requests and any *)
(* options, and the parameters (Params), for lists of numbers of any       *)
(* length and any width of the type int.                                   *)
(***************************************************************************)
EXTENDS RateLimiter, Params, FiniteSetTheorems, SequenceTheorems, WellFoundedInduction, TLAPS

(***************************************************************************)
(* The limiter                                                             *)
(***************************************************************************)

(* Refilled makes a full bucket for a new client and never takes tokens. *)
LEMMA RefilledProperties ==
    ASSUME NEW c \in ClientType, NEW at \in Nat, c.tokens <= Burst
    PROVE  LET f == Refilled(c, at)
           IN  /\ f \in ClientType /\ f.known /\ f.tokens <= Burst
               /\ ~c.known => f.tokens = Burst /\ f.last = at
               /\ c.known => /\ f.last \in {c.last, at} /\ f.last >= c.last
                             /\ f.tokens >= c.tokens
                             /\ f.tokens + Rate * c.last <= c.tokens + Rate * f.last
<1>1. Rate \in Nat /\ Burst \in Nat
  BY OptionsAssumption
<1>2. CASE ~c.known
  BY <1>1, <1>2 DEF Refilled, ClientType
<1>3. CASE c.known /\ at > c.last
  <2> DEFINE gain == (at - c.last) * Rate
             tokens == c.tokens + gain
             f == [known |-> TRUE, last |-> at,
                   tokens |-> IF tokens > Burst THEN Burst ELSE tokens]
  <2>1. Refilled(c, at) = f
    BY <1>3 DEF Refilled
  <2>2. c.tokens \in Nat /\ c.last \in Nat
    BY DEF ClientType
  <2>3. gain \in Nat
    BY <1>1, <1>3, <2>2
  <2>4. gain + Rate * c.last = Rate * at
    BY <1>1, <2>2
  <2>5. f.tokens <= tokens /\ f.tokens \in Nat /\ f.tokens >= c.tokens /\ f.tokens <= Burst
    <3> HIDE DEF gain
    <3> QED
      BY <1>1, <2>2, <2>3
  <2>6. f.tokens + Rate * c.last <= c.tokens + Rate * at
    <3>1. Rate * c.last \in Nat /\ Rate * at \in Nat
      BY <1>1, <2>2
    <3> DEFINE before == Rate * c.last
               after == Rate * at
    <3>2. before \in Nat /\ after \in Nat /\ gain + before = after
      BY <3>1, <2>4
    <3> HIDE DEF gain, f, before, after
    <3> SUFFICES f.tokens + before <= c.tokens + after
      BY DEF before, after
    <3> QED
      BY <2>2, <2>3, <2>5, <3>2
  <2>7. f \in ClientType /\ f.known /\ f.last = at
    BY <2>5 DEF ClientType
  <2> HIDE DEF f
  <2> QED
    BY <1>3, <2>1, <2>2, <2>5, <2>6, <2>7
<1>4. CASE c.known /\ ~(at > c.last)
  <2>1. Refilled(c, at) = c
    BY <1>4 DEF Refilled
  <2>2. c.tokens \in Nat /\ c.last \in Nat /\ Rate * c.last \in Nat
    BY <1>1 DEF ClientType
  <2> QED
    BY <2>1, <2>2, <1>4
<1> QED
  BY <1>2, <1>3, <1>4

LEMMA InitType == Init => TypeOK
BY OptionsAssumption, SetsAssumption
   DEF Init, TypeOK, ClientType, RequestType, NoClient, NoRequest

(* The two outcomes of allow(): the bucket c it leaves behind, and for whom. *)
AllowResult(r, l, a, c, pc) ==
    /\ request[r].pc = "allow"
    /\ l = request[r].limiter /\ a = request[r].addr
    /\ c.known /\ c.tokens <= Burst
    /\ c.last = Refilled(clients[l][a], request[r].at).last
    /\ clients' = [clients EXCEPT ![l][a] = c]
    /\ request' = [request EXCEPT ![r].pc = pc]
    /\ \/ /\ pc = "slot"
          /\ c.tokens + Cost = Refilled(clients[l][a], request[r].at).tokens
          /\ admitted' = [admitted EXCEPT ![l][a] = @ + 1]
       \/ /\ pc = "tooMany"
          /\ c.tokens = Refilled(clients[l][a], request[r].at).tokens
          /\ c.tokens < Cost
          /\ admitted' = admitted
    /\ UNCHANGED <<now, inflight, cleanup, closed>>

LEMMA AllowOutcome ==
    ASSUME TypeOK, NEW r \in Requests, Allow(r)
    PROVE  \E l \in Limiters, a \in Addresses, c \in ClientType,
              pc \in {"slot", "tooMany"} : AllowResult(r, l, a, c, pc)
<1> DEFINE l == request[r].limiter
           a == request[r].addr
           f == Refilled(clients[l][a], request[r].at)
<1>1. request[r].pc = "allow"
  BY DEF Allow
<1>2. l \in Limiters /\ a \in Addresses /\ request[r].at \in Nat
  BY <1>1 DEF TypeOK, RequestType
<1>3. clients[l][a] \in ClientType /\ clients[l][a].tokens <= Burst
  BY <1>2 DEF TypeOK
<1>4. f \in ClientType /\ f.known /\ f.tokens <= Burst
  BY <1>2, <1>3, RefilledProperties
<1>5. f.tokens \in Nat /\ f.last \in Nat /\ Cost \in Nat /\ Burst \in Nat
  BY <1>4, OptionsAssumption DEF ClientType
<1>6. CASE f.tokens >= Cost
  <2> DEFINE c == [f EXCEPT !.tokens = f.tokens - Cost]
  <2>1. /\ c \in ClientType /\ c.known /\ c.tokens <= Burst /\ c.last = f.last
        /\ c.tokens + Cost = f.tokens
    <3> HIDE DEF f
    <3> QED
      BY <1>4, <1>5, <1>6 DEF ClientType
  <2>2. /\ clients' = [clients EXCEPT ![l][a] = c]
        /\ admitted' = [admitted EXCEPT ![l][a] = @ + 1]
        /\ request' = [request EXCEPT ![r].pc = "slot"]
        /\ UNCHANGED <<now, inflight, cleanup, closed>>
    BY <1>5, <1>6 DEF Allow
  <2>3. AllowResult(r, l, a, c, "slot")
    <3> HIDE DEF c
    <3> QED
      BY <1>1, <2>1, <2>2 DEF AllowResult
  <2> QED
    BY <1>2, <2>1, <2>3
<1>7. CASE ~(f.tokens >= Cost)
  <2>1. f.tokens < Cost
    BY <1>5, <1>7
  <2>2. /\ clients' = [clients EXCEPT ![l][a] = f]
        /\ admitted' = admitted
        /\ request' = [request EXCEPT ![r].pc = "tooMany"]
        /\ UNCHANGED <<now, inflight, cleanup, closed>>
    BY <1>7 DEF Allow
  <2>3. AllowResult(r, l, a, f, "tooMany")
    BY <1>1, <1>4, <1>5, <2>1, <2>2 DEF AllowResult
  <2> QED
    BY <1>2, <1>4, <2>3
<1> QED
  BY <1>6, <1>7

(* A request keeps its limiter and its address while it is served. *)
LEMMA RequestStep ==
    ASSUME TypeOK, NEW r \in Requests, request[r].pc # "idle",
           NEW new \in RequestType, request' = [request EXCEPT ![r] = new],
           new.limiter = request[r].limiter, new.addr = request[r].addr
    PROVE  /\ request' \in [Requests -> RequestType]
           /\ \A q \in Requests : request'[q].pc # "idle" =>
                request'[q].limiter \in Limiters /\ request'[q].addr \in Addresses
BY DEF TypeOK

(* A request that holds a slot is in the count: it can be given back. *)
HolderIsCounted ==
    \A r \in Requests : request[r].slot => inflight[request[r].limiter] > 0

LEMMA TypeStep == TypeOK /\ HolderIsCounted /\ [Next]_vars => TypeOK'
<1> SUFFICES ASSUME TypeOK, HolderIsCounted, [Next]_vars PROVE TypeOK'
  OBVIOUS
<1>1. ASSUME NEW r \in Requests, NEW l \in Limiters, NEW a \in Addresses,
             Arrive(r, l, a) \/ ArriveSkipped(r, l, a)
      PROVE  TypeOK'
  <2>1. PICK pc \in {"allow", "slot", "serve"} :
          request' = [request EXCEPT ![r] = [pc |-> pc, limiter |-> l, addr |-> a,
                                             at |-> now, slot |-> FALSE]]
    BY <1>1 DEF Arrive, ArriveSkipped
  <2>2. request' \in [Requests -> RequestType]
    BY <2>1 DEF TypeOK, RequestType
  <2>3. \A q \in Requests : request'[q].pc # "idle" =>
           request'[q].limiter \in Limiters /\ request'[q].addr \in Addresses
    BY <2>1 DEF TypeOK
  <2> QED
    BY <1>1, <2>2, <2>3 DEF Arrive, ArriveSkipped, TypeOK
<1>2. ASSUME NEW r \in Requests, Allow(r) PROVE TypeOK'
  <2>1. PICK l \in Limiters, a \in Addresses, c \in ClientType,
             pc \in {"slot", "tooMany"} : AllowResult(r, l, a, c, pc)
    BY <1>2, AllowOutcome
  <2>2. /\ clients' \in [Limiters -> [Addresses -> ClientType]]
        /\ \A m \in Limiters, b \in Addresses : clients'[m][b].tokens <= Burst
    BY <2>1 DEF TypeOK, AllowResult
  <2>3. /\ request' \in [Requests -> RequestType]
        /\ \A q \in Requests : request'[q].pc # "idle" =>
             request'[q].limiter \in Limiters /\ request'[q].addr \in Addresses
    <3> DEFINE new == [request[r] EXCEPT !.pc = pc]
    <3>1. new \in RequestType /\ new.limiter = request[r].limiter /\ new.addr = request[r].addr
      BY DEF TypeOK, RequestType
    <3>2. request' = [request EXCEPT ![r] = new] /\ request[r].pc # "idle"
      BY <2>1 DEF AllowResult
    <3> HIDE DEF new
    <3> QED
      BY <3>1, <3>2, RequestStep
  <2>4. admitted' \in [Limiters -> [Addresses -> Nat]]
    <3>1. admitted' = admitted \/ admitted' = [admitted EXCEPT ![l][a] = @ + 1]
      BY <2>1 DEF AllowResult
    <3>2. admitted \in [Limiters -> [Addresses -> Nat]]
      BY DEF TypeOK
    <3> QED
      BY <3>1, <3>2
  <2> QED
    BY <2>1, <2>2, <2>3, <2>4 DEF TypeOK, AllowResult
<1>3. ASSUME NEW r \in Requests, TakeSlot(r) PROVE TypeOK'
  <2>1. request[r] \in RequestType /\ request[r].pc # "idle"
    BY <1>3 DEF TypeOK, TakeSlot
  <2>4. /\ request' \in [Requests -> RequestType]
        /\ \A q \in Requests : request'[q].pc # "idle" =>
             request'[q].limiter \in Limiters /\ request'[q].addr \in Addresses
    <3>1. CASE request' = [request EXCEPT ![r].pc = "serve"]
      <4> DEFINE new == [request[r] EXCEPT !.pc = "serve"]
      <4>1. new \in RequestType /\ new.limiter = request[r].limiter /\ new.addr = request[r].addr
        BY <2>1 DEF RequestType
      <4>2. request' = [request EXCEPT ![r] = new]
        BY <3>1 DEF TypeOK
      <4> HIDE DEF new
      <4> QED
        BY <2>1, <4>1, <4>2, RequestStep
    <3>2. CASE request' = [request EXCEPT ![r].pc = "busy"]
      <4> DEFINE new == [request[r] EXCEPT !.pc = "busy"]
      <4>1. new \in RequestType /\ new.limiter = request[r].limiter /\ new.addr = request[r].addr
        BY <2>1 DEF RequestType
      <4>2. request' = [request EXCEPT ![r] = new]
        BY <3>2 DEF TypeOK
      <4> HIDE DEF new
      <4> QED
        BY <2>1, <4>1, <4>2, RequestStep
    <3>3. CASE request' = [request EXCEPT ![r].pc = "serve", ![r].slot = TRUE]
      <4> DEFINE new == [request[r] EXCEPT !.pc = "serve", !.slot = TRUE]
      <4>1. new \in RequestType /\ new.limiter = request[r].limiter /\ new.addr = request[r].addr
        BY <2>1 DEF RequestType
      <4>2. request' = [request EXCEPT ![r] = new]
        BY <3>3 DEF TypeOK
      <4> HIDE DEF new
      <4> QED
        BY <2>1, <4>1, <4>2, RequestStep
    <3> QED
      BY <1>3, <3>1, <3>2, <3>3 DEF TakeSlot
  <2>5. inflight' \in [Limiters -> Nat]
    BY <1>3 DEF TakeSlot, TypeOK
  <2> QED
    BY <1>3, <2>4, <2>5 DEF TakeSlot, TypeOK
<1>4. ASSUME NEW r \in Requests, Finish(r) PROVE TypeOK'
  <2>1. request' = [request EXCEPT ![r] = NoRequest] /\ NoRequest \in RequestType
    BY <1>4 DEF Finish, NoRequest, RequestType
  <2>2. /\ request' \in [Requests -> RequestType]
        /\ \A q \in Requests : request'[q].pc # "idle" =>
             request'[q].limiter \in Limiters /\ request'[q].addr \in Addresses
    BY <2>1 DEF TypeOK, NoRequest
  <2>3. inflight' \in [Limiters -> Nat]
    <3>1. request[r].limiter \in Limiters
      BY <1>4 DEF Finish, TypeOK
    <3> DEFINE l == request[r].limiter
    <3>2. request[r].slot => inflight[l] - 1 \in Nat
      BY <3>1 DEF HolderIsCounted, TypeOK
    <3>3. inflight' = inflight \/ (request[r].slot /\ inflight' = [inflight EXCEPT ![l] = @ - 1])
      BY <1>4 DEF Finish
    <3> HIDE DEF l
    <3> QED
      BY <3>1, <3>2, <3>3 DEF TypeOK, l
  <2> QED
    BY <1>4, <2>2, <2>3 DEF Finish, TypeOK
<1>5. ASSUME NEW l \in Limiters, CleanupTick(l) \/ CleanupStop(l) PROVE TypeOK'
  <2>1. cleanup' \in [Limiters -> [pc : {"wait", "sweep", "stopped"}, cutoff : Nat]]
    <3>1. CASE CleanupTick(l)
      <4>1. now - Retention \in Nat
        BY <3>1, OptionsAssumption DEF CleanupTick, TypeOK
      <4> QED
        BY <3>1, <4>1 DEF CleanupTick, TypeOK
    <3>2. CASE CleanupStop(l)
      BY <3>2 DEF CleanupStop, TypeOK
    <3> QED
      BY <1>5, <3>1, <3>2
  <2> QED
    BY <1>5, <2>1 DEF CleanupTick, CleanupStop, TypeOK
<1>6. ASSUME NEW l \in Limiters, Sweep(l) PROVE TypeOK'
  <2>1. \A m \in Limiters, a \in Addresses : clients'[m][a] \in {clients[m][a], NoClient}
    BY <1>6 DEF Sweep, TypeOK
  <2>2. /\ clients' \in [Limiters -> [Addresses -> ClientType]]
        /\ NoClient \in ClientType /\ NoClient.tokens <= Burst
    BY <1>6, OptionsAssumption DEF Sweep, TypeOK, NoClient, ClientType
  <2>3. cleanup' \in [Limiters -> [pc : {"wait", "sweep", "stopped"}, cutoff : Nat]]
    BY <1>6 DEF Sweep, TypeOK
  <2>4. \A m \in Limiters, a \in Addresses : clients'[m][a].tokens <= Burst
    BY <2>1, <2>2 DEF TypeOK
  <2> QED
    BY <1>6, <2>2, <2>3, <2>4 DEF Sweep, TypeOK
<1>7. ASSUME NEW l \in Limiters, Close(l) PROVE TypeOK'
  BY <1>7 DEF Close, TypeOK
<1>8. CASE Tick
  BY <1>8 DEF Tick, TypeOK
<1>9. CASE UNCHANGED vars
  BY <1>9 DEF vars, TypeOK
<1> QED
  BY <1>1, <1>2, <1>3, <1>4, <1>5, <1>6, <1>7, <1>8, <1>9 DEF Next

-----------------------------------------------------------------------------
(* The channel of slots. *)

(* SlotsMatchRequests, strengthened: only a request being served holds one. *)
Slots ==
    /\ SlotsMatchRequests
    /\ \A r \in Requests : request[r].slot => request[r].pc = "serve"

LEMMA HoldersAreFinite ==
    ASSUME NEW l \in Limiters
    PROVE  IsFiniteSet(Holders(l)) /\ Cardinality(Holders(l)) \in Nat
<1>1. IsFiniteSet(Requests) /\ Holders(l) \in SUBSET Requests
  BY SetsAssumption DEF Holders
<1> QED
  BY <1>1, FS_Subset, FS_CardinalityType

LEMMA SlotsAreCounted == TypeOK /\ Slots => HolderIsCounted
<1> SUFFICES ASSUME TypeOK, Slots, NEW r \in Requests, request[r].slot
             PROVE  inflight[request[r].limiter] > 0
  BY DEF HolderIsCounted
<1> DEFINE l == request[r].limiter
<1>1. l \in Limiters
  BY DEF Slots, TypeOK
<1>2. r \in Holders(l)
  BY DEF Holders
<1>3. Cardinality(Holders(l)) # 0
  BY <1>1, <1>2, HoldersAreFinite, FS_EmptySet
<1>4. inflight[l] = Cardinality(Holders(l)) /\ Cardinality(Holders(l)) \in Nat
  BY <1>1, HoldersAreFinite DEF Slots, SlotsMatchRequests
<1> QED
  BY <1>3, <1>4

(* A step that neither gives out nor takes back a slot. *)
LEMMA SlotsUntouched ==
    ASSUME Slots, inflight' = inflight,
           \A r \in Requests : \/ request'[r] = request[r]
                               \/ ~request[r].slot /\ ~request'[r].slot
    PROVE  Slots'
<1>1. \A l \in Limiters : Holders(l)' = Holders(l)
  BY DEF Holders
<1>2. SlotsMatchRequests'
  BY <1>1 DEF Slots, SlotsMatchRequests
<1> QED
  BY <1>2 DEF Slots

LEMMA SlotsStep == TypeOK /\ Slots /\ [Next]_vars => Slots'
<1> SUFFICES ASSUME TypeOK, Slots, [Next]_vars PROVE Slots'
  OBVIOUS
<1>1. ASSUME NEW r \in Requests, NEW l \in Limiters, NEW a \in Addresses,
             Arrive(r, l, a) \/ ArriveSkipped(r, l, a)
      PROVE  Slots'
  <2>1. /\ ~request[r].slot /\ inflight' = inflight /\ ~request'[r].slot
        /\ \A q \in Requests \ {r} : request'[q] = request[q]
    BY <1>1 DEF Arrive, ArriveSkipped, Slots, TypeOK
  <2> QED
    BY <2>1, SlotsUntouched
<1>2. ASSUME NEW r \in Requests, Allow(r) PROVE Slots'
  <2>1. PICK pc \in {"slot", "tooMany"} : /\ request' = [request EXCEPT ![r].pc = pc]
                                          /\ request[r].pc = "allow" /\ inflight' = inflight
    BY <1>2, AllowOutcome DEF AllowResult
  <2>2. request[r] \in RequestType
    BY DEF TypeOK
  <2>3. ~request[r].slot
    BY <2>1 DEF Slots
  <2>4. ~request'[r].slot
    BY <2>1, <2>2, <2>3 DEF TypeOK, RequestType
  <2>5. \A q \in Requests \ {r} : request'[q] = request[q]
    BY <2>1 DEF TypeOK
  <2> QED
    BY <2>1, <2>3, <2>4, <2>5, SlotsUntouched
<1>3. ASSUME NEW r \in Requests, TakeSlot(r) PROVE Slots'
  <2>5. PICK l \in Limiters : l = request[r].limiter
    BY <1>3 DEF TakeSlot, TypeOK
  <2>1. request[r] \in RequestType /\ ~request[r].slot
    BY <1>3 DEF TakeSlot, TypeOK, Slots
  <2>2. CASE inflight' = inflight /\ request' = [request EXCEPT ![r].pc = "serve"]
    <3>1. ~request'[r].slot
      BY <2>1, <2>2 DEF TypeOK, RequestType
    <3> QED
      BY <2>1, <2>2, <3>1, SlotsUntouched DEF TypeOK
  <2>3. CASE inflight' = inflight /\ request' = [request EXCEPT ![r].pc = "busy"]
    <3>1. ~request'[r].slot
      BY <2>1, <2>3 DEF TypeOK, RequestType
    <3> QED
      BY <2>1, <2>3, <3>1, SlotsUntouched DEF TypeOK
  <2>4. CASE /\ MaxConns > 0 /\ inflight[l] < MaxConns
             /\ inflight' = [inflight EXCEPT ![l] = @ + 1]
             /\ request' = [request EXCEPT ![r].pc = "serve", ![r].slot = TRUE]
    <3>1. /\ request'[r].slot /\ request'[r].limiter = l /\ request'[r].pc = "serve"
          /\ \A q \in Requests \ {r} : request'[q] = request[q]
      BY <2>1, <2>4, <2>5 DEF TypeOK, RequestType
    <3>2. Holders(l)' = Holders(l) \cup {r} /\ r \notin Holders(l)
      BY <2>1, <2>5, <3>1 DEF Holders
    <3>3. \A m \in Limiters \ {l} : Holders(m)' = Holders(m)
      BY <2>1, <2>5, <3>1 DEF Holders
    <3>4. Cardinality(Holders(l)') = Cardinality(Holders(l)) + 1
      BY <2>1, <3>2, HoldersAreFinite, FS_AddElement
    <3>5. /\ inflight'[l] = inflight[l] + 1 /\ inflight[l] \in Nat /\ MaxConns \in Nat
          /\ \A m \in Limiters \ {l} : inflight'[m] = inflight[m]
      BY <2>1, <2>4, OptionsAssumption DEF TypeOK
    <3>6. SlotsMatchRequests'
      <4>1. inflight[l] = Cardinality(Holders(l))
        BY <2>1 DEF Slots, SlotsMatchRequests
      <4>2. inflight'[l] = Cardinality(Holders(l)') /\ Cardinality(Holders(l)') <= MaxConns
        BY <4>1, <2>4, <3>4, <3>5
      <4>3. ASSUME NEW m \in Limiters \ {l}
            PROVE  /\ inflight'[m] = Cardinality(Holders(m)')
                   /\ MaxConns > 0 => Cardinality(Holders(m)') <= MaxConns
        BY <3>3, <3>5 DEF Slots, SlotsMatchRequests
      <4> QED
        BY <4>2, <4>3 DEF SlotsMatchRequests
    <3> QED
      BY <3>1, <3>6 DEF Slots
  <2> QED
    BY <1>3, <2>5, <2>2, <2>3, <2>4 DEF TakeSlot
<1>4. ASSUME NEW r \in Requests, Finish(r) PROVE Slots'
  <2>4. PICK l \in Limiters : l = request[r].limiter
    BY <1>4 DEF Finish, TypeOK
  <2>1. /\ ~request'[r].slot
        /\ \A q \in Requests \ {r} : request'[q] = request[q]
    BY <1>4 DEF Finish, TypeOK, NoRequest
  <2>2. CASE ~request[r].slot
    <3>1. inflight' = inflight
      BY <1>4, <2>2 DEF Finish
    <3> QED
      BY <2>1, <2>2, <3>1, SlotsUntouched
  <2>3. CASE request[r].slot
    <3>1. inflight' = [inflight EXCEPT ![l] = @ - 1]
      BY <1>4, <2>3, <2>4 DEF Finish
    <3>2. Holders(l)' = Holders(l) \ {r} /\ r \in Holders(l)
      BY <2>1, <2>3, <2>4 DEF Holders
    <3>3. \A m \in Limiters \ {l} : Holders(m)' = Holders(m)
      BY <2>1, <2>4 DEF Holders
    <3>4. Cardinality(Holders(l)') = Cardinality(Holders(l)) - 1
      BY <2>1, <3>2, HoldersAreFinite, FS_RemoveElement
    <3>5. /\ inflight'[l] = inflight[l] - 1 /\ inflight[l] \in Nat /\ MaxConns \in Nat
          /\ \A m \in Limiters \ {l} : inflight'[m] = inflight[m]
      BY <2>1, <3>1, OptionsAssumption DEF TypeOK
    <3>6. Cardinality(Holders(l)) \in Nat
      BY <2>1, HoldersAreFinite
    <3>7. SlotsMatchRequests'
      <4>1. /\ inflight[l] = Cardinality(Holders(l))
            /\ MaxConns > 0 => Cardinality(Holders(l)) <= MaxConns
        BY <2>1 DEF Slots, SlotsMatchRequests
      <4>2. /\ inflight'[l] = Cardinality(Holders(l)')
            /\ MaxConns > 0 => Cardinality(Holders(l)') <= MaxConns
        BY <4>1, <3>4, <3>5, <3>6
      <4>3. ASSUME NEW m \in Limiters \ {l}
            PROVE  /\ inflight'[m] = Cardinality(Holders(m)')
                   /\ MaxConns > 0 => Cardinality(Holders(m)') <= MaxConns
        BY <3>3, <3>5 DEF Slots, SlotsMatchRequests
      <4> QED
        BY <4>2, <4>3 DEF SlotsMatchRequests
    <3> QED
      BY <2>1, <3>7 DEF Slots
  <2> QED
    BY <2>2, <2>3
<1>5. ASSUME NEW l \in Limiters,
             CleanupTick(l) \/ Sweep(l) \/ CleanupStop(l) \/ Close(l)
      PROVE  Slots'
  BY <1>5, SlotsUntouched DEF CleanupTick, Sweep, CleanupStop, Close
<1>6. CASE Tick
  BY <1>6, SlotsUntouched DEF Tick
<1>7. CASE UNCHANGED vars
  BY <1>7, SlotsUntouched DEF vars
<1> QED
  BY <1>1, <1>2, <1>3, <1>4, <1>5, <1>6, <1>7 DEF Next

LEMMA InitSlots == Init => Slots
<1> SUFFICES ASSUME Init PROVE Slots
  OBVIOUS
<1>1. \A l \in Limiters : Holders(l) = {} /\ inflight[l] = 0
  BY DEF Init, Holders, NoRequest
<1>2. Cardinality({}) = 0
  BY FS_EmptySet
<1>3. SlotsMatchRequests
  BY <1>1, <1>2, OptionsAssumption DEF SlotsMatchRequests
<1>4. \A r \in Requests : ~request[r].slot
  BY DEF Init, NoRequest
<1> QED
  BY <1>3, <1>4 DEF Slots

LEMMA TypeAndSlots == Spec => [](TypeOK /\ Slots)
<1>1. TypeOK /\ Slots /\ [Next]_vars => (TypeOK /\ Slots)'
  BY SlotsAreCounted, TypeStep, SlotsStep
<1> QED
  BY <1>1, InitType, InitSlots, PTL DEF Spec

(* Type correctness; that a slot given back was counted, so that inflight  *)
(* does not go below zero, needs the count of the slots held.              *)
THEOREM TypeCorrect == Spec => []TypeOK
BY TypeAndSlots, PTL

(* Whatever way requests end, the channel holds one element for each       *)
(* request being served, and never more than MaxConns.                     *)
THEOREM SlotsAreExact == Spec => []SlotsMatchRequests
<1>1. Slots => SlotsMatchRequests
  BY DEF Slots
<1> QED
  BY <1>1, TypeAndSlots, PTL
-----------------------------------------------------------------------------
(* The rate of a client. *)

LEMMA ReadStep == TypeOK /\ ReadEarlier /\ [Next]_vars => ReadEarlier'
<1> SUFFICES ASSUME TypeOK, ReadEarlier, [Next]_vars PROVE ReadEarlier'
  OBVIOUS
<1>0. now \in Nat /\ MaxStall \in Nat /\ Retention \in Nat
  BY OptionsAssumption DEF TypeOK
<1>1. ASSUME now' = now, cleanup' = cleanup,
             \A r \in Requests : request'[r].pc = "allow" =>
                 request'[r] = request[r] \/ request'[r].at = now
      PROVE  ReadEarlier'
  BY <1>0, <1>1 DEF ReadEarlier
<1>2. ASSUME NEW r \in Requests, NEW l \in Limiters, NEW a \in Addresses,
             Arrive(r, l, a) \/ ArriveSkipped(r, l, a)
      PROVE  ReadEarlier'
  BY <1>1, <1>2 DEF Arrive, ArriveSkipped, TypeOK
<1>3. ASSUME NEW r \in Requests, Allow(r) PROVE ReadEarlier'
  <2>1. PICK pc \in {"slot", "tooMany"} : /\ request' = [request EXCEPT ![r].pc = pc]
                                          /\ now' = now /\ cleanup' = cleanup
    BY <1>3, AllowOutcome DEF AllowResult
  <2>2. request'[r].pc # "allow" /\ \A q \in Requests \ {r} : request'[q] = request[q]
    BY <2>1 DEF TypeOK, RequestType
  <2> QED
    BY <2>1, <2>2, <1>1
<1>4. ASSUME NEW r \in Requests, TakeSlot(r) PROVE ReadEarlier'
  <2>1. \/ request' = [request EXCEPT ![r].pc = "serve"]
        \/ request' = [request EXCEPT ![r].pc = "busy"]
        \/ request' = [request EXCEPT ![r].pc = "serve", ![r].slot = TRUE]
    BY <1>4 DEF TakeSlot
  <2>2. request'[r].pc # "allow" /\ \A q \in Requests \ {r} : request'[q] = request[q]
    BY <2>1 DEF TypeOK, RequestType
  <2> QED
    BY <1>4, <2>2, <1>1 DEF TakeSlot
<1>5. ASSUME NEW r \in Requests, Finish(r) PROVE ReadEarlier'
  BY <1>1, <1>5 DEF Finish, TypeOK, NoRequest
<1>6. ASSUME NEW l \in Limiters, CleanupTick(l) \/ Sweep(l) \/ CleanupStop(l)
      PROVE  ReadEarlier'
  <2>1. now' = now /\ request' = request
    BY <1>6 DEF CleanupTick, Sweep, CleanupStop
  <2>2. \A m \in Limiters : cleanup'[m].pc = "sweep" =>
           cleanup'[m] = cleanup[m] \/ cleanup'[m].cutoff = now - Retention
    BY <1>6 DEF CleanupTick, Sweep, CleanupStop, TypeOK
  <2> QED
    BY <2>1, <2>2, <1>0 DEF ReadEarlier
<1>7. ASSUME NEW l \in Limiters, Close(l) PROVE ReadEarlier'
  BY <1>1, <1>7 DEF Close
<1>8. CASE Tick
  <2>1. now' = now + 1 /\ request' = request /\ cleanup' = cleanup
    BY <1>8 DEF Tick
  <2>2. \A r \in Requests : request[r].at \in Nat
    BY DEF TypeOK, RequestType
  <2>3. \A l \in Limiters : cleanup[l].cutoff \in Nat
    BY DEF TypeOK
  <2>4. \A r \in Requests : request[r].pc = "allow" => now < request[r].at + MaxStall
    BY <1>8 DEF Tick
  <2> QED
    BY <2>1, <2>2, <2>3, <2>4, <1>0 DEF ReadEarlier
<1>9. CASE UNCHANGED vars
  BY <1>9, <1>1 DEF vars
<1> QED
  BY <1>2, <1>3, <1>4, <1>5, <1>6, <1>7, <1>8, <1>9 DEF Next

(* Time only pays. *)
LEMMA PaidLater ==
    ASSUME TypeOK, now' \in {now, now + 1}, NEW c \in ClientType, NEW used \in Nat,
           PaidFor(c, used)
    PROVE  PaidFor(c, used)'
<1>1. /\ now \in Nat /\ now' \in Nat /\ now <= now' /\ Rate \in Nat
      /\ c.last \in Nat
  BY OptionsAssumption DEF TypeOK, ClientType
<1>2. Rate * now <= Rate * now' /\ Rate * now \in Nat /\ Rate * now' \in Nat
  <2>1. \A t \in Nat : Rate * (t + 1) = Rate * t + Rate /\ Rate * t \in Nat
    BY <1>1
  <2>2. CASE now' = now
    BY <1>1, <2>1, <2>2
  <2>3. CASE now' = now + 1
    <3>1. Rate * now' = Rate * now + Rate
      BY <1>1, <2>1, <2>3
    <3>2. Rate * now \in Nat /\ Rate * now' \in Nat
      BY <1>1, <2>1
    <3> DEFINE before == Rate * now
               after == Rate * now'
    <3> HIDE DEF before, after
    <3>3. after = before + Rate /\ before \in Nat
      BY <3>1, <3>2 DEF before, after
    <3>4. before <= after
      BY <3>3, <1>1
    <3> QED
      BY <3>2, <3>4 DEF before, after
  <2> QED
    BY <2>2, <2>3
<1>3. Rate * MaxStall \in Nat
  BY OptionsAssumption
<1> DEFINE before == Rate * now
           after == Rate * now'
           stall == Rate * MaxStall
<1>4. CASE c.known
  BY <1>1, <1>4 DEF PaidFor
<1>5. CASE ~c.known
  <2>1. before <= after /\ before \in Nat /\ after \in Nat /\ stall \in Nat
    BY <1>2, <1>3
  <2>2. used = 0 \/ used + stall <= before
    BY <1>5 DEF PaidFor
  <2> HIDE DEF before, after, stall
  <2>3. used = 0 \/ used + stall <= after
    BY <2>1, <2>2
  <2> USE DEF before, after, stall
  <2> QED
    BY <2>3, <1>5 DEF PaidFor
<1> QED
  BY <1>4, <1>5

(* allow() spends no more than the bucket it refilled holds. *)
LEMMA AllowPays ==
    ASSUME TypeOK, ReadEarlier, Paid, NEW r \in Requests,
           NEW l \in Limiters, NEW a \in Addresses, NEW c \in ClientType, NEW pc,
           AllowResult(r, l, a, c, pc)
    PROVE  PaidFor(c, admitted[l][a] * Cost)'
<1> DEFINE old == clients[l][a]
           at == request[r].at
           f == Refilled(old, at)
           used == admitted[l][a] * Cost
<1>1. /\ now \in Nat /\ Rate \in Nat /\ Cost \in Nat /\ Burst \in Nat /\ MaxStall \in Nat
      /\ at \in Nat /\ admitted[l][a] \in Nat /\ used \in Nat
  BY OptionsAssumption DEF TypeOK, RequestType
<1>2. old \in ClientType /\ old.tokens <= Burst /\ old.last \in Nat /\ old.tokens \in Nat
  BY DEF TypeOK, ClientType
<1>3. at <= now /\ now <= at + MaxStall
  BY DEF AllowResult, ReadEarlier
<1>4. PaidFor(old, used)
  BY DEF Paid
<1>5. /\ f \in ClientType /\ f.last \in Nat /\ f.tokens \in Nat
      /\ ~old.known => f.tokens = Burst /\ f.last = at
      /\ old.known => /\ f.last \in {old.last, at}
                      /\ f.tokens + Rate * old.last <= old.tokens + Rate * f.last
  BY <1>1, <1>2, RefilledProperties DEF ClientType
<1>6. c.known /\ c.last = f.last /\ now' = now /\ c.tokens \in Nat
  BY DEF AllowResult, ClientType
<1>7. admitted'[l][a] * Cost + c.tokens = used + f.tokens
  <2>1. CASE admitted' = admitted /\ c.tokens = f.tokens
    BY <2>1
  <2>2. CASE admitted' = [admitted EXCEPT ![l][a] = @ + 1] /\ c.tokens + Cost = f.tokens
    <3>1. admitted'[l][a] = admitted[l][a] + 1
      BY <2>2 DEF TypeOK
    <3>2. \A n \in Nat : (n + 1) * Cost = n * Cost + Cost
      BY <1>1
    <3>3. admitted'[l][a] * Cost = used + Cost
      BY <1>1, <3>1, <3>2
    <3> HIDE DEF used, f
    <3> QED
      BY <1>1, <1>5, <1>6, <2>2, <3>3
  <2> QED
    BY <2>1, <2>2 DEF AllowResult
<1>8. used + f.tokens <= Burst + Rate * f.last /\ f.last <= now
  <2>1. Rate * at \in Nat /\ Rate * old.last \in Nat /\ Rate * f.last \in Nat
        /\ Rate * now \in Nat /\ Rate * MaxStall \in Nat
    BY <1>1, <1>2, <1>5
  <2> DEFINE paidAt == Rate * at
             paidOld == Rate * old.last
             paidNew == Rate * f.last
             paidNow == Rate * now
             stall == Rate * MaxStall
  <2>2. CASE old.known
    <3>1. old.last <= now /\ used + old.tokens <= Burst + paidOld
      BY <1>4, <2>2 DEF PaidFor
    <3>2. f.last <= now
      BY <3>1, <2>2, <1>3, <1>5
    <3>3. f.tokens + paidOld <= old.tokens + paidNew
      BY <1>5, <2>2
    <3>4. paidOld \in Nat /\ paidNew \in Nat
      BY <2>1
    <3>5. used + f.tokens <= Burst + paidNew
      <4> HIDE DEF used, f, old, paidOld, paidNew
      <4> QED
        BY <1>1, <1>2, <1>5, <3>1, <3>3, <3>4
    <3> QED
      BY <3>2, <3>5
  <2>3. CASE ~old.known
    <3>1. used = 0 \/ used + stall <= paidNow
      BY <1>4, <2>3 DEF PaidFor
    <3>2. paidNow <= paidAt + stall
      <4>1. \A t \in Nat : now <= t => Rate * now <= Rate * t
        BY <1>1
      <4>2. \A s, t \in Nat : Rate * (s + t) = Rate * s + Rate * t
        BY <1>1
      <4>3. Rate * now <= Rate * (at + MaxStall)
        BY <1>1, <1>3, <4>1
      <4>4. Rate * (at + MaxStall) = Rate * at + Rate * MaxStall
        BY <1>1, <4>2
      <4> QED
        BY <4>3, <4>4
    <3>3. used <= paidAt
      <4>1. paidNow \in Nat /\ paidAt \in Nat /\ stall \in Nat
        BY <2>1
      <4> HIDE DEF used, paidAt, paidNow, stall
      <4> QED
        BY <1>1, <3>1, <3>2, <4>1
    <3>4. f.tokens = Burst /\ f.last = at
      BY <1>5, <2>3
    <3>5. used + Burst <= Burst + paidAt
      <4>1. paidAt \in Nat
        BY <2>1
      <4> HIDE DEF used, paidAt
      <4> QED
        BY <1>1, <3>3, <4>1
    <3> QED
      BY <3>4, <3>5, <1>3
  <2> QED
    BY <2>2, <2>3
<1>9. admitted'[l][a] * Cost + c.tokens <= Burst + Rate * c.last /\ c.last <= now'
  BY <1>6, <1>7, <1>8
<1> QED
  BY <1>6, <1>9 DEF PaidFor

(* Whoever comes after the clean-up finds what was used paid for. *)
LEMMA SweepPays ==
    ASSUME TypeOK, ReadEarlier, Paid, CleanupIsLate,
           NEW l \in Limiters, NEW a \in Addresses,
           cleanup[l].pc = "sweep", clients[l][a].last < cleanup[l].cutoff
    PROVE  PaidFor(NoClient, admitted[l][a] * Cost)
<1> DEFINE c == clients[l][a]
           used == admitted[l][a] * Cost
<1>1. /\ now \in Nat /\ Rate \in Nat /\ Cost \in Nat /\ Burst \in Nat /\ MaxStall \in Nat
      /\ Retention \in Nat /\ admitted[l][a] \in Nat /\ used \in Nat
      /\ cleanup[l].cutoff \in Nat
  BY OptionsAssumption DEF TypeOK
<1>2. c \in ClientType /\ c.last \in Nat /\ c.tokens \in Nat
  BY DEF TypeOK, ClientType
<1>3. cleanup[l].cutoff + Retention <= now
  BY DEF ReadEarlier
<1>4. PaidFor(c, used)
  BY DEF Paid
<1>5. CASE ~c.known
  BY <1>4, <1>5 DEF PaidFor, NoClient
<1>6. CASE c.known
  <2>1. used + c.tokens <= Burst + Rate * c.last
    BY <1>4, <1>6 DEF PaidFor
  <2>2. Burst + Rate * MaxStall <= Rate * Retention
    BY DEF CleanupIsLate
  <2>3. Rate * Retention + Rate * c.last <= Rate * now
    <3>1. \A s, t \in Nat : Rate * (s + t) = Rate * s + Rate * t
      BY <1>1
    <3>2. \A t \in Nat : t <= now => Rate * t <= Rate * now
      BY <1>1
    <3>3. Retention + c.last <= now /\ Retention + c.last \in Nat
      BY <1>1, <1>2, <1>3
    <3>4. Rate * (Retention + c.last) <= Rate * now
      BY <3>2, <3>3
    <3>5. Rate * (Retention + c.last) = Rate * Retention + Rate * c.last
      BY <1>1, <1>2, <3>1
    <3> QED
      BY <3>4, <3>5
  <2> DEFINE stall == Rate * MaxStall
             kept == Rate * Retention
             paid == Rate * c.last
             paidNow == Rate * now
  <2>4. stall \in Nat /\ kept \in Nat /\ paid \in Nat /\ paidNow \in Nat
    BY <1>1, <1>2
  <2>5. used + stall <= paidNow
    <3>1. /\ used + c.tokens <= Burst + paid /\ Burst + stall <= kept
          /\ kept + paid <= paidNow
      BY <2>1, <2>2, <2>3
    <3> HIDE DEF used, stall, kept, paid, paidNow, c
    <3> QED
      BY <1>1, <1>2, <2>4, <3>1
  <2> QED
    BY <2>5 DEF PaidFor, NoClient
<1> QED
  BY <1>5, <1>6

LEMMA PaidStep == TypeOK /\ ReadEarlier /\ Paid /\ CleanupIsLate /\ [Next]_vars => Paid'
<1> SUFFICES ASSUME TypeOK, ReadEarlier, Paid, CleanupIsLate, [Next]_vars,
                    NEW l \in Limiters, NEW a \in Addresses
             PROVE  PaidFor(clients[l][a], admitted[l][a] * Cost)'
  BY DEF Paid
<1>0. now \in Nat /\ admitted[l][a] * Cost \in Nat /\ clients[l][a] \in ClientType
      /\ PaidFor(clients[l][a], admitted[l][a] * Cost)
  BY OptionsAssumption DEF TypeOK, Paid
<1>1. ASSUME clients'[l][a] = clients[l][a], admitted'[l][a] = admitted[l][a],
             now' \in {now, now + 1}
      PROVE  PaidFor(clients[l][a], admitted[l][a] * Cost)'
  <2> DEFINE c == clients[l][a]
             used == admitted[l][a] * Cost
  <2>1. \A d \in ClientType, n \in Nat : PaidFor(d, n) => PaidFor(d, n)'
    BY <1>1, PaidLater
  <2>2. PICK d \in ClientType, n \in Nat : d = clients[l][a] /\ n = admitted[l][a] * Cost
    BY <1>0
  <2>3. PaidFor(d, n)'
    BY <1>0, <2>1, <2>2
  <2>4. d = clients'[l][a] /\ n = admitted'[l][a] * Cost
    BY <1>1, <2>2
  <2> QED
    BY <2>3, <2>4 DEF PaidFor
<1>2. ASSUME NEW r \in Requests, Allow(r)
      PROVE  PaidFor(clients[l][a], admitted[l][a] * Cost)'
  <2>1. PICK m \in Limiters, b \in Addresses, c \in ClientType,
             pc \in {"slot", "tooMany"} : AllowResult(r, m, b, c, pc)
    BY <1>2, AllowOutcome
  <2>2. CASE l = m /\ a = b
    <3>1. PaidFor(c, admitted[l][a] * Cost)'
      BY <2>1, <2>2, AllowPays
    <3>2. clients'[l][a] = c
      BY <2>1, <2>2 DEF AllowResult, TypeOK
    <3> QED
      BY <3>1, <3>2 DEF PaidFor
  <2>3. CASE ~(l = m /\ a = b)
    <3>1. clients'[l][a] = clients[l][a]
      BY <2>1, <2>3 DEF AllowResult, TypeOK
    <3>2. admitted' = admitted \/ admitted' = [admitted EXCEPT ![m][b] = @ + 1]
      BY <2>1 DEF AllowResult
    <3>3. admitted'[l][a] = admitted[l][a]
      BY <3>2, <2>3 DEF TypeOK
    <3> QED
      BY <3>1, <3>3, <2>1, <1>1 DEF AllowResult
  <2> QED
    BY <2>2, <2>3
<1>3. ASSUME NEW m \in Limiters, Sweep(m)
      PROVE  PaidFor(clients[l][a], admitted[l][a] * Cost)'
  <2>1. /\ admitted' = admitted /\ now' = now /\ cleanup[m].pc = "sweep"
        /\ \/ clients'[l][a] = clients[l][a]
           \/ /\ m = l /\ clients'[l][a] = NoClient
              /\ clients[l][a].last < cleanup[l].cutoff
    BY <1>3 DEF Sweep, TypeOK
  <2>2. CASE clients'[l][a] = clients[l][a]
    BY <2>1, <2>2, <1>1
  <2>3. CASE /\ m = l /\ clients'[l][a] = NoClient
             /\ clients[l][a].last < cleanup[l].cutoff
    <3>1. PaidFor(NoClient, admitted[l][a] * Cost)
      BY <2>1, <2>3, SweepPays
    <3> QED
      BY <3>1, <2>1, <2>3 DEF PaidFor
  <2> QED
    BY <2>1, <2>2, <2>3
<1>4. ASSUME NEW r \in Requests,
             \/ \E m \in Limiters, b \in Addresses : Arrive(r, m, b) \/ ArriveSkipped(r, m, b)
             \/ TakeSlot(r) \/ Finish(r)
      PROVE  PaidFor(clients[l][a], admitted[l][a] * Cost)'
  BY <1>1, <1>4 DEF Arrive, ArriveSkipped, TakeSlot, Finish
<1>5. ASSUME NEW m \in Limiters, CleanupTick(m) \/ CleanupStop(m) \/ Close(m)
      PROVE  PaidFor(clients[l][a], admitted[l][a] * Cost)'
  BY <1>1, <1>5 DEF CleanupTick, CleanupStop, Close
<1>6. CASE Tick
  BY <1>1, <1>6 DEF Tick
<1>7. CASE UNCHANGED vars
  BY <1>1, <1>7 DEF vars
<1> QED
  BY <1>2, <1>3, <1>4, <1>5, <1>6, <1>7 DEF Next

LEMMA InitRate == Init => ReadEarlier /\ Paid
BY OptionsAssumption DEF Init, ReadEarlier, Paid, PaidFor, NoClient, NoRequest

LEMMA PaidMeansSustained == TypeOK /\ Paid => SustainedRate
<1> SUFFICES ASSUME TypeOK, Paid, NEW l \in Limiters, NEW a \in Addresses
             PROVE  admitted[l][a] * Cost <= Burst + Rate * now
  BY DEF SustainedRate
<1> DEFINE c == clients[l][a]
           used == admitted[l][a] * Cost
           paid == Rate * c.last
           paidNow == Rate * now
           stall == Rate * MaxStall
<1>1. /\ used \in Nat /\ now \in Nat /\ Burst \in Nat /\ stall \in Nat
      /\ c.last \in Nat /\ c.tokens \in Nat /\ paid \in Nat /\ paidNow \in Nat
  BY OptionsAssumption DEF TypeOK, ClientType
<1>2. PaidFor(c, used)
  BY DEF Paid
<1>3. c.last <= now => paid <= paidNow
  <2>1. \A s, t \in Nat : s <= t => Rate * s <= Rate * t
    BY OptionsAssumption
  <2> QED
    BY <1>1, <2>1
<1>4. CASE c.known
  <2>1. c.last <= now /\ used + c.tokens <= Burst + paid
    BY <1>2, <1>4 DEF PaidFor
  <2>2. used <= Burst + paidNow
    <3> HIDE DEF c, used, paid, paidNow
    <3> QED
      BY <1>1, <1>3, <2>1
  <2> QED
    BY <2>2
<1>5. CASE ~c.known
  <2>1. used = 0 \/ used + stall <= paidNow
    BY <1>2, <1>5 DEF PaidFor
  <2>2. used <= Burst + paidNow
    <3> HIDE DEF c, used, paidNow, stall
    <3> QED
      BY <1>1, <2>1
  <2> QED
    BY <2>2
<1> QED
  BY <1>4, <1>5

(* No client is let through more often than its burst and the time passed  *)
(* allow, provided that the three minutes of the clean-up refill a bucket. *)
THEOREM RateIsSustained == ASSUME CleanupIsLate PROVE Spec => []SustainedRate
<1>1. CleanupIsLate
  OBVIOUS
<1>2. TypeOK /\ ReadEarlier /\ Paid /\ [Next]_vars => (ReadEarlier /\ Paid)'
  BY <1>1, ReadStep, PaidStep
<1> QED
  BY <1>2, InitRate, PaidMeansSustained, TypeCorrect, PTL DEF Spec

-----------------------------------------------------------------------------
(* The burst of a client. *)

LEMMA GrantedStep ==
    TypeOK /\ Granted /\ BurstIsGranted /\ [Next]_vars => (Granted /\ BurstIsGranted)'
<1> SUFFICES ASSUME TypeOK, Granted, BurstIsGranted, [Next]_vars
             PROVE  (Granted /\ BurstIsGranted)'
  OBVIOUS
<1>0. Cost \in Nat /\ Burst \in Nat /\ \A n \in Nat : n * Cost \in Nat /\ (n + 1) * Cost = n * Cost + Cost
  BY OptionsAssumption
<1>1. ASSUME admitted' = admitted,
             \A l \in Limiters, a \in Addresses :
                 clients'[l][a] = clients[l][a] \/ clients'[l][a] = NoClient,
             \A r \in Requests : request'[r] = request[r] \/ request'[r].pc # "tooMany"
      PROVE  (Granted /\ BurstIsGranted)'
  <2>1. Granted'
    BY <1>1 DEF Granted, NoClient
  <2>2. BurstIsGranted'
    BY <1>1 DEF BurstIsGranted
  <2> QED
    BY <2>1, <2>2
<1>2. ASSUME NEW r \in Requests, Allow(r) PROVE (Granted /\ BurstIsGranted)'
  <2>1. PICK l \in Limiters, a \in Addresses, c \in ClientType,
             pc \in {"slot", "tooMany"} : AllowResult(r, l, a, c, pc)
    BY <1>2, AllowOutcome
  <2> DEFINE used == admitted[l][a] * Cost
             f == Refilled(clients[l][a], request[r].at)
  <2>2. used \in Nat /\ f.tokens \in Nat /\ used + f.tokens >= Burst
    <3>1. request[r].at \in Nat /\ clients[l][a] \in ClientType
          /\ clients[l][a].tokens <= Burst /\ used \in Nat /\ clients[l][a].tokens \in Nat
      BY <1>0 DEF TypeOK, RequestType, ClientType
    <3>2. /\ f \in ClientType
          /\ ~clients[l][a].known => f.tokens = Burst
          /\ clients[l][a].known => f.tokens >= clients[l][a].tokens
      BY <3>1, RefilledProperties
    <3>3. f.tokens \in Nat
      BY <3>2 DEF ClientType
    <3>4. clients[l][a].known => used + clients[l][a].tokens >= Burst
      BY DEF Granted
    <3> HIDE DEF used, f
    <3> QED
      BY <1>0, <3>1, <3>2, <3>3, <3>4
  <2>3. c.tokens \in Nat /\ clients'[l][a] = c
        /\ \A m \in Limiters, b \in Addresses :
             ~(m = l /\ b = a) => clients'[m][b] = clients[m][b]
    BY <2>1 DEF AllowResult, ClientType, TypeOK
  <2>4. /\ admitted'[l][a] * Cost + c.tokens = used + f.tokens
        /\ admitted'[l][a] \in Nat
        /\ \A m \in Limiters, b \in Addresses :
             /\ admitted'[m][b] \in {admitted[m][b], admitted[m][b] + 1}
             /\ ~(m = l /\ b = a) => admitted'[m][b] = admitted[m][b]
    <3>1. CASE admitted' = admitted /\ c.tokens = f.tokens
      BY <3>1 DEF TypeOK
    <3>2. CASE admitted' = [admitted EXCEPT ![l][a] = @ + 1] /\ c.tokens + Cost = f.tokens
      <4>1. /\ admitted'[l][a] = admitted[l][a] + 1 /\ admitted[l][a] \in Nat
            /\ \A m \in Limiters, b \in Addresses :
                 ~(m = l /\ b = a) => admitted'[m][b] = admitted[m][b]
        BY <3>2 DEF TypeOK
      <4>2. admitted'[l][a] * Cost = used + Cost
        BY <1>0, <4>1
      <4>3. admitted'[l][a] * Cost + c.tokens = used + f.tokens
        <5> HIDE DEF used, f
        <5> QED
          BY <1>0, <2>2, <2>3, <3>2, <4>2
      <4>4. \A m \in Limiters, b \in Addresses :
              admitted'[m][b] \in {admitted[m][b], admitted[m][b] + 1}
        BY <4>1
      <4> QED
        BY <4>1, <4>3, <4>4
    <3> QED
      BY <2>1, <3>1, <3>2 DEF AllowResult
  <2>5. Granted'
    <3>1. admitted'[l][a] * Cost + c.tokens >= Burst
      BY <2>2, <2>4
    <3> QED
      BY <2>3, <2>4, <3>1 DEF Granted
  <2>6. BurstIsGranted'
    <3> SUFFICES ASSUME NEW q \in Requests, request'[q].pc = "tooMany"
                 PROVE  admitted'[request'[q].limiter][request'[q].addr] * Cost + Cost > Burst
      BY DEF BurstIsGranted
    <3>1. CASE q = r
      <4>1. /\ request[r] \in RequestType /\ request' = [request EXCEPT ![r].pc = pc]
            /\ l = request[r].limiter /\ a = request[r].addr
        BY <2>1 DEF AllowResult, TypeOK
      <4>2. request'[r].limiter = l /\ request'[r].addr = a /\ pc = "tooMany"
        BY <4>1, <3>1 DEF TypeOK, RequestType
      <4>3. c.tokens < Cost
        BY <2>1, <4>2 DEF AllowResult
      <4>4. admitted'[l][a] * Cost + c.tokens >= Burst /\ admitted'[l][a] * Cost \in Nat
        BY <2>2, <2>4, <1>0
      <4>5. admitted'[l][a] * Cost + Cost > Burst
        <5>1. \A x, y \in Nat : x + y >= Burst /\ y < Cost => x + Cost > Burst
          BY <1>0
        <5> QED
          BY <2>3, <4>3, <4>4, <5>1
      <4> QED
        BY <3>1, <4>2, <4>5
    <3>2. CASE q # r
      <4>1. request'[q] = request[q]
        BY <2>1, <3>2 DEF AllowResult, TypeOK
      <4> DEFINE m == request[q].limiter
                 b == request[q].addr
      <4>2. m \in Limiters /\ b \in Addresses /\ admitted[m][b] \in Nat
        BY <4>1 DEF TypeOK
      <4>3. admitted[m][b] * Cost + Cost > Burst
        BY <4>1 DEF BurstIsGranted
      <4>4. admitted'[m][b] \in {admitted[m][b], admitted[m][b] + 1}
        BY <2>4, <4>2
      <4>5. admitted'[m][b] * Cost + Cost > Burst
        <5>1. \A n \in Nat : n * Cost + Cost > Burst => (n + 1) * Cost + Cost > Burst
          <6>1. \A x \in Nat : x + Cost > Burst => x + Cost + Cost > Burst
            BY <1>0
          <6> QED
            BY <1>0, <6>1
        <5> QED
          BY <4>2, <4>3, <4>4, <5>1
      <4> QED
        BY <4>1, <4>5
    <3> QED
      BY <3>1, <3>2
  <2> QED
    BY <2>5, <2>6
<1>3. ASSUME NEW r \in Requests, NEW l \in Limiters, NEW a \in Addresses,
             Arrive(r, l, a) \/ ArriveSkipped(r, l, a)
      PROVE  (Granted /\ BurstIsGranted)'
  BY <1>1, <1>3 DEF Arrive, ArriveSkipped, TypeOK
<1>4. ASSUME NEW r \in Requests, TakeSlot(r) PROVE (Granted /\ BurstIsGranted)'
  <2>1. \/ request' = [request EXCEPT ![r].pc = "serve"]
        \/ request' = [request EXCEPT ![r].pc = "busy"]
        \/ request' = [request EXCEPT ![r].pc = "serve", ![r].slot = TRUE]
    BY <1>4 DEF TakeSlot
  <2>2. request'[r].pc # "tooMany" /\ \A q \in Requests \ {r} : request'[q] = request[q]
    BY <2>1 DEF TypeOK, RequestType
  <2> QED
    BY <1>4, <2>2, <1>1 DEF TakeSlot
<1>5. ASSUME NEW r \in Requests, Finish(r) PROVE (Granted /\ BurstIsGranted)'
  BY <1>1, <1>5 DEF Finish, TypeOK, NoRequest
<1>6. ASSUME NEW l \in Limiters, Sweep(l) PROVE (Granted /\ BurstIsGranted)'
  <2>1. \A m \in Limiters, a \in Addresses :
           clients'[m][a] = clients[m][a] \/ clients'[m][a] = NoClient
    BY <1>6 DEF Sweep, TypeOK
  <2> QED
    BY <2>1, <1>1, <1>6 DEF Sweep
<1>7. ASSUME NEW l \in Limiters, CleanupTick(l) \/ CleanupStop(l) \/ Close(l)
      PROVE  (Granted /\ BurstIsGranted)'
  BY <1>1, <1>7 DEF CleanupTick, CleanupStop, Close
<1>8. CASE Tick
  BY <1>1, <1>8 DEF Tick
<1>9. CASE UNCHANGED vars
  BY <1>1, <1>9 DEF vars
<1> QED
  BY <1>2, <1>3, <1>4, <1>5, <1>6, <1>7, <1>8, <1>9 DEF Next

(* A client is told 429 only after its burst was let through. *)
THEOREM BurstIsAlwaysGranted == Spec => []BurstIsGranted
<1>1. Init => Granted /\ BurstIsGranted
  BY DEF Init, Granted, BurstIsGranted, NoClient, NoRequest
<1> QED
  BY <1>1, GrantedStep, TypeCorrect, PTL DEF Spec

(***************************************************************************)
(* The parameters.  Induction over numbers and sequences is proved of sets *)
(* here: a set of numbers with 0, and with n + 1 if with n, has them all.  *)
(***************************************************************************)

LEMMA SetInduction ==
    ASSUME NEW P \in SUBSET Nat, 0 \in P, \A n \in P : n + 1 \in P
    PROVE  P = Nat
<1> SUFFICES ASSUME Nat \ P # {} PROVE FALSE
  OBVIOUS
<1>1. PICK n \in Nat \ P : \A m \in Nat \ P : ~(m < n)
  <2> DEFINE R == OpToRel(<, Nat)
  <2>1. IsWellFoundedOn(R, Nat)
    BY NatLessThanWellFounded
  <2>2. PICK n \in Nat \ P : \A m \in Nat \ P : ~(<<m, n>> \in R)
    BY <2>1, WFMin, Nat \ P \subseteq Nat
  <2> QED
    BY <2>2 DEF OpToRel
<1>2. n - 1 \in P
  BY <1>1
<1> QED
  BY <1>1, <1>2

(* What holds of the empty sequence, and of a sequence with one more item, *)
(* holds of all.                                                           *)
LEMMA SeqInduction ==
    ASSUME NEW X, NEW P \in SUBSET Seq(X), <<>> \in P,
           \A s \in P : \A c \in X : Append(s, c) \in P
    PROVE  P = Seq(X)
<1> DEFINE N == {n \in Nat : \A s \in Seq(X) : Len(s) = n => s \in P}
<1>1. 0 \in N
  BY EmptySeq
<1>2. ASSUME NEW n \in N PROVE n + 1 \in N
  <2> SUFFICES ASSUME NEW s \in Seq(X), Len(s) = n + 1 PROVE s \in P
    OBVIOUS
  <2> DEFINE front == SubSeq(s, 1, n)
  <2>0. n \in Nat
    OBVIOUS
  <2>1. front \in Seq(X) /\ Len(front) = n /\ s[n + 1] \in X
    BY <2>0
  <2>2. s = Append(front, s[n + 1])
    <3>1. Append(front, s[n + 1]) \in Seq(X) /\ Len(Append(front, s[n + 1])) = Len(s)
      BY <2>0, <2>1
    <3>2. ASSUME NEW i \in 1 .. Len(s) PROVE s[i] = Append(front, s[n + 1])[i]
      BY <2>0, <2>1
    <3> HIDE DEF front
    <3> QED
      BY <3>1, <3>2, SeqEqual
  <2>3. front \in P
    BY <2>1
  <2> HIDE DEF front
  <2> QED
    BY <2>1, <2>2, <2>3
<1>3. N = Nat
  <2> HIDE DEF N
  <2>1. N \in SUBSET Nat
    BY DEF N
  <2> QED
    BY <1>1, <1>2, <2>1, SetInduction
<1>4. ASSUME NEW s \in Seq(X) PROVE s \in P
  <2>1. Len(s) \in N
    BY <1>3
  <2> QED
    BY <2>1
<1> QED
  BY <1>4

-----------------------------------------------------------------------------
(* Loops: f is the value after every number of items.                      *)
Runs(step, start, items, f) ==
    f = [i \in 0 .. Len(items) |-> IF i = 0 THEN start ELSE step[<<f[i - 1], items[i]>>]]

LEMMA RunsStep ==
    ASSUME NEW step, NEW start, NEW items, NEW f, Runs(step, start, items, f),
           NEW n \in Nat, n + 1 \in 0 .. Len(items)
    PROVE  f[n + 1] = step[<<f[n], items[n + 1]>>]
<1> DEFINE k == n + 1
<1>1. k # 0 /\ k - 1 = n
  OBVIOUS
<1> HIDE DEF k
<1>2. f[k] = IF k = 0 THEN start ELSE step[<<f[k - 1], items[k]>>]
  BY DEF Runs, k
<1> QED
  BY <1>1, <1>2 DEF k

LEMMA RunsOnce ==
    ASSUME NEW step, NEW start, NEW items, Len(items) \in Nat,
           NEW f, Runs(step, start, items, f), NEW g, Runs(step, start, items, g)
    PROVE  f = g
<1> DEFINE N == {n \in Nat : n <= Len(items) => f[n] = g[n]}
<1>1. 0 \in N
  BY DEF Runs
<1>2. ASSUME NEW n \in N PROVE n + 1 \in N
  <2> SUFFICES ASSUME n + 1 <= Len(items) PROVE f[n + 1] = g[n + 1]
    OBVIOUS
  <2>1. n \in Nat /\ n + 1 \in 0 .. Len(items) /\ n + 1 # 0 /\ n + 1 - 1 = n
    OBVIOUS
  <2>2. f[n] = g[n]
    BY <2>1
  <2>3. f[n + 1] = step[<<f[n], items[n + 1]>>] /\ g[n + 1] = step[<<g[n], items[n + 1]>>]
    BY <2>1, RunsStep
  <2> QED
    BY <2>2, <2>3
<1>3. N = Nat
  <2> HIDE DEF N
  <2>1. N \in SUBSET Nat
    BY DEF N
  <2> QED
    BY <1>1, <1>2, <2>1, SetInduction
<1>4. \A n \in 0 .. Len(items) : f[n] = g[n]
  BY <1>3
<1> QED
  BY <1>4 DEF Runs

(* One item more. *)
LEMMA RunsOn ==
    ASSUME NEW X, NEW items \in Seq(X), NEW c \in X, NEW step, NEW start,
           NEW f, Runs(step, start, items, f)
    PROVE  \E g : /\ Runs(step, start, Append(items, c), g)
                  /\ g[Len(items) + 1] = step[<<f[Len(items)], c>>]
<1> DEFINE n == Len(items)
           more == Append(items, c)
           g == [i \in 0 .. n + 1 |-> IF i <= n THEN f[i] ELSE step[<<f[n], c>>]]
<1>1. n \in Nat /\ Len(more) = n + 1 /\ more[n + 1] = c /\ \A i \in 1 .. n : more[i] = items[i]
  OBVIOUS
<1> HIDE DEF n, more
<1>2. f = [i \in 0 .. n |-> IF i = 0 THEN start ELSE step[<<f[i - 1], items[i]>>]]
  BY DEF Runs, n
<1>3. ASSUME NEW i \in 0 .. n + 1 PROVE g[i] = IF i = 0 THEN start ELSE step[<<g[i - 1], more[i]>>]
  <2>1. CASE i = 0
    BY <1>1, <1>2, <2>1
  <2>2. CASE i \in 1 .. n
    <3>1. g[i] = f[i] /\ g[i - 1] = f[i - 1] /\ more[i] = items[i]
      BY <1>1, <2>2
    <3>2. f[i] = step[<<f[i - 1], items[i]>>]
      BY <1>1, <1>2, <2>2
    <3> HIDE DEF g
    <3> QED
      BY <3>1, <3>2, <2>2
  <2>3. CASE i = n + 1
    BY <1>1, <2>3
  <2> QED
    BY <1>1, <2>1, <2>2, <2>3
<1>4. g = [i \in 0 .. Len(more) |-> IF i = 0 THEN start ELSE step[<<g[i - 1], more[i]>>]]
  BY <1>1, <1>3
<1>5. g[n + 1] = step[<<f[n], c>>]
  BY <1>1
<1> HIDE DEF g
<1> QED
  BY <1>4, <1>5 DEF Runs, n, more

LEMMA RunsIs ==
    ASSUME NEW step, NEW start, NEW items, Len(items) \in Nat, NEW f, Runs(step, start, items, f)
    PROVE  Loop(step, start, items) = f[Len(items)]
<1> DEFINE at == CHOOSE g : g = [i \in 0 .. Len(items) |-> IF i = 0 THEN start ELSE step[<<g[i - 1], items[i]>>]]
<1>1. Loop(step, start, items) = at[Len(items)]
  BY DEF Loop
<1>2. Runs(step, start, items, at)
  <2>1. \E g : g = [i \in 0 .. Len(items) |-> IF i = 0 THEN start ELSE step[<<g[i - 1], items[i]>>]]
    BY DEF Runs
  <2> QED
    BY <2>1 DEF Runs
<1> HIDE DEF at
<1>3. at = f
  BY <1>2, RunsOnce
<1> QED
  BY <1>1, <1>3

LEMMA LoopRuns ==
    ASSUME NEW X, NEW step, NEW start
    PROVE  \A items \in Seq(X) : \E f : Runs(step, start, items, f)
<1> DEFINE P == {items \in Seq(X) : \E f : Runs(step, start, items, f)}
<1>1. <<>> \in P
  <2> DEFINE f == [i \in 0 .. 0 |-> start]
  <2>1. f = [i \in 0 .. Len(<<>>) |-> IF i = 0 THEN start ELSE step[<<f[i - 1], <<>>[i]>>]]
    OBVIOUS
  <2> HIDE DEF f
  <2>2. Runs(step, start, <<>>, f)
    BY <2>1 DEF Runs
  <2> QED
    BY <2>2
<1>2. ASSUME NEW s \in P, NEW c \in X PROVE Append(s, c) \in P
  <2>1. s \in Seq(X) /\ Append(s, c) \in Seq(X)
    OBVIOUS
  <2>2. PICK f : Runs(step, start, s, f)
    OBVIOUS
  <2> QED
    BY <2>1, <2>2, RunsOn
<1>3. P = Seq(X)
  <2> HIDE DEF P
  <2>1. P \in SUBSET Seq(X)
    BY DEF P
  <2> QED
    BY <1>1, <1>2, <2>1, SeqInduction
<1> QED
  BY <1>3

LEMMA LoopEmpty ==
    ASSUME NEW step, NEW start
    PROVE  Loop(step, start, <<>>) = start
<1>1. PICK f : Runs(step, start, <<>>, f)
  BY LoopRuns, <<>> \in Seq({})
<1>2. f[0] = start
  BY <1>1 DEF Runs
<1>3. Len(<<>>) = 0
  OBVIOUS
<1> QED
  BY <1>1, <1>2, <1>3, RunsIs

LEMMA LoopAppend ==
    ASSUME NEW X, NEW items \in Seq(X), NEW c \in X, NEW step, NEW start
    PROVE  Loop(step, start, Append(items, c)) = step[<<Loop(step, start, items), c>>]
<1> DEFINE more == Append(items, c)
<1>1. PICK f : Runs(step, start, items, f)
  BY LoopRuns
<1>2. PICK g : Runs(step, start, more, g) /\ g[Len(items) + 1] = step[<<f[Len(items)], c>>]
  BY <1>1, RunsOn
<1>3. Loop(step, start, items) = f[Len(items)]
  BY <1>1, RunsIs
<1>4. Len(more) = Len(items) + 1 /\ Len(more) \in Nat
  OBVIOUS
<1> HIDE DEF more
<1>5. Loop(step, start, more) = g[Len(more)]
  BY <1>2, <1>4, RunsIs
<1>6. Loop(step, start, more) = step[<<Loop(step, start, items), c>>]
  BY <1>2, <1>3, <1>4, <1>5
<1> QED
  BY <1>6 DEF more

LEMMA LoopType ==
    ASSUME NEW X, NEW S, NEW step, NEW start \in S,
           \A v \in S : \A c \in X : step[<<v, c>>] \in S
    PROVE  \A items \in Seq(X) : Loop(step, start, items) \in S
<1> DEFINE P == {items \in Seq(X) : Loop(step, start, items) \in S}
<1>1. <<>> \in P
  BY LoopEmpty, <<>> \in Seq(X)
<1>2. ASSUME NEW s \in P, NEW c \in X PROVE Append(s, c) \in P
  <2>1. s \in Seq(X) /\ Append(s, c) \in Seq(X) /\ Loop(step, start, s) \in S
    OBVIOUS
  <2>2. Loop(step, start, Append(s, c)) = step[<<Loop(step, start, s), c>>]
    BY <2>1, LoopAppend
  <2> QED
    BY <2>1, <2>2
<1>3. P = Seq(X)
  <2> HIDE DEF P
  <2>1. P \in SUBSET Seq(X)
    BY DEF P
  <2> QED
    BY <1>1, <1>2, <2>1, SeqInduction
<1> QED
  BY <1>3

LEMMA LoopConcat ==
    ASSUME NEW X, NEW s \in Seq(X), NEW t \in Seq(X), NEW step, NEW start
    PROVE  Loop(step, start, s \o t) = Loop(step, Loop(step, start, s), t)
<1> DEFINE P == {u \in Seq(X) : Loop(step, start, s \o u) = Loop(step, Loop(step, start, s), u)}
<1>1. <<>> \in P
  BY LoopEmpty, s \o <<>> = s
<1>2. ASSUME NEW u \in P, NEW c \in X PROVE Append(u, c) \in P
  <2>1. u \in Seq(X)
    OBVIOUS
  <2>2. s \o Append(u, c) = Append(s \o u, c) /\ s \o u \in Seq(X) /\ Append(u, c) \in Seq(X)
    BY <2>1
  <2>3. Loop(step, start, s \o Append(u, c)) = step[<<Loop(step, start, s \o u), c>>]
    BY <2>2, LoopAppend
  <2>4. Loop(step, Loop(step, start, s), Append(u, c)) = step[<<Loop(step, Loop(step, start, s), u), c>>]
    BY <2>1, LoopAppend
  <2> QED
    BY <2>2, <2>3, <2>4
<1>3. P = Seq(X)
  <2> HIDE DEF P
  <2>1. P \in SUBSET Seq(X)
    BY DEF P
  <2> QED
    BY <1>1, <1>2, <2>1, SeqInduction
<1> QED
  BY <1>3

-----------------------------------------------------------------------------
(* Texts without a comma. *)
Part == Char \ {Comma}

LEMMA PartsAreTexts == Part \subseteq Char /\ Comma \in Char /\ \A p \in Seq(Part) : p \in Seq(Char)
<1>1. Part \subseteq Char /\ Comma \in Char
  BY DEF Part, Char
<1> QED
  BY <1>1, SeqMonotonic

(* Up to the next comma, the last part grows. *)
LEMMA SplitPart ==
    ASSUME NEW parts \in Seq(Seq(Char)), NEW q \in Seq(Char)
    PROVE  \A p \in Seq(Part) : Loop(NextChar, Append(parts, q), p) = Append(parts, q \o p)
<1> DEFINE P == {p \in Seq(Part) : Loop(NextChar, Append(parts, q), p) = Append(parts, q \o p)}
<1>1. <<>> \in P
  <2>1. <<>> \in Seq(Part) /\ q \o <<>> = q
    OBVIOUS
  <2> QED
    BY <2>1, LoopEmpty
<1>2. ASSUME NEW p \in P, NEW c \in Part PROVE Append(p, c) \in P
  <2> DEFINE before == Append(parts, q \o p)
             n == Len(parts) + 1
  <2>1. p \in Seq(Part) /\ Append(p, c) \in Seq(Part) /\ p \in Seq(Char) /\ c \in Char /\ c # Comma
    BY PartsAreTexts DEF Part
  <2>2. /\ Loop(NextChar, Append(parts, q), p) = before
        /\ Loop(NextChar, Append(parts, q), Append(p, c)) = NextChar[<<Loop(NextChar, Append(parts, q), p), c>>]
    BY <2>1, LoopAppend
  <2>3. q \o p \in Seq(Char) /\ q \o Append(p, c) = Append(q \o p, c) /\ q \o Append(p, c) \in Seq(Char)
    BY <2>1
  <2>4. before \in Seq(Seq(Char)) /\ n = Len(before) /\ before[n] = q \o p /\ n \in 1 .. Len(before)
    BY <2>3
  <2>5. NextChar[<<before, c>>] = [before EXCEPT ![n] = Append(q \o p, c)]
    <3> HIDE DEF before, n
    <3> QED
      BY <2>1, <2>4 DEF NextChar, Extended
  <2>6. [before EXCEPT ![n] = Append(q \o p, c)] = Append(parts, q \o Append(p, c))
    <3> DEFINE left == [before EXCEPT ![n] = Append(q \o p, c)]
               right == Append(parts, Append(q \o p, c))
    <3>1. Append(q \o p, c) \in Seq(Char)
      BY <2>3
    <3>2. /\ left \in Seq(Seq(Char)) /\ Len(left) = n
          /\ \A i \in 1 .. n : left[i] = IF i = n THEN Append(q \o p, c) ELSE before[i]
      <4> HIDE DEF before, n
      <4> QED
        BY <2>4, <3>1, ExceptSeq
    <3>3. /\ right \in Seq(Seq(Char)) /\ Len(right) = n
          /\ right[n] = Append(q \o p, c) /\ \A i \in 1 .. Len(parts) : right[i] = parts[i]
      BY <3>1
    <3>4. \A i \in 1 .. Len(parts) : before[i] = parts[i]
      BY <2>3
    <3>5. ASSUME NEW i \in 1 .. n PROVE left[i] = right[i]
      <4>1. CASE i = n
        <5> HIDE DEF left, right, before, n
        <5> QED
          BY <4>1, <3>2, <3>3
      <4>2. CASE i \in 1 .. Len(parts)
        <5>1. i # n
          BY <4>2
        <5> HIDE DEF left, right, before
        <5> QED
          BY <5>1, <4>2, <3>2, <3>3, <3>4
      <4> QED
        BY <4>1, <4>2
    <3> HIDE DEF left, right, before, n
    <3>6. left = right
      BY <3>2, <3>3, <3>5, SeqEqual
    <3> QED
      BY <3>6, <2>3 DEF left, right
  <2> HIDE DEF before, n
  <2> QED
    BY <2>1, <2>2, <2>5, <2>6
<1>3. P = Seq(Part)
  <2> HIDE DEF P
  <2>1. P \in SUBSET Seq(Part)
    BY DEF P
  <2> QED
    BY <1>1, <1>2, <2>1, SeqInduction
<1> QED
  BY <1>3

LEMMA JoinAppend ==
    ASSUME NEW parts \in Seq(Seq(Char)), NEW p \in Seq(Char)
    PROVE  /\ Join(<<>>) = <<>>
           /\ parts = <<>> => Join(Append(parts, p)) = p
           /\ parts # <<>> /\ Join(parts) \in Seq(Char) => Join(Append(parts, p)) = Join(parts) \o <<Comma>> \o p
<1>1. Join(<<>>) = <<>>
  BY DEF Join
<1>2. CASE parts = <<>>
  <2>1. Append(parts, p) # <<>> /\ Head(Append(parts, p)) = p /\ Tail(Append(parts, p)) = <<>>
    BY <1>2
  <2> QED
    BY <1>1, <1>2, <2>1, LoopEmpty DEF Join
<1>3. CASE parts # <<>> /\ Join(parts) \in Seq(Char)
  <2>1. Tail(parts) \in Seq(Seq(Char)) /\ Append(parts, p) # <<>> /\ Head(Append(parts, p)) = Head(parts)
    BY <1>3
  <2>2. Tail(Append(parts, p)) = Append(Tail(parts), p)
    BY <1>3
  <2>3. Join(Append(parts, p)) = JoinTwo[<<Join(parts), p>>]
    BY <1>3, <2>1, <2>2, LoopAppend DEF Join
  <2> QED
    BY <1>1, <1>3, <2>3 DEF JoinTwo
<1> QED
  BY <1>1, <1>2, <1>3

(* What was joined comes apart again, but no part: that gives one empty    *)
(* part.                                                                   *)
LEMMA SplitJoin ==
    \A parts \in Seq(Seq(Part)) : parts # <<>> => Split(Join(parts)) = parts
<1> DEFINE P == {parts \in Seq(Seq(Part)) : parts # <<>> => Join(parts) \in Seq(Char) /\ Split(Join(parts)) = parts}
<1>0. \A parts \in Seq(Seq(Part)) : parts \in Seq(Seq(Char))
  BY PartsAreTexts, SeqMonotonic, Seq(Part) \subseteq Seq(Char)
<1>1. <<>> \in P
  OBVIOUS
<1>2. ASSUME NEW parts \in P, NEW p \in Seq(Part) PROVE Append(parts, p) \in P
  <2>1. parts \in Seq(Seq(Char)) /\ p \in Seq(Char) /\ Append(parts, p) \in Seq(Seq(Part))
    BY <1>0, PartsAreTexts
  <2>2. CASE parts = <<>>
    <3>1. Join(Append(parts, p)) = p
      BY <2>1, <2>2, JoinAppend
    <3>2. Split(p) = Append(<<>>, <<>> \o p)
      <4>1. Loop(NextChar, Append(<<>>, <<>>), p) = Append(<<>>, <<>> \o p)
        BY SplitPart, <<>> \in Seq(Seq(Char)), <<>> \in Seq(Char)
      <4>2. Append(<<>>, <<>>) = << <<>> >>
        OBVIOUS
      <4> QED
        BY <4>1, <4>2 DEF Split
    <3>3. <<>> \o p = p
      BY <2>1
    <3> QED
      BY <2>1, <2>2, <3>1, <3>2, <3>3
  <2>3. CASE parts # <<>>
    <3> DEFINE J == Join(parts)
    <3>1. J \in Seq(Char) /\ Split(J) = parts
      BY <2>3
    <3>2. Join(Append(parts, p)) = J \o <<Comma>> \o p
      BY <2>1, <2>3, <3>1, JoinAppend
    <3> HIDE DEF J
    <3>3. J \o <<Comma>> \o p = Append(J, Comma) \o p /\ Append(J, Comma) \in Seq(Char)
      <4>1. J \o <<Comma>> = Append(J, Comma) /\ Append(J, Comma) \in Seq(Char)
        BY <3>1, PartsAreTexts
      <4> QED
        BY <4>1
    <3>4. Split(Append(J, Comma)) = NextChar[<<parts, Comma>>]
      BY <3>1, PartsAreTexts, LoopAppend DEF Split
    <3>5. NextChar[<<parts, Comma>>] = Append(parts, <<>>)
      BY <2>1, PartsAreTexts DEF NextChar
    <3>6. Split(Append(J, Comma) \o p) = Loop(NextChar, Append(parts, <<>>), p)
      <4> DEFINE s == Append(J, Comma)
                 start == << <<>> >>
      <4> HIDE DEF s, start
      <4>1. Loop(NextChar, start, s \o p) = Loop(NextChar, Loop(NextChar, start, s), p)
        BY <2>1, <3>3, LoopConcat DEF s
      <4> QED
        BY <3>4, <3>5, <4>1 DEF Split, s, start
    <3>9. J \o <<Comma>> \o p \in Seq(Char)
      BY <2>1, <3>3
    <3>7. Loop(NextChar, Append(parts, <<>>), p) = Append(parts, <<>> \o p)
      BY <2>1, SplitPart, <<>> \in Seq(Char)
    <3>8. <<>> \o p = p
      BY <2>1
    <3> QED
      BY <2>1, <3>2, <3>3, <3>6, <3>7, <3>8, <3>9
  <2> QED
    BY <2>2, <2>3
<1>3. P = Seq(Seq(Part))
  <2> HIDE DEF P
  <2>1. P \in SUBSET Seq(Seq(Part))
    BY DEF P
  <2> QED
    BY <1>1, <1>2, <2>1, SeqInduction
<1> QED
  BY <1>3

-----------------------------------------------------------------------------
(* Numbers: the digits of m, and f: the digits of the numbers up to n.     *)
DigitsBy(f, m) == IF m < 10 THEN <<m>> ELSE Append(f[m \div 10], m % 10)

DigitsTo(n, f) == f = [m \in 0 .. n |-> DigitsBy(f, m)]

LEMMA Tenth ==
    ASSUME NEW n \in Nat
    PROVE  /\ n \div 10 \in Nat /\ n % 10 \in Digit /\ n = 10 * (n \div 10) + (n % 10)
           /\ n >= 10 => n \div 10 < n
BY DEF Digit

(* The digits of n depend on those of smaller numbers only. *)
LEMMA DigitsBySmaller ==
    ASSUME NEW n \in Nat, NEW f, NEW g, \A m \in Nat : m < n => f[m] = g[m]
    PROVE  DigitsBy(f, n) = DigitsBy(g, n)
<1>1. CASE n < 10
  BY <1>1 DEF DigitsBy
<1>2. CASE n >= 10
  <2> DEFINE t == n \div 10
  <2>1. t \in Nat /\ t < n
    BY <1>2, Tenth
  <2> HIDE DEF t
  <2>2. f[t] = g[t]
    BY <2>1
  <2>3. DigitsBy(f, n) = Append(f[t], n % 10) /\ DigitsBy(g, n) = Append(g[t], n % 10)
    <3>1. ~(n < 10)
      BY <1>2
    <3> QED
      BY <3>1 DEF DigitsBy, t
  <2> QED
    BY <2>2, <2>3
<1> QED
  BY <1>1, <1>2

LEMMA DigitsToOnce ==
    ASSUME NEW n \in Nat, NEW k \in Nat, n <= k, NEW f, DigitsTo(n, f), NEW g, DigitsTo(k, g)
    PROVE  \A m \in 0 .. n : f[m] = g[m]
<1> DEFINE N == {m \in Nat : \A i \in 0 .. m : i <= n => f[i] = g[i]}
<1>0. ASSUME NEW m \in 0 .. n PROVE f[m] = DigitsBy(f, m) /\ g[m] = DigitsBy(g, m)
  <2>1. m \in 0 .. k
    OBVIOUS
  <2> QED
    BY <2>1 DEF DigitsTo
<1>1. ASSUME NEW m \in Nat, m <= n, \A i \in Nat : i < m => f[i] = g[i] PROVE f[m] = g[m]
  BY <1>0, <1>1, DigitsBySmaller
<1>2. 0 \in N
  BY <1>1
<1>3. ASSUME NEW m \in N PROVE m + 1 \in N
  <2>1. m \in Nat /\ \A i \in 0 .. m : i <= n => f[i] = g[i]
    OBVIOUS
  <2>2. ASSUME m + 1 <= n PROVE f[m + 1] = g[m + 1]
    <3>1. m + 1 \in Nat /\ \A i \in Nat : i < m + 1 => f[i] = g[i]
      BY <2>1, <2>2
    <3> QED
      BY <1>1, <2>2, <3>1
  <2> QED
    BY <2>1, <2>2
<1>4. N = Nat
  <2> HIDE DEF N
  <2>1. N \in SUBSET Nat
    BY DEF N
  <2> QED
    BY <1>2, <1>3, <2>1, SetInduction
<1> QED
  BY <1>4

LEMMA DigitsToAll == \A n \in Nat : \E f : DigitsTo(n, f)
<1> DEFINE N == {n \in Nat : \E f : DigitsTo(n, f)}
<1>1. 0 \in N
  <2> DEFINE f == [m \in 0 .. 0 |-> <<m>>]
  <2>1. f = [m \in 0 .. 0 |-> DigitsBy(f, m)]
    BY DEF DigitsBy
  <2> HIDE DEF f
  <2>2. DigitsTo(0, f)
    BY <2>1 DEF DigitsTo
  <2> QED
    BY <2>2
<1>2. ASSUME NEW n \in N PROVE n + 1 \in N
  <2>1. n \in Nat
    OBVIOUS
  <2>2. PICK f : DigitsTo(n, f)
    OBVIOUS
  <2> DEFINE g == [m \in 0 .. n + 1 |-> IF m <= n THEN f[m] ELSE DigitsBy(f, m)]
  <2>3. ASSUME NEW m \in 0 .. n + 1 PROVE g[m] = DigitsBy(g, m)
    <3>1. g[m] = DigitsBy(f, m)
      BY <2>1, <2>2 DEF DigitsTo
    <3>2. \A i \in Nat : i < m => f[i] = g[i]
      BY <2>1
    <3> HIDE DEF g
    <3> QED
      BY <2>1, <3>1, <3>2, DigitsBySmaller
  <2>4. g = [m \in 0 .. n + 1 |-> DigitsBy(g, m)]
    BY <2>3
  <2> HIDE DEF g
  <2>5. DigitsTo(n + 1, g)
    BY <2>4 DEF DigitsTo
  <2> QED
    BY <2>1, <2>5
<1>3. N = Nat
  <2> HIDE DEF N
  <2>1. N \in SUBSET Nat
    BY DEF N
  <2> QED
    BY <1>1, <1>2, <2>1, SetInduction
<1> QED
  BY <1>3

(* Digits is there, and is what its definition says. *)
LEMMA DigitsAre == \A n \in Nat : Digits[n] = DigitsBy(Digits, n)
<1> DEFINE to(n) == CHOOSE f : DigitsTo(n, f)
           d == [n \in Nat |-> to(n)[n]]
<1>1. ASSUME NEW n \in Nat PROVE DigitsTo(n, to(n))
  BY DigitsToAll
<1> HIDE DEF to
<1>2. ASSUME NEW n \in Nat PROVE d[n] = DigitsBy(d, n)
  <2> DEFINE f == to(n)
  <2>1. f[n] = DigitsBy(f, n)
    BY <1>1 DEF DigitsTo
  <2>2. ASSUME NEW m \in Nat, m < n PROVE f[m] = d[m]
    <3>1. to(m)[m] = f[m]
      <4> DEFINE e == to(m)
      <4>1. DigitsTo(m, e) /\ DigitsTo(n, f) /\ m <= n
        BY <1>1, <2>2
      <4> HIDE DEF e, f
      <4> QED
        BY <4>1, DigitsToOnce DEF e
    <3> QED
      BY <3>1
  <2>3. d[n] = f[n]
    OBVIOUS
  <2> HIDE DEF f, d
  <2> QED
    BY <2>1, <2>2, <2>3, DigitsBySmaller
<1>3. d = [n \in Nat |-> DigitsBy(d, n)]
  BY <1>2
<1> HIDE DEF d
<1>4. \E f : f = [n \in Nat |-> IF n < 10 THEN <<n>> ELSE Append(f[n \div 10], n % 10)]
  BY <1>3 DEF DigitsBy
<1>5. Digits = [n \in Nat |-> IF n < 10 THEN <<n>> ELSE Append(Digits[n \div 10], n % 10)]
  BY <1>4 DEF Digits
<1>6. Digits = [n \in Nat |-> DigitsBy(Digits, n)]
  BY <1>5 DEF DigitsBy
<1> QED
  BY <1>6

LEMMA DigitsRead ==
    \A n \in Nat : Digits[n] \in Seq(Digit) /\ Digits[n] # <<>> /\ Loop(NextDigit, 0, Digits[n]) = n
<1> DEFINE Good(n) == Digits[n] \in Seq(Digit) /\ Digits[n] # <<>> /\ Loop(NextDigit, 0, Digits[n]) = n
           N == {n \in Nat : \A m \in 0 .. n : Good(m)}
<1>1. ASSUME NEW n \in Nat, n < 10 PROVE Good(n)
  <2>1. Digits[n] = Append(<<>>, n)
    <3>1. Digits[n] = <<n>>
      BY <1>1, DigitsAre DEF DigitsBy
    <3> QED
      BY <3>1
  <2>5. n \in Digit /\ <<>> \in Seq(Digit) /\ Append(<<>>, n) \in Seq(Digit) /\ Append(<<>>, n) # <<>>
    BY <1>1 DEF Digit
  <2>2. Loop(NextDigit, 0, Append(<<>>, n)) = NextDigit[<<Loop(NextDigit, 0, <<>>), n>>]
    BY <2>5, LoopAppend
  <2>3. Loop(NextDigit, 0, <<>>) = 0
    BY LoopEmpty
  <2>4. NextDigit[<<0, n>>] = n
    BY <2>5 DEF NextDigit
  <2> QED
    BY <2>1, <2>2, <2>3, <2>4, <2>5
<1>2. ASSUME NEW n \in Nat, n >= 10, Good(n \div 10) PROVE Good(n)
  <2> DEFINE t == n \div 10
             c == n % 10
  <2>1. t \in Nat /\ c \in Digit /\ n = 10 * t + c
    BY Tenth
  <2>2. Digits[n] = Append(Digits[t], c)
    <3>1. ~(n < 10)
      BY <1>2
    <3> QED
      BY <3>1, DigitsAre DEF DigitsBy
  <2>3. Good(t)
    BY <1>2
  <2> HIDE DEF t, c
  <2>4. Loop(NextDigit, 0, Append(Digits[t], c)) = NextDigit[<<Loop(NextDigit, 0, Digits[t]), c>>]
    BY <2>1, <2>3, LoopAppend
  <2>5. NextDigit[<<t, c>>] = 10 * t + c
    BY <2>1 DEF NextDigit
  <2> QED
    BY <2>1, <2>2, <2>3, <2>4, <2>5
<1> HIDE DEF Good
<1>3. 0 \in N
  BY <1>1
<1>4. ASSUME NEW n \in N PROVE n + 1 \in N
  <2>1. n \in Nat /\ \A m \in 0 .. n : Good(m)
    OBVIOUS
  <2>2. Good(n + 1)
    <3>1. CASE n + 1 < 10
      BY <1>1, <2>1, <3>1
    <3>2. CASE n + 1 >= 10
      <4> DEFINE t == (n + 1) \div 10
      <4>1. t \in Nat /\ t < n + 1
        BY <2>1, <3>2, Tenth
      <4> HIDE DEF t
      <4>2. Good(t)
        BY <2>1, <4>1
      <4> QED
        BY <1>2, <2>1, <3>2, <4>2 DEF t
    <3> QED
      BY <2>1, <3>1, <3>2
  <2> QED
    BY <2>1, <2>2
<1>5. N = Nat
  <2> HIDE DEF N
  <2>1. N \in SUBSET Nat
    BY DEF N
  <2> QED
    BY <1>3, <1>4, <2>1, SetInduction
<1>6. \A n \in Nat : Good(n)
  BY <1>5
<1> QED
  BY <1>6 DEF Good

(* A number that is written is read as itself. *)
LEMMA NumberReads ==
    ASSUME NEW n \in Int
    PROVE  /\ formatNumber(n) \in Seq(Part)
           /\ IsNumber(formatNumber(n))
           /\ NumberOf(formatNumber(n)) = n
<1> DEFINE m == IF n < 0 THEN -n ELSE n
           s == Digits[m]
           t == formatNumber(n)
<1>1. m \in Nat
  OBVIOUS
<1>2. s \in Seq(Digit) /\ s # <<>> /\ Loop(NextDigit, 0, s) = m
  BY <1>1, DigitsRead
<1>3. s \in Seq(Part) /\ Minus \in Part
  <2>1. Digit \subseteq Part /\ Minus \in Part
    BY DEF Digit, Part, Char, Minus, Comma
  <2> QED
    BY <1>2, <2>1, SeqMonotonic
<1>4. s[1] # Minus
  BY <1>2 DEF Digit, Minus
<1>5. IF n < 0 THEN t = <<Minus>> \o s ELSE t = s
  BY DEF formatNumber
<1> HIDE DEF s, t
<1>6. /\ t \in Seq(Part)
      /\ t # <<>>
      /\ Unsigned(t) = s
      /\ t[1] = Minus <=> n < 0
  <2>1. CASE n < 0
    <3>1. t = <<Minus>> \o s
      BY <1>5, <2>1
    <3>2. t \in Seq(Part) /\ t # <<>> /\ t[1] = Minus /\ Tail(t) = s
      BY <1>3, <3>1
    <3> QED
      BY <2>1, <3>2 DEF Unsigned
  <2>2. CASE ~(n < 0)
    BY <1>2, <1>3, <1>4, <1>5, <2>2 DEF Unsigned
  <2> QED
    BY <2>1, <2>2
<1>7. IsNumber(t)
  BY <1>2, <1>6 DEF IsNumber
<1>8. NumberOf(t) = n
  BY <1>2, <1>6 DEF NumberOf
<1> QED
  BY <1>6, <1>7, <1>8 DEF t

-----------------------------------------------------------------------------
(* A list of numbers of the type int that a script hands to a method       *)
(* arrives there whole and in order, whatever the numbers and however many *)
(* they are: formatNumber and strings.Join write what Params.IntList reads.*)
THEOREM WrittenListsAreRead ==
    \A numbers \in Seq(GoInt) : IntList(Join([i \in DOMAIN numbers |-> formatNumber(numbers[i])])) = numbers
<1> DEFINE Texts(numbers) == [i \in DOMAIN numbers |-> formatNumber(numbers[i])]
           P == {numbers \in Seq(GoInt) : Loop(NextPart, <<>>, Texts(numbers)) = numbers}
<1>1. ASSUME NEW numbers \in Seq(GoInt) PROVE Texts(numbers) \in Seq(Seq(Part)) /\ Len(Texts(numbers)) = Len(numbers)
  <2>1. \A i \in 1 .. Len(numbers) : formatNumber(numbers[i]) \in Seq(Part)
    <3> SUFFICES ASSUME NEW i \in 1 .. Len(numbers) PROVE formatNumber(numbers[i]) \in Seq(Part)
      OBVIOUS
    <3>1. numbers[i] \in Int
      BY MaxIntAssumption, \A n \in GoInt : n \in Int DEF GoInt
    <3> QED
      BY <3>1, NumberReads
  <2> QED
    BY <2>1
<1>2. <<>> \in P
  <2>1. Texts(<<>>) = <<>>
    OBVIOUS
  <2> QED
    BY <2>1, LoopEmpty
<1>3. ASSUME NEW numbers \in P, NEW n \in GoInt PROVE Append(numbers, n) \in P
  <2>1. numbers \in Seq(GoInt) /\ Append(numbers, n) \in Seq(GoInt) /\ n \in Int
    BY MaxIntAssumption DEF GoInt
  <2>2. Texts(Append(numbers, n)) = Append(Texts(numbers), formatNumber(n))
    <3> DEFINE left == Texts(Append(numbers, n))
               right == Append(Texts(numbers), formatNumber(n))
    <3>1. formatNumber(n) \in Seq(Part) /\ Texts(numbers) \in Seq(Seq(Part)) /\ Len(Texts(numbers)) = Len(numbers)
      BY <1>1, <2>1, NumberReads
    <3>2. left \in Seq(Seq(Part)) /\ Len(left) = Len(Append(numbers, n))
      BY <1>1, <2>1
    <3>3. right \in Seq(Seq(Part)) /\ Len(right) = Len(left)
      <4> HIDE DEF Texts
      <4> QED
        BY <2>1, <3>1, <3>2
    <3>4. ASSUME NEW i \in 1 .. Len(left) PROVE left[i] = right[i]
      <4>1. left[i] = formatNumber(Append(numbers, n)[i])
        BY <2>1, <3>2
      <4>2. CASE i = Len(numbers) + 1
        BY <2>1, <3>1, <4>1, <4>2
      <4>3. CASE i \in 1 .. Len(numbers)
        BY <2>1, <3>1, <4>1, <4>3
      <4> QED
        BY <2>1, <3>2, <4>2, <4>3
    <3> HIDE DEF left, right
    <3>5. left = right
      BY <3>2, <3>3, <3>4, SeqEqual
    <3> QED
      BY <3>5 DEF left, right
  <2>3. Texts(numbers) \in Seq(Seq(Char)) /\ formatNumber(n) \in Seq(Char)
    <3>1. Seq(Part) \subseteq Seq(Char)
      BY PartsAreTexts
    <3>2. formatNumber(n) \in Seq(Part)
      BY <2>1, NumberReads
    <3> HIDE DEF Texts
    <3> QED
      BY <1>1, <2>1, <3>1, <3>2, SeqMonotonic
  <2>4. Loop(NextPart, <<>>, Texts(numbers)) = numbers
    OBVIOUS
  <2> HIDE DEF Texts
  <2>5. Loop(NextPart, <<>>, Append(Texts(numbers), formatNumber(n))) = NextPart[<<numbers, formatNumber(n)>>]
    <3> DEFINE ts == Texts(numbers)
               t == formatNumber(n)
    <3> HIDE DEF ts, t
    <3>1. Loop(NextPart, <<>>, Append(ts, t)) = NextPart[<<Loop(NextPart, <<>>, ts), t>>]
      BY <2>3, LoopAppend DEF ts, t
    <3> QED
      BY <2>4, <3>1 DEF ts, t
  <2>6. IsInt(formatNumber(n)) /\ NumberOf(formatNumber(n)) = n
    BY <2>1, NumberReads DEF IsInt
  <2>7. NextPart[<<numbers, formatNumber(n)>>] = Append(numbers, n)
    BY <2>1, <2>3, <2>6 DEF NextPart
  <2> QED
    BY <2>1, <2>2, <2>5, <2>7
<1>4. P = Seq(GoInt)
  <2> HIDE DEF P
  <2>1. P \in SUBSET Seq(GoInt)
    BY DEF P
  <2> QED
    BY <1>2, <1>3, <2>1, SeqInduction
<1>5. ASSUME NEW numbers \in Seq(GoInt) PROVE IntList(Join(Texts(numbers))) = numbers
  <2>1. Loop(NextPart, <<>>, Texts(numbers)) = numbers
    BY <1>4
  <2>2. CASE numbers = <<>>
    <3>1. Texts(numbers) = <<>>
      BY <2>2
    <3>2. Join(<<>>) = <<>>
      BY DEF Join
    <3>3. Split(<<>>) = Append(<<>>, <<>>)
      BY LoopEmpty DEF Split
    <3>4. Loop(NextPart, <<>>, Append(<<>>, <<>>)) = NextPart[<<Loop(NextPart, <<>>, <<>>), <<>>>>]
      BY LoopAppend, <<>> \in Seq(Seq(Char)), <<>> \in Seq(Char)
    <3>5. Loop(NextPart, <<>>, <<>>) = <<>>
      BY LoopEmpty
    <3>6. ~IsInt(<<>>)
      BY DEF IsInt, IsNumber, Unsigned
    <3>7. NextPart[<< <<>>, <<>> >>] = <<>>
      BY <3>6, <<>> \in Seq(GoInt), <<>> \in Seq(Char) DEF NextPart
    <3> QED
      BY <2>2, <3>1, <3>2, <3>3, <3>4, <3>5, <3>7 DEF IntList
  <2>3. CASE numbers # <<>>
    <3>1. Texts(numbers) \in Seq(Seq(Part)) /\ Texts(numbers) # <<>>
      BY <1>1, <2>3
    <3> HIDE DEF Texts
    <3>2. Split(Join(Texts(numbers))) = Texts(numbers)
      BY <3>1, SplitJoin
    <3> QED
      BY <2>1, <3>2 DEF IntList
  <2> QED
    BY <2>2, <2>3
<1> QED
  BY <1>5
=============================================================================
