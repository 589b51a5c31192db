------------------------- MODULE LongPollHubProofs -------------------------
(***************************************************************************)
(* Proofs about the long poll hub, for any users, devices and goroutines.  *)
(***************************************************************************)
EXTENDS LongPollHub, TLAPS

(* Under the lock, Hub.Wait splits off time stamps of its own user's queue. *)
LEMMA ScanSets ==
    ASSUME TypeOK, NEW p \in Polls, poll[p].pc # "idle"
    PROVE  /\ poll[p].dev \in Devices
           /\ UserOf(p) \in Users
           /\ Newer(p) \in SUBSET events[UserOf(p)]
           /\ AtCursor(p) \in SUBSET events[UserOf(p)]
           /\ events[UserOf(p)] \in SUBSET Nat
           /\ \A e \in Newer(p) : e > poll[p].since
           /\ \A e \in AtCursor(p) : e = poll[p].since
  BY ConstantsAssumption DEF TypeOK, UserOf, Newer, AtCursor

(* The hub of a new server is well-typed. *)
LEMMA InitType == Init => TypeOK
  BY ConstantsAssumption
  DEF Init, TypeOK, NoPoll, NoSession, PollType, PollPcs, SessionType

(* Every handler keeps the hub well-typed. *)
LEMMA TypeStep == TypeOK /\ [Next]_vars => TypeOK'
<1> SUFFICES ASSUME TypeOK, [Next]_vars PROVE TypeOK'
  OBVIOUS
<1> USE DEF TypeOK, hubVars
<1>1. ASSUME NEW q \in Pushers, NEW u \in Users, PushAppend(q, u) PROVE TypeOK'
  BY <1>1 DEF PushAppend
<1>2. ASSUME NEW q \in Pushers, PushSignal(q) PROVE TypeOK'
  BY <1>2 DEF PushSignal
<1>3. ASSUME NEW d \in Devices, BindKey(d) PROVE TypeOK'
  <2>1. <<Owner[d], boot>> \in Users \X Nat
    BY ConstantsAssumption
  <2>2. session' \in [Devices -> SessionType]
    BY <1>3 DEF BindKey, SessionType
  <2>3. keys' \in SUBSET (Users \X Nat)
    BY <1>3, <2>1 DEF BindKey
  <2> QED
    BY <1>3, <2>2, <2>3 DEF BindKey
<1>4. ASSUME NEW d \in Devices, ServerTS(d) PROVE TypeOK'
  BY <1>4 DEF ServerTS, SessionType
<1>5. ASSUME NEW d \in Devices, Leave(d) PROVE TypeOK'
  BY <1>5 DEF Leave, SessionType, NoSession
<1>6. ASSUME NEW d \in Devices, NEW p \in Polls, StartPoll(d, p) PROVE TypeOK'
  <2>1. session[d].key \in Nat /\ session[d].ts \in Nat
    BY DEF SessionType
  <2>2. [pc |-> "lookup", dev |-> d, key |-> session[d].key, since |-> session[d].ts,
         expired |-> FALSE, updates |-> {}, live |-> TRUE] \in PollType
    BY <2>1 DEF PollType, PollPcs
  <2> QED
    BY <1>6, <2>2 DEF StartPoll
<1>7. ASSUME NEW p \in Polls, Lookup(p) PROVE TypeOK'
  <2>1. PICK pc \in PollPcs : poll' = [poll EXCEPT ![p].pc = pc]
    BY <1>7 DEF Lookup, PollPcs
  <2>2. poll' \in [Polls -> PollType]
    BY <2>1 DEF PollType
  <2> QED
    BY <1>7, <2>1, <2>2 DEF Lookup
<1>8. ASSUME NEW p \in Polls, ReadTS(p) PROVE TypeOK'
  <2>1. PICK pc \in PollPcs : poll' = [poll EXCEPT ![p].since = counter, ![p].pc = pc]
    BY <1>8 DEF ReadTS, PollPcs
  <2>2. [poll[p] EXCEPT !.since = counter, !.pc = pc] \in PollType
    BY DEF PollType
  <2>3. poll' \in [Polls -> PollType]
    BY <2>1, <2>2
  <2> QED
    BY <1>8, <2>1, <2>3 DEF ReadTS
<1>9. ASSUME NEW p \in Polls, ScanTakes(p) PROVE TypeOK'
  <2>1. PICK last \in Newer(p) :
          poll' = [poll EXCEPT ![p].pc = "reply", ![p].since = last,
                               ![p].updates = Newer(p)]
    BY <1>9 DEF ScanTakes
  <2>2. poll[p].pc = "scan" /\ last \in Nat /\ Newer(p) \in SUBSET Nat
    BY <1>9, ScanSets DEF ScanTakes
  <2>3. [poll[p] EXCEPT !.pc = "reply", !.since = last, !.updates = Newer(p)]
           \in PollType
    BY <2>2 DEF PollType, PollPcs
  <2>4. poll' \in [Polls -> PollType]
    BY <2>1, <2>3
  <2>5. events' \in [Users -> SUBSET Nat]
    BY <1>9, <2>2, ScanSets DEF ScanTakes
  <2> QED
    BY <1>9, <2>1, <2>2, <2>4, <2>5 DEF ScanTakes
<1>10. ASSUME NEW p \in Polls, ScanFindsNone(p) PROVE TypeOK'
  <2>2. poll' \in [Polls -> PollType]
    BY <1>10 DEF ScanFindsNone, PollType, PollPcs
  <2>3. events' \in [Users -> SUBSET Nat]
    BY <1>10, ScanSets DEF ScanFindsNone
  <2> QED
    BY <1>10, <2>2, <2>3 DEF ScanFindsNone
<1>19. ASSUME NEW p \in Polls, CheckDeadline(p) PROVE TypeOK'
  <2>1. PICK pc \in PollPcs : poll' = [poll EXCEPT ![p].pc = pc]
    BY <1>19 DEF CheckDeadline, PollPcs
  <2>2. poll' \in [Polls -> PollType]
    BY <2>1 DEF PollType
  <2> QED
    BY <1>19, <2>1, <2>2 DEF CheckDeadline
<1>11. ASSUME NEW p \in Polls, Wake(p) PROVE TypeOK'
  <2>1. UserOf(p) \in Users
    BY <1>11, ScanSets DEF Wake
  <2>2. poll' \in [Polls -> PollType]
    BY <1>11 DEF Wake, PollType, PollPcs
  <2> QED
    BY <1>11, <2>1, <2>2 DEF Wake
<1>12. ASSUME NEW p \in Polls, Timeout(p) PROVE TypeOK'
  BY <1>12 DEF Timeout, PollType, PollPcs
<1>13. ASSUME NEW p \in Polls, Expire(p) PROVE TypeOK'
  <2>1. poll' \in [Polls -> PollType]
    BY <1>13 DEF Expire, PollType
  <2> QED
    BY <1>13, <2>1 DEF Expire
<1>14. ASSUME NEW p \in Polls, Respond(p) PROVE TypeOK'
  <2>1. poll[p].dev \in Devices /\ poll[p].since \in Nat /\ poll[p].updates \in SUBSET Nat
    BY <1>14 DEF Respond, PollType
  <2>2. poll' \in [Polls -> PollType]
    BY <1>14 DEF Respond, PollType, PollPcs, NoPoll
  <2>3. session' \in [Devices -> SessionType]
    BY <1>14, <2>1 DEF Respond, SessionType
  <2>4. got' \in [Devices -> SUBSET Nat]
    BY <1>14, <2>1 DEF Respond
  <2> QED
    BY <1>14, <2>2, <2>3, <2>4 DEF Respond, NoPoll
<1>15. ASSUME NEW p \in Polls, RespondFailed(p) PROVE TypeOK'
  <2>1. poll' \in [Polls -> PollType]
    BY <1>15 DEF RespondFailed, PollType, PollPcs, NoPoll
  <2>2. session' \in [Devices -> SessionType]
    BY <1>15 DEF RespondFailed, SessionType, NoSession
  <2> QED
    BY <1>15, <2>1, <2>2 DEF RespondFailed, NoPoll
<1>16. ASSUME NEW p \in Polls, Disconnect(p) PROVE TypeOK'
  <2>1. poll' \in [Polls -> PollType]
    BY <1>16 DEF Disconnect, PollType
  <2> QED
    BY <1>16, <2>1 DEF Disconnect
<1>17. CASE Restart
  BY <1>17 DEF Restart, NoPoll, NoSession, PollType, PollPcs, SessionType
<1>18. CASE UNCHANGED vars
  BY <1>18 DEF vars
<1> QED
  BY <1>1, <1>2, <1>3, <1>4, <1>5, <1>6, <1>7, <1>8, <1>9, <1>10, <1>11, <1>12,
     <1>13, <1>14, <1>15, <1>16, <1>17, <1>18, <1>19 DEF Next, ServePoll

(* The type invariant of the hub: what every handler finds under Hub.mu.  *)
THEOREM TypeCorrect == Spec => []TypeOK
  BY InitType, TypeStep, PTL DEF Spec

-----------------------------------------------------------------------------
(* A step that hands out no time stamp and moves none to another place     *)
(* keeps DeliveryInv, even if it drops some.                               *)
LEMMA DroppingKeepsDelivery ==
    ASSUME DeliveryInv, TypeOK', counter' = counter,
           \A u \in Users : events'[u] \subseteq events[u],
           \A p \in Polls : poll'[p].updates \subseteq poll[p].updates,
           \A p \in Polls : poll'[p].updates # {} => poll'[p].pc = "reply",
           \A d \in Devices : got'[d] \subseteq got[d]
    PROVE  DeliveryInv'
<1>1. Stamped'
  BY Zenon DEF DeliveryInv, Stamped
<1>2. OnePlace'
  BY DEF DeliveryInv, OnePlace
<1> QED
  BY <1>1, <1>2 DEF DeliveryInv

(* Hub.Push and Hub.Wait work on disjoint sets of time stamps. *)
LEMMA DeliveryStep == DeliveryInv /\ TypeOK' /\ [Next]_vars => DeliveryInv'
<1> SUFFICES ASSUME DeliveryInv, TypeOK', [Next]_vars PROVE DeliveryInv'
  OBVIOUS
<1>a. TypeOK /\ Stamped /\ OnePlace
  BY DEF DeliveryInv
<1> USE DEF hubVars
<1>1. ASSUME NEW q \in Pushers, NEW u \in Users, PushAppend(q, u) PROVE DeliveryInv'
  <2>1. /\ counter \in Nat /\ counter' = counter + 1
        /\ events'[u] = events[u] \cup {counter + 1}
        /\ \A v \in Users \ {u} : events'[v] = events[v]
        /\ poll' = poll /\ got' = got
    BY <1>1, <1>a DEF PushAppend, TypeOK
  <2>2. 1..counter \subseteq 1..counter' /\ counter + 1 \in 1..counter'
        /\ counter + 1 \notin 1..counter
    BY <2>1
  <2>3. Stamped'
    BY <2>1, <2>2, <1>a DEF Stamped
  <2>4. OnePlace'
    BY <2>1, <2>2, <1>a DEF Stamped, OnePlace
  <2> QED
    BY <2>3, <2>4 DEF DeliveryInv
<1>2. ASSUME NEW q \in Pushers, PushSignal(q) PROVE DeliveryInv'
  BY <1>2, <1>a, DroppingKeepsDelivery DEF PushSignal, OnePlace
<1>3. ASSUME NEW d \in Devices, BindKey(d) PROVE DeliveryInv'
  BY <1>3, <1>a, DroppingKeepsDelivery DEF BindKey, OnePlace
<1>4. ASSUME NEW d \in Devices, ServerTS(d) PROVE DeliveryInv'
  <2>1. \A e \in Devices : got'[e] \subseteq got[e]
    BY <1>4, <1>a DEF ServerTS, TypeOK
  <2> QED
    BY <2>1, <1>4, <1>a, DroppingKeepsDelivery DEF ServerTS, OnePlace
<1>5. ASSUME NEW d \in Devices, Leave(d) PROVE DeliveryInv'
  BY <1>5, <1>a, DroppingKeepsDelivery DEF Leave, OnePlace
<1>6. ASSUME NEW d \in Devices, NEW p \in Polls, StartPoll(d, p) PROVE DeliveryInv'
  <2>1. \A q \in Polls : /\ poll'[q].updates \subseteq poll[q].updates
                         /\ poll'[q].updates # {} => poll'[q].pc = "reply"
    BY <1>6, <1>a DEF StartPoll, TypeOK, OnePlace
  <2> QED
    BY <2>1, <1>6, <1>a, DroppingKeepsDelivery DEF StartPoll
<1>7. ASSUME NEW p \in Polls, Lookup(p) PROVE DeliveryInv'
  <2>1. PICK pc \in PollPcs : poll' = [poll EXCEPT ![p].pc = pc]
    BY <1>7 DEF Lookup, PollPcs
  <2>2. \A q \in Polls : /\ poll'[q].updates = poll[q].updates
                         /\ poll'[q].updates # {} => poll'[q].pc = "reply"
    BY <2>1, <1>7, <1>a DEF Lookup, TypeOK, PollType, OnePlace
  <2> QED
    BY <2>2, <1>7, <1>a, DroppingKeepsDelivery DEF Lookup
<1>8. ASSUME NEW p \in Polls, ReadTS(p) PROVE DeliveryInv'
  <2>1. \A q \in Polls : /\ poll'[q].updates = poll[q].updates
                         /\ poll'[q].updates # {} => poll'[q].pc = "reply"
    BY <1>8, <1>a DEF ReadTS, TypeOK, PollType, OnePlace
  <2> QED
    BY <2>1, <1>8, <1>a, DroppingKeepsDelivery DEF ReadTS
<1>9. ASSUME NEW p \in Polls, ScanTakes(p) PROVE DeliveryInv'
  <2> DEFINE u == UserOf(p)
  <2>1. poll[p].pc = "scan" /\ poll[p].dev \in Devices /\ u \in Users
    BY <1>9, <1>a, ScanSets DEF ScanTakes
  <2>2. /\ Newer(p) \subseteq events[u] /\ AtCursor(p) \subseteq events[u]
        /\ Newer(p) \cap AtCursor(p) = {}
    <3>1. poll[p].since \in Nat
      BY <1>a DEF TypeOK, PollType
    <3> QED
      BY <2>1, <3>1, <1>a, ScanSets
  <2>3. /\ poll'[p].updates = Newer(p) /\ poll'[p].pc = "reply"
        /\ \A q \in Polls \ {p} : poll'[q] = poll[q]
    BY <1>9, <1>a DEF ScanTakes, TypeOK, PollType
  <2>4. /\ events'[u] = AtCursor(p)
        /\ \A v \in Users \ {u} : events'[v] = events[v]
        /\ counter' = counter /\ got' = got
    BY <1>9, <1>a, <2>1 DEF ScanTakes, TypeOK
  <2> HIDE DEF u
  <2>5. Stamped'
    BY <2>1, <2>2, <2>3, <2>4, <1>a DEF Stamped
  <2>6. poll[p].updates = {}
    BY <2>1, <1>a DEF OnePlace
  <2>7. OnePlace'
    <3>1. (\A w, v \in Users : w # v => events[w] \cap events[v] = {})'
      BY <2>1, <2>2, <2>4, <1>a DEF OnePlace
    <3>2. ASSUME NEW q \in Polls
          PROVE  /\ poll'[q].updates # {} => poll'[q].pc = "reply"
                 /\ \A v \in Users : poll'[q].updates \cap events'[v] = {}
                 /\ \A r \in Polls : r # q => poll'[q].updates \cap poll'[r].updates = {}
                 /\ \A d \in Devices : poll'[q].updates \cap got'[d] = {}
      BY <2>1, <2>2, <2>3, <2>4, <1>a DEF OnePlace
    <3>3. (\A d \in Devices :
             /\ \A v \in Users : got[d] \cap events[v] = {}
             /\ \A e \in Devices : e # d => got[d] \cap got[e] = {})'
      BY <2>1, <2>2, <2>4, <1>a DEF OnePlace
    <3> QED
      BY <3>1, <3>2, <3>3 DEF OnePlace
  <2> QED
    BY <2>5, <2>7 DEF DeliveryInv
<1>10. ASSUME NEW p \in Polls, ScanFindsNone(p) PROVE DeliveryInv'
  <2>2. \A q \in Polls : /\ poll'[q].updates = poll[q].updates
                         /\ poll'[q].updates # {} => poll'[q].pc = "reply"
    BY <1>10, <1>a DEF ScanFindsNone, TypeOK, PollType, OnePlace
  <2>3. \A u \in Users : events'[u] \subseteq events[u]
    BY <1>10, <1>a, ScanSets DEF ScanFindsNone, TypeOK
  <2> QED
    BY <2>2, <2>3, <1>10, <1>a, DroppingKeepsDelivery DEF ScanFindsNone
<1>19. ASSUME NEW p \in Polls, CheckDeadline(p) PROVE DeliveryInv'
  <2>1. PICK pc \in PollPcs : poll' = [poll EXCEPT ![p].pc = pc]
    BY <1>19 DEF CheckDeadline, PollPcs
  <2>2. \A q \in Polls : /\ poll'[q].updates = poll[q].updates
                         /\ poll'[q].updates # {} => poll'[q].pc = "reply"
    BY <2>1, <1>19, <1>a DEF CheckDeadline, TypeOK, PollType, OnePlace
  <2> QED
    BY <2>2, <1>19, <1>a, DroppingKeepsDelivery DEF CheckDeadline
<1>11. ASSUME NEW p \in Polls, Wake(p) PROVE DeliveryInv'
  <2>1. \A q \in Polls : /\ poll'[q].updates = poll[q].updates
                         /\ poll'[q].updates # {} => poll'[q].pc = "reply"
    BY <1>11, <1>a DEF Wake, TypeOK, PollType, OnePlace
  <2> QED
    BY <2>1, <1>11, <1>a, DroppingKeepsDelivery DEF Wake
<1>12. ASSUME NEW p \in Polls, Timeout(p) PROVE DeliveryInv'
  <2>1. \A q \in Polls : /\ poll'[q].updates = poll[q].updates
                         /\ poll'[q].updates # {} => poll'[q].pc = "reply"
    BY <1>12, <1>a DEF Timeout, TypeOK, PollType, OnePlace
  <2> QED
    BY <2>1, <1>12, <1>a, DroppingKeepsDelivery DEF Timeout
<1>13. ASSUME NEW p \in Polls, Expire(p) PROVE DeliveryInv'
  <2>1. \A q \in Polls : /\ poll'[q].updates = poll[q].updates
                         /\ poll'[q].updates # {} => poll'[q].pc = "reply"
    BY <1>13, <1>a DEF Expire, TypeOK, PollType, OnePlace
  <2> QED
    BY <2>1, <1>13, <1>a, DroppingKeepsDelivery DEF Expire
<1>14. ASSUME NEW p \in Polls, Respond(p) PROVE DeliveryInv'
  <2>1. /\ poll'[p].updates = {}
        /\ \A q \in Polls \ {p} : poll'[q] = poll[q]
        /\ counter' = counter /\ events' = events
    BY <1>14, <1>a DEF Respond, NoPoll, TypeOK
  <2>2. CASE ~poll[p].live
    <3>1. got' = got
      BY <1>14, <2>2 DEF Respond
    <3> QED
      BY <3>1, <2>1, <1>a, DroppingKeepsDelivery DEF OnePlace
  <2>3. CASE poll[p].live
    <3> DEFINE d == poll[p].dev
    <3>1. d \in Devices
      BY <1>14, <1>a DEF Respond, TypeOK
    <3>2. /\ got'[d] = got[d] \cup poll[p].updates
          /\ \A e \in Devices \ {d} : got'[e] = got[e]
      BY <1>14, <2>3, <3>1, <1>a DEF Respond, TypeOK
    <3> HIDE DEF d
    <3>3. Stamped'
      BY <2>1, <3>1, <3>2, <1>a DEF Stamped
    <3>4. OnePlace'
      BY <2>1, <3>1, <3>2, <1>a DEF OnePlace
    <3> QED
      BY <3>3, <3>4 DEF DeliveryInv
  <2> QED
    BY <2>2, <2>3
<1>15. ASSUME NEW p \in Polls, RespondFailed(p) PROVE DeliveryInv'
  <2>1. \A q \in Polls : /\ poll'[q].updates \subseteq poll[q].updates
                         /\ poll'[q].updates # {} => poll'[q].pc = "reply"
    BY <1>15, <1>a DEF RespondFailed, NoPoll, TypeOK, OnePlace
  <2> QED
    BY <2>1, <1>15, <1>a, DroppingKeepsDelivery DEF RespondFailed
<1>16. ASSUME NEW p \in Polls, Disconnect(p) PROVE DeliveryInv'
  <2>1. \A q \in Polls : /\ poll'[q].updates = poll[q].updates
                         /\ poll'[q].updates # {} => poll'[q].pc = "reply"
    BY <1>16, <1>a DEF Disconnect, TypeOK, PollType, OnePlace
  <2> QED
    BY <2>1, <1>16, <1>a, DroppingKeepsDelivery DEF Disconnect
<1>17. CASE Restart
  <2>1. /\ \A u \in Users : events'[u] = {}
        /\ \A p \in Polls : poll'[p].updates = {}
        /\ \A d \in Devices : got'[d] = {}
    BY <1>17 DEF Restart, NoPoll
  <2> QED
    BY <2>1 DEF DeliveryInv, Stamped, OnePlace
<1>18. CASE UNCHANGED vars
  BY <1>18, <1>a, DroppingKeepsDelivery DEF vars, OnePlace
<1> QED
  BY <1>1, <1>2, <1>3, <1>4, <1>5, <1>6, <1>7, <1>8, <1>9, <1>10, <1>11, <1>12,
     <1>13, <1>14, <1>15, <1>16, <1>17, <1>18, <1>19 DEF Next, ServePoll

(* No update is handed out twice, to whatever number of devices and        *)
(* however their polls interleave with each other and with pushes.         *)
THEOREM DeliveredAtMostOnce == Spec => []AtMostOnce
<1>1. Init => DeliveryInv
  BY InitType DEF Init, DeliveryInv, Stamped, OnePlace, NoPoll
<1>2. DeliveryInv => AtMostOnce
  BY ConstantsAssumption DEF DeliveryInv, OnePlace, AtMostOnce, TypeOK, UserOf
<1> QED
  BY <1>1, <1>2, TypeCorrect, DeliveryStep, PTL DEF Spec

USE DEF Served

-----------------------------------------------------------------------------
(* The step of one goroutine inside GET /longpoll: what SessionInv needs   *)
(* to know of it.                                                          *)
LEMMA ServingKeepsSession ==
    ASSUME SessionInv, DeliveryInv', NEW p \in Polls,
           counter' = counter, keys' = keys, boot' = boot,
           session' = session, got' = got,
           \A q \in Polls \ {p} : poll'[q] = poll[q],
           poll[p].pc # "idle", poll'[p].pc # "idle",
           poll'[p].dev = poll[p].dev, poll'[p].key = poll[p].key,
           poll'[p].live => poll[p].live,
           ~Flaky => poll'[p].live = poll[p].live,
           poll'[p].pc \in Served => poll[p].key = boot,
           poll[p].since <= poll'[p].since,
           poll[p].key = boot => poll'[p].since <= counter,
           poll'[p].live =>
              \A s \in poll'[p].updates : /\ s \in poll[p].updates \/ poll[p].since < s
                                          /\ s <= poll'[p].since
    PROVE  SessionInv'
<1>1. TypeOK /\ Connected /\ Fresh /\ Received
  BY DEF SessionInv, DeliveryInv
<1>2. poll[p].dev \in Devices
  BY <1>1 DEF TypeOK
<1>3. Connected'
  BY <1>1, <1>2 DEF Connected
<1>4. Fresh'
  BY <1>1 DEF Fresh
<1>5. Received'
  <2>1. (\A d \in Devices :
           session[d].pc = "open" => \A s \in got[d] : s <= session[d].ts)'
    BY <1>1 DEF Received
  <2>2. ASSUME NEW q \in Polls, poll'[q].live
        PROVE  /\ session[poll'[q].dev].ts <= poll'[q].since
               /\ \A s \in poll'[q].updates :
                     session[poll'[q].dev].ts < s /\ s <= poll'[q].since
    <3>1. CASE q # p
      BY <3>1, <2>2, <1>1 DEF Received
    <3>2. CASE q = p
      <4>1. /\ session[poll[p].dev].ts \in Nat /\ poll[p].since \in Nat
            /\ poll'[p].since \in Nat
            /\ poll[p].updates \subseteq Nat /\ poll'[p].updates \subseteq Nat
        BY <1>1, <1>2 DEF TypeOK, DeliveryInv, SessionType, PollType
      <4>2. /\ session[poll[p].dev].ts <= poll[p].since
            /\ \A s \in poll[p].updates : session[poll[p].dev].ts < s
        BY <2>2, <3>2, <1>1 DEF Received
      <4> QED
        BY <4>1, <4>2, <3>2, <2>2
    <3> QED
      BY <3>1, <3>2
  <2> QED
    BY <2>1, <2>2 DEF Received
<1> QED
  BY <1>3, <1>4, <1>5 DEF SessionInv

(* One connected poll per device, and no time stamp of an earlier boot,    *)
(* whatever connects, disconnects, leaves or restarts.                     *)
LEMMA SessionStep == SessionInv /\ DeliveryInv' /\ [Next]_vars => SessionInv'
<1> SUFFICES ASSUME SessionInv, DeliveryInv', [Next]_vars PROVE SessionInv'
  OBVIOUS
<1>a. TypeOK /\ Stamped /\ Connected /\ Fresh /\ Received
  BY DEF SessionInv, DeliveryInv
<1>b. TypeOK'
  BY DEF DeliveryInv
<1> USE DEF hubVars
<1>1. ASSUME NEW q \in Pushers, NEW u \in Users, PushAppend(q, u) PROVE SessionInv'
  <2>1. /\ poll' = poll /\ session' = session /\ got' = got
        /\ keys' = keys /\ boot' = boot /\ counter' = counter + 1
    BY <1>1 DEF PushAppend
  <2>2. \A n \in Nat : n <= counter => n <= counter + 1
    BY <1>a DEF TypeOK
  <2>3. /\ \A d \in Devices : session[d].ts \in Nat
        /\ \A p \in Polls : poll[p].since \in Nat
    BY <1>a DEF TypeOK, SessionType, PollType
  <2>4. Fresh'
    BY <2>1, <2>2, <2>3, <1>a DEF Fresh
  <2>5. Connected' /\ Received'
    BY <2>1, <1>a DEF Connected, Received
  <2> QED
    BY <2>4, <2>5 DEF SessionInv
<1>2. ASSUME NEW q \in Pushers, PushSignal(q) PROVE SessionInv'
  BY <1>2, <1>a DEF PushSignal, SessionInv, Connected, Fresh, Received
<1>3. ASSUME NEW d \in Devices, BindKey(d) PROVE SessionInv'
  <2>1. /\ session'[d].pc = "bound" /\ session'[d].key = boot
        /\ \A e \in Devices \ {d} : session'[e] = session[e]
        /\ keys' = keys \cup {<<Owner[d], boot>>} /\ session[d].pc = "none"
        /\ poll' = poll /\ got' = got /\ counter' = counter /\ boot' = boot
    BY <1>3, <1>a DEF BindKey, TypeOK
  <2>2. \A p \in Polls : poll[p].live => poll[p].dev \in Devices \ {d}
    BY <2>1, <1>a DEF Connected, TypeOK
  <2>3. Connected'
    BY <2>1, <2>2, <1>a DEF Connected
  <2>4. Fresh'
    BY <2>1, <1>a DEF Fresh, TypeOK
  <2>5. Received'
    BY <2>1, <2>2, <1>a DEF Received
  <2> QED
    BY <2>3, <2>4, <2>5 DEF SessionInv
<1>4. ASSUME NEW d \in Devices, ServerTS(d) PROVE SessionInv'
  <2>1. /\ session'[d].pc = "open" /\ session'[d].key = session[d].key
        /\ session'[d].ts = counter /\ got'[d] = {}
        /\ \A e \in Devices \ {d} : session'[e] = session[e] /\ got'[e] = got[e]
        /\ keys' = keys /\ session[d].pc = "bound"
        /\ poll' = poll /\ counter' = counter /\ boot' = boot
    BY <1>4, <1>a DEF ServerTS, TypeOK, SessionType
  <2>2. \A p \in Polls : poll[p].live => poll[p].dev \in Devices \ {d}
    BY <2>1, <1>a DEF Connected, TypeOK
  <2>3. Connected'
    BY <2>1, <2>2, <1>a DEF Connected
  <2>4. Fresh'
    BY <2>1, <1>a DEF Fresh, TypeOK
  <2>5. Received'
    BY <2>1, <2>2, <1>a DEF Received
  <2> QED
    BY <2>3, <2>4, <2>5 DEF SessionInv
<1>5. ASSUME NEW d \in Devices, Leave(d) PROVE SessionInv'
  <2>1. /\ session'[d].pc = "none" /\ session'[d].key = 0
        /\ \A e \in Devices \ {d} : session'[e] = session[e]
        /\ keys' = keys /\ got' = got
        /\ poll' = poll /\ counter' = counter /\ boot' = boot
    BY <1>5, <1>a DEF Leave, NoSession, TypeOK
  <2>2. \A p \in Polls : poll[p].live => poll[p].dev \in Devices \ {d}
    BY <1>5, <1>a DEF Leave, PollOf, Connected, TypeOK
  <2>3. Connected'
    BY <2>1, <2>2, <1>a DEF Connected
  <2>4. Fresh'
    BY <2>1, <1>a DEF Fresh, TypeOK
  <2>5. Received'
    BY <2>1, <2>2, <1>a DEF Received
  <2> QED
    BY <2>3, <2>4, <2>5 DEF SessionInv
<1>6. ASSUME NEW d \in Devices, NEW p \in Polls, StartPoll(d, p) PROVE SessionInv'
  <2>1. /\ poll'[p].pc = "lookup" /\ poll'[p].dev = d /\ poll'[p].live
        /\ poll'[p].key = session[d].key /\ poll'[p].since = session[d].ts
        /\ poll'[p].updates = {} /\ session[d].pc = "open"
        /\ \A q \in Polls \ {p} : poll'[q] = poll[q]
        /\ keys' = keys /\ got' = got /\ session' = session
        /\ counter' = counter /\ boot' = boot
    BY <1>6, <1>a DEF StartPoll, TypeOK
  <2>2. \A q \in Polls : poll[q].live => poll[q].dev # d
    BY <1>6 DEF StartPoll, PollOf
  <2>3. Connected'
    BY <2>1, <2>2, <1>a DEF Connected
  <2>4. Fresh'
    BY <2>1, <1>a DEF Fresh
  <2>5. session[d].ts <= session[d].ts
    BY <1>a DEF TypeOK, SessionType
  <2>6. Received'
    BY <2>1, <2>5, <1>a DEF Received
  <2> QED
    BY <2>3, <2>4, <2>6 DEF SessionInv
<1>7. ASSUME NEW p \in Polls, Lookup(p) PROVE SessionInv'
  <2>1. poll[p].pc # "idle" /\ poll[p] \in PollType
    BY <1>7, <1>a DEF Lookup, TypeOK
  <2>2. /\ \A q \in Polls \ {p} : poll'[q] = poll[q]
        /\ poll'[p].dev = poll[p].dev /\ poll'[p].key = poll[p].key
        /\ poll'[p].live = poll[p].live /\ poll'[p].since = poll[p].since
        /\ poll'[p].updates = poll[p].updates /\ poll'[p].pc # "idle"
    BY <1>7, <1>a, <2>1 DEF Lookup, TypeOK, PollType
  <2>3. poll'[p].pc \in Served => poll[p].key = boot
    BY <1>7, <1>a DEF Lookup, Fresh, TypeOK, PollType
  <2>4. poll[p].live => \A s \in poll[p].updates : s <= poll[p].since
    BY <1>a DEF Received
  <2>5. poll[p].since <= poll[p].since /\ (poll[p].key = boot => poll[p].since <= counter)
    BY <2>1, <1>a DEF Fresh, PollType
  <2> QED
    BY <2>1, <2>2, <2>3, <2>4, <2>5, <1>7, ServingKeepsSession DEF Lookup
<1>8. ASSUME NEW p \in Polls, ReadTS(p) PROVE SessionInv'
  <2>1. poll[p].pc = "ts" /\ poll[p] \in PollType /\ counter \in Nat
    BY <1>8, <1>a DEF ReadTS, TypeOK
  <2>2. /\ \A q \in Polls \ {p} : poll'[q] = poll[q]
        /\ poll'[p].dev = poll[p].dev /\ poll'[p].key = poll[p].key
        /\ poll'[p].live = poll[p].live /\ poll'[p].since = counter
        /\ poll'[p].updates = poll[p].updates /\ poll'[p].pc # "idle"
    BY <1>8, <1>a, <2>1 DEF ReadTS, TypeOK, PollType
  <2>3. poll[p].key = boot /\ poll[p].since <= counter /\ counter <= counter
    BY <2>1, <1>a DEF Fresh
  <2>4. \A s \in poll[p].updates : s <= counter
    BY <2>1, <1>a DEF Stamped
  <2> QED
    BY <2>1, <2>2, <2>3, <2>4, <1>8, ServingKeepsSession DEF ReadTS
<1>9. ASSUME NEW p \in Polls, ScanTakes(p) PROVE SessionInv'
  <2>1. poll[p].pc = "scan" /\ poll[p] \in PollType /\ counter \in Nat
    BY <1>9, <1>a DEF ScanTakes, TypeOK
  <2>2. PICK last \in Newer(p) :
          /\ \A e \in Newer(p) : e <= last
          /\ poll' = [poll EXCEPT ![p].pc = "reply", ![p].since = last,
                                  ![p].updates = Newer(p)]
    BY <1>9 DEF ScanTakes
  <2>3. /\ \A q \in Polls \ {p} : poll'[q] = poll[q]
        /\ poll'[p].dev = poll[p].dev /\ poll'[p].key = poll[p].key
        /\ poll'[p].live = poll[p].live /\ poll'[p].since = last
        /\ poll'[p].updates = Newer(p) /\ poll'[p].pc # "idle"
    BY <2>1, <2>2, <1>a DEF TypeOK, PollType
  <2>4. poll[p].key = boot
    BY <2>1, <1>a DEF Fresh
  <2>5. /\ UserOf(p) \in Users /\ \A s \in Newer(p) : s > poll[p].since
        /\ last \in events[UserOf(p)]
    BY <2>1, <1>a, ScanSets
  <2>6. last <= counter /\ poll[p].since <= last
    BY <2>1, <2>5, <1>a DEF Stamped, PollType
  <2>7. \A s \in Newer(p) : poll[p].since < s /\ s <= last
    BY <2>2, <2>5, <2>1 DEF PollType
  <2> QED
    BY <2>1, <2>3, <2>4, <2>6, <2>7, <1>9, ServingKeepsSession DEF ScanTakes
<1>10. ASSUME NEW p \in Polls, ScanFindsNone(p) PROVE SessionInv'
  <2>1. poll[p].pc # "idle" /\ poll[p] \in PollType
    BY <1>10, <1>a DEF ScanFindsNone, TypeOK
  <2>2. /\ \A q \in Polls \ {p} : poll'[q] = poll[q]
        /\ poll'[p].dev = poll[p].dev /\ poll'[p].key = poll[p].key
        /\ poll'[p].live = poll[p].live /\ poll'[p].since = poll[p].since
        /\ poll'[p].updates = poll[p].updates /\ poll'[p].pc # "idle"
    BY <1>10, <1>a, <2>1 DEF ScanFindsNone, TypeOK, PollType
  <2>3. poll'[p].pc \in Served => poll[p].key = boot
    BY <1>10, <1>a DEF ScanFindsNone, Fresh
  <2>4. poll[p].live => \A s \in poll[p].updates : s <= poll[p].since
    BY <1>a DEF Received
  <2>5. poll[p].since <= poll[p].since /\ (poll[p].key = boot => poll[p].since <= counter)
    BY <2>1, <1>a DEF Fresh, PollType
  <2> QED
    BY <2>1, <2>2, <2>3, <2>4, <2>5, <1>10, ServingKeepsSession DEF ScanFindsNone
<1>19. ASSUME NEW p \in Polls, CheckDeadline(p) PROVE SessionInv'
  <2>1. poll[p].pc # "idle" /\ poll[p] \in PollType
    BY <1>19, <1>a DEF CheckDeadline, TypeOK
  <2>2. /\ \A q \in Polls \ {p} : poll'[q] = poll[q]
        /\ poll'[p].dev = poll[p].dev /\ poll'[p].key = poll[p].key
        /\ poll'[p].live = poll[p].live /\ poll'[p].since = poll[p].since
        /\ poll'[p].updates = poll[p].updates /\ poll'[p].pc # "idle"
    BY <1>19, <1>a, <2>1 DEF CheckDeadline, TypeOK, PollType
  <2>3. poll'[p].pc \in Served => poll[p].key = boot
    BY <1>19, <1>a DEF CheckDeadline, Fresh
  <2>4. poll[p].live => \A s \in poll[p].updates : s <= poll[p].since
    BY <1>a DEF Received
  <2>5. poll[p].since <= poll[p].since /\ (poll[p].key = boot => poll[p].since <= counter)
    BY <2>1, <1>a DEF Fresh, PollType
  <2> QED
    BY <2>1, <2>2, <2>3, <2>4, <2>5, <1>19, ServingKeepsSession DEF CheckDeadline
<1>11. ASSUME NEW p \in Polls, Wake(p) PROVE SessionInv'
  <2>1. poll[p].pc # "idle" /\ poll[p] \in PollType
    BY <1>11, <1>a DEF Wake, TypeOK
  <2>2. /\ \A q \in Polls \ {p} : poll'[q] = poll[q]
        /\ poll'[p].dev = poll[p].dev /\ poll'[p].key = poll[p].key
        /\ poll'[p].live = poll[p].live /\ poll'[p].since = poll[p].since
        /\ poll'[p].updates = poll[p].updates /\ poll'[p].pc # "idle"
    BY <1>11, <1>a, <2>1 DEF Wake, TypeOK, PollType
  <2>3. poll'[p].pc \in Served => poll[p].key = boot
    BY <1>11, <1>a DEF Wake, Fresh
  <2>4. poll[p].live => \A s \in poll[p].updates : s <= poll[p].since
    BY <1>a DEF Received
  <2>5. poll[p].since <= poll[p].since /\ (poll[p].key = boot => poll[p].since <= counter)
    BY <2>1, <1>a DEF Fresh, PollType
  <2> QED
    BY <2>1, <2>2, <2>3, <2>4, <2>5, <1>11, ServingKeepsSession DEF Wake
<1>12. ASSUME NEW p \in Polls, Timeout(p) PROVE SessionInv'
  <2>1. poll[p].pc # "idle" /\ poll[p] \in PollType
    BY <1>12, <1>a DEF Timeout, TypeOK
  <2>2. /\ \A q \in Polls \ {p} : poll'[q] = poll[q]
        /\ poll'[p].dev = poll[p].dev /\ poll'[p].key = poll[p].key
        /\ poll'[p].live = poll[p].live /\ poll'[p].since = poll[p].since
        /\ poll'[p].updates = poll[p].updates /\ poll'[p].pc # "idle"
    BY <1>12, <1>a, <2>1 DEF Timeout, TypeOK, PollType
  <2>3. poll'[p].pc \in Served => poll[p].key = boot
    BY <1>12, <1>a DEF Timeout, Fresh
  <2>4. poll[p].live => \A s \in poll[p].updates : s <= poll[p].since
    BY <1>a DEF Received
  <2>5. poll[p].since <= poll[p].since /\ (poll[p].key = boot => poll[p].since <= counter)
    BY <2>1, <1>a DEF Fresh, PollType
  <2> QED
    BY <2>1, <2>2, <2>3, <2>4, <2>5, <1>12, ServingKeepsSession DEF Timeout
<1>13. ASSUME NEW p \in Polls, Expire(p) PROVE SessionInv'
  <2>1. poll[p].pc # "idle" /\ poll[p] \in PollType
    BY <1>13, <1>a DEF Expire, TypeOK
  <2>2. /\ \A q \in Polls \ {p} : poll'[q] = poll[q]
        /\ poll'[p].dev = poll[p].dev /\ poll'[p].key = poll[p].key
        /\ poll'[p].live = poll[p].live /\ poll'[p].since = poll[p].since
        /\ poll'[p].updates = poll[p].updates /\ poll'[p].pc # "idle"
    BY <1>13, <1>a, <2>1 DEF Expire, TypeOK, PollType
  <2>3. poll'[p].pc \in Served => poll[p].key = boot
    BY <1>13, <1>a DEF Expire, Fresh
  <2>4. poll[p].live => \A s \in poll[p].updates : s <= poll[p].since
    BY <1>a DEF Received
  <2>5. poll[p].since <= poll[p].since /\ (poll[p].key = boot => poll[p].since <= counter)
    BY <2>1, <1>a DEF Fresh, PollType
  <2> QED
    BY <2>1, <2>2, <2>3, <2>4, <2>5, <1>13, ServingKeepsSession DEF Expire
<1>14. ASSUME NEW p \in Polls, Respond(p) PROVE SessionInv'
  <2>1. /\ poll'[p] = NoPoll /\ \A q \in Polls \ {p} : poll'[q] = poll[q]
        /\ counter' = counter /\ keys' = keys /\ boot' = boot
        /\ poll[p].pc = "reply" /\ poll[p].dev \in Devices
    BY <1>14, <1>a DEF Respond, TypeOK
  <2>2. CASE ~poll[p].live
    <3>1. session' = session /\ got' = got
      BY <1>14, <2>2 DEF Respond
    <3>2. Connected'
      BY <2>1, <3>1, <1>a DEF Connected, NoPoll
    <3>3. Fresh' /\ Received'
      BY <2>1, <3>1, <1>a DEF Fresh, Received, NoPoll
    <3> QED
      BY <3>2, <3>3 DEF SessionInv
  <2>3. CASE poll[p].live
    <3> DEFINE d == poll[p].dev
    <3>1. /\ session'[d].pc = session[d].pc /\ session'[d].key = session[d].key
          /\ session'[d].ts = poll[p].since
          /\ got'[d] = got[d] \cup poll[p].updates
          /\ \A e \in Devices \ {d} : session'[e] = session[e] /\ got'[e] = got[e]
      BY <1>14, <2>1, <2>3, <1>a DEF Respond, TypeOK, SessionType
    <3>2. \A q \in Polls \ {p} : poll[q].live => poll[q].dev \in Devices \ {d}
      BY <2>3, <1>a DEF Connected, TypeOK
    <3>3. /\ session[d].key = poll[p].key /\ poll[p].key = boot
          /\ session[d].pc = "open" /\ poll[p].since <= counter
      BY <2>1, <2>3, <1>a DEF Connected, Fresh
    <3>4. \A s \in got'[d] : s <= poll[p].since
      <4>1. /\ session[d].ts <= poll[p].since
            /\ \A s \in got[d] : s <= session[d].ts
            /\ \A s \in poll[p].updates : s <= poll[p].since
        BY <2>1, <2>3, <3>3, <1>a DEF Received
      <4>2. /\ session[d].ts \in Nat /\ poll[p].since \in Nat /\ got[d] \subseteq Nat
        BY <2>1, <1>a DEF TypeOK, SessionType, PollType
      <4> QED
        BY <3>1, <4>1, <4>2
    <3>5. d \in Devices
      BY <2>1
    <3> HIDE DEF d
    <3>6. Connected'
      <4>1. \A q \in Polls : poll'[q].live => q # p /\ poll'[q] = poll[q]
        BY <2>1 DEF NoPoll
      <4>2. ~Flaky => \A q \in Polls : poll'[q].pc # "idle" => poll'[q].live
        BY <2>1, <1>a DEF Connected, NoPoll
      <4> QED
        BY <4>1, <4>2, <3>1, <3>2, <1>a DEF Connected
    <3>7. Fresh'
      BY <2>1, <3>1, <3>3, <3>5, <1>a DEF Fresh, NoPoll
    <3>8. Received'
      BY <2>1, <3>1, <3>2, <3>4, <3>5, <1>a DEF Received, NoPoll
    <3> QED
      BY <3>6, <3>7, <3>8 DEF SessionInv
  <2> QED
    BY <2>2, <2>3
<1>15. ASSUME NEW p \in Polls, RespondFailed(p) PROVE SessionInv'
  <2>1. /\ poll'[p] = NoPoll /\ \A q \in Polls \ {p} : poll'[q] = poll[q]
        /\ counter' = counter /\ keys' = keys /\ boot' = boot /\ got' = got
        /\ poll[p].dev \in Devices
    BY <1>15, <1>a DEF RespondFailed, TypeOK
  <2>2. \A e \in Devices : \/ session'[e] = session[e]
                           \/ poll[p].live /\ e = poll[p].dev /\ session'[e] = NoSession
    BY <1>15, <1>a DEF RespondFailed, TypeOK
  <2>3. \A q \in Polls \ {p} : poll[q].live /\ poll[p].live => poll[q].dev # poll[p].dev
    BY <1>a DEF Connected
  <2>4. \A q \in Polls \ {p} : poll[q].live =>
           /\ poll[q].dev \in Devices
           /\ session'[poll[q].dev] = session[poll[q].dev]
    BY <2>2, <2>3, <1>a DEF Connected, TypeOK
  <2>5. Connected'
    BY <2>1, <2>4, <1>a DEF Connected, NoPoll
  <2>6. Fresh'
    BY <2>1, <2>2, <1>a DEF Fresh, NoPoll, NoSession, TypeOK
  <2>7. Received'
    BY <2>1, <2>2, <2>4, <1>a DEF Received, NoPoll, NoSession
  <2> QED
    BY <2>5, <2>6, <2>7 DEF SessionInv
<1>16. ASSUME NEW p \in Polls, Disconnect(p) PROVE SessionInv'
  <2>1. poll[p].pc # "idle" /\ poll[p] \in PollType /\ Flaky
    BY <1>16, <1>a DEF Disconnect, TypeOK, Connected
  <2>2. /\ \A q \in Polls \ {p} : poll'[q] = poll[q]
        /\ poll'[p].dev = poll[p].dev /\ poll'[p].key = poll[p].key
        /\ ~poll'[p].live /\ poll'[p].since = poll[p].since
        /\ poll'[p].pc = poll[p].pc
    BY <1>16, <1>a, <2>1 DEF Disconnect, TypeOK, PollType
  <2>3. poll[p].pc \in Served => poll[p].key = boot
    BY <1>a DEF Fresh
  <2>4. poll[p].since <= poll[p].since /\ (poll[p].key = boot => poll[p].since <= counter)
    BY <2>1, <1>a DEF Fresh, PollType
  <2> QED
    BY <2>1, <2>2, <2>3, <2>4, <1>16, ServingKeepsSession DEF Disconnect
<1>17. CASE Restart
  <2>1. /\ boot \in Nat /\ boot' = boot + 1 /\ keys' = {}
        /\ \A p \in Polls : poll'[p] = NoPoll
        /\ \A d \in Devices : got'[d] = {}
        /\ \A d \in Devices : session'[d] \in {session[d], NoSession}
    BY <1>17, <1>a DEF Restart, TypeOK
  <2>2. \A d \in Devices : session'[d].key <= boot /\ session'[d].key # boot'
    BY <2>1, <1>a DEF Fresh, NoSession, TypeOK, SessionType
  <2>3. Connected'
    BY <2>1 DEF Connected, NoPoll
  <2>4. Fresh'
    <3>1. \A d \in Devices : session'[d].key <= boot'
      BY <2>1, <2>2, <1>b DEF TypeOK, SessionType
    <3> QED
      BY <3>1, <2>1, <2>2 DEF Fresh, NoPoll
  <2>5. Received'
    BY <2>1 DEF Received, NoPoll
  <2> QED
    BY <2>3, <2>4, <2>5 DEF SessionInv
<1>18. CASE UNCHANGED vars
  BY <1>18, <1>a DEF vars, SessionInv, Connected, Fresh, Received
<1> QED
  BY <1>1, <1>2, <1>3, <1>4, <1>5, <1>6, <1>7, <1>8, <1>9, <1>10, <1>11, <1>12,
     <1>13, <1>14, <1>15, <1>16, <1>17, <1>18, <1>19 DEF Next, ServePoll

LEMMA InitSession == Init => SessionInv
<1>1. Init => DeliveryInv
  BY InitType DEF Init, DeliveryInv, Stamped, OnePlace, NoPoll
<1>2. Init => Connected /\ Fresh /\ Received
  BY DEF Init, Connected, Fresh, Received, NoPoll, NoSession
<1> QED
  BY <1>1, <1>2 DEF SessionInv

LEMMA SessionCorrect == Spec => []SessionInv
<1>1. SessionInv /\ [Next]_vars => DeliveryInv'
  <2>1. SessionInv => DeliveryInv /\ TypeOK
    BY DEF SessionInv, DeliveryInv
  <2> QED
    BY <2>1, TypeStep, DeliveryStep
<1>2. SessionInv /\ [Next]_vars => SessionInv'
  BY <1>1, SessionStep
<1> QED
  BY <1>2, InitSession, PTL DEF Spec

(* After any number of restarts, a poll that the hub serves carries a time *)
(* stamp this hub has reached: GET /longpoll refuses the keys of before.   *)
THEOREM PollsAreFresh == Spec => []FreshTimeStamps
<1>1. SessionInv => FreshTimeStamps
  <2> SUFFICES ASSUME SessionInv, NEW p \in Polls,
                      poll[p].pc \in Served
               PROVE  poll[p].since <= counter
    BY DEF FreshTimeStamps
  <2> QED
    BY DEF SessionInv, Fresh
<1> QED
  BY <1>1, SessionCorrect, PTL

(* The answers a device accepts in one session never take it back and      *)
(* never bring an update older than one it has.                            *)
THEOREM DeliveredInOrder == Spec => InOrder
<1> DEFINE Forward ==
      \A d \in Devices :
         session[d].pc = "open" /\ session'[d].pc = "open" =>
            /\ session'[d].ts >= session[d].ts
            /\ \A new \in got'[d] \ got[d], old \in got[d] : old < new
<1>1. SessionInv /\ [Next]_vars => [Forward]_vars
  <2> SUFFICES ASSUME SessionInv, Next, NEW d \in Devices,
                      session[d].pc = "open", session'[d].pc = "open"
               PROVE  /\ session'[d].ts >= session[d].ts
                      /\ \A new \in got'[d] \ got[d], old \in got[d] : old < new
    OBVIOUS
  <2>a. TypeOK /\ Connected /\ Received /\ session[d].ts \in Nat /\ got[d] \subseteq Nat
    BY DEF SessionInv, DeliveryInv, TypeOK, SessionType
  <2>1. CASE session'[d] = session[d] /\ got'[d] \subseteq got[d]
    BY <2>1, <2>a
  <2>2. ASSUME NEW p \in Polls, Respond(p), poll[p].live, poll[p].dev = d
        PROVE  /\ session'[d].ts >= session[d].ts
               /\ \A new \in got'[d] \ got[d], old \in got[d] : old < new
    <3>1. session'[d].ts = poll[p].since /\ got'[d] = got[d] \cup poll[p].updates
      BY <2>2, <2>a DEF Respond, TypeOK, SessionType
    <3>2. poll[p].since \in Nat /\ poll[p].updates \subseteq Nat
      BY <2>a DEF TypeOK, PollType
    <3>3. /\ session[d].ts <= poll[p].since
          /\ \A s \in poll[p].updates : session[d].ts < s
          /\ \A s \in got[d] : s <= session[d].ts
      BY <2>2, <2>a DEF Received
    <3> QED
      BY <3>1, <3>2, <3>3, <2>a
  <2>3. ASSUME NEW e \in Devices, BindKey(e) \/ ServerTS(e) \/ Leave(e)
        PROVE  session'[d] = session[d] /\ got'[d] \subseteq got[d]
    BY <2>3, <2>a DEF BindKey, ServerTS, Leave, NoSession, TypeOK, hubVars
  <2>4. ASSUME NEW p \in Polls, Respond(p), ~(poll[p].live /\ poll[p].dev = d)
        PROVE  session'[d] = session[d] /\ got'[d] \subseteq got[d]
    BY <2>4, <2>a DEF Respond, TypeOK
  <2>5. ASSUME NEW p \in Polls, RespondFailed(p)
        PROVE  session'[d] = session[d] /\ got'[d] \subseteq got[d]
    BY <2>5, <2>a DEF RespondFailed, NoSession, TypeOK
  <2>6. CASE Restart
    BY <2>6, <2>1, <2>a DEF Restart, NoSession
  <2>7. ASSUME NEW p \in Polls,
               \/ Lookup(p) \/ ReadTS(p) \/ ScanTakes(p) \/ ScanFindsNone(p)
               \/ CheckDeadline(p) \/ Wake(p) \/ Timeout(p) \/ Expire(p) \/ Disconnect(p)
        PROVE  session'[d] = session[d] /\ got'[d] \subseteq got[d]
    BY <2>7 DEF Lookup, ReadTS, ScanTakes, ScanFindsNone, CheckDeadline, Wake, Timeout, Expire, Disconnect
  <2>8. ASSUME NEW q \in Pushers, (\E u \in Users : PushAppend(q, u)) \/ PushSignal(q)
        PROVE  session'[d] = session[d] /\ got'[d] \subseteq got[d]
    BY <2>8 DEF PushAppend, PushSignal
  <2>9. ASSUME NEW e \in Devices, NEW p \in Polls, StartPoll(e, p)
        PROVE  session'[d] = session[d] /\ got'[d] \subseteq got[d]
    BY <2>9 DEF StartPoll
  <2> QED
    BY <2>1, <2>2, <2>3, <2>4, <2>5, <2>6, <2>7, <2>8, <2>9 DEF Next, ServePoll
<1> QED
  BY <1>1, SessionCorrect, PTL DEF Spec, InOrder

-----------------------------------------------------------------------------
(* A user with one device that stays connected has one poll in progress.  *)
LEMMA OnePollPerUser ==
    ASSUME SessionInv, ~Flaky, NEW p \in Polls, NEW r \in Polls,
           poll[p].pc # "idle", poll[r].pc # "idle", UserOf(r) = UserOf(p),
           \A d \in Devices : Owner[d] = UserOf(p) => d = poll[p].dev
    PROVE  r = p
<1>1. TypeOK /\ Connected
  BY DEF SessionInv, DeliveryInv
<1>2. poll[p].dev \in Devices /\ poll[r].dev \in Devices
  BY <1>1 DEF TypeOK
<1>3. poll[r].dev = poll[p].dev
  BY <1>2 DEF UserOf
<1> QED
  BY <1>1, <1>3 DEF Connected

LEMMA WakeupStep == SessionInv /\ NoLostWakeup /\ [Next]_vars => NoLostWakeup'
<1> DEFINE Roused(u) == token[u] \/ \E q \in Pushers : signal[q] = u
<1> SUFFICES ASSUME SessionInv, NoLostWakeup, [Next]_vars, NEW p \in Polls,
                    ~Flaky, poll'[p].pc \in {"check", "wait"}, Newer(p)' # {},
                    \A d \in Devices : Owner[d] = UserOf(p)' => d = poll'[p].dev
             PROVE  Roused(UserOf(p))'
  BY DEF NoLostWakeup
<1>a. TypeOK /\ Connected
  BY DEF SessionInv, DeliveryInv
<1> DEFINE u == UserOf(p)
<1>b. ASSUME poll[p].pc \in {"check", "wait"}, poll'[p].dev = poll[p].dev,
             poll'[p].since = poll[p].since, events'[u] \subseteq events[u]
      PROVE  Roused(u) /\ UserOf(p)' = u
  <2>1. UserOf(p)' = u
    BY <1>b DEF UserOf
  <2>2. Newer(p) # {}
    BY <1>b, <2>1 DEF Newer, UserOf
  <2> QED
    BY <1>b, <2>1, <2>2 DEF NoLostWakeup, UserOf
<1>c. ASSUME poll'[p] = poll[p], events'[u] \subseteq events[u],
             token'[u] = token[u], signal' = signal
      PROVE  Roused(UserOf(p))'
  BY <1>b, <1>c
<1> USE DEF hubVars
<1>1. ASSUME NEW q \in Pushers, NEW v \in Users, PushAppend(q, v)
      PROVE  Roused(UserOf(p))'
  <2>1. /\ poll' = poll /\ token' = token /\ signal'[q] = v /\ signal[q] = None
        /\ \A r \in Pushers \ {q} : signal'[r] = signal[r]
        /\ u \in Users /\ u # None
    BY <1>1, <1>a, ScanSets, ConstantsAssumption DEF PushAppend, TypeOK
  <2>2. CASE v = u
    BY <2>1, <2>2 DEF UserOf
  <2>3. CASE v # u
    <3>1. events'[u] = events[u]
      BY <1>1, <2>3, <2>1, <1>a DEF PushAppend, TypeOK
    <3> QED
      BY <3>1, <2>1, <1>b
  <2> QED
    BY <2>2, <2>3
<1>2. ASSUME NEW q \in Pushers, PushSignal(q) PROVE Roused(UserOf(p))'
  <2>1. /\ poll' = poll /\ events' = events /\ token'[signal[q]] = TRUE
        /\ \A v \in Users : token[v] => token'[v]
        /\ \A r \in Pushers \ {q} : signal'[r] = signal[r]
        /\ u \in Users
    BY <1>2, <1>a, ScanSets DEF PushSignal, TypeOK
  <2> QED
    BY <2>1, <1>b
<1>3. ASSUME NEW d \in Devices, BindKey(d) \/ ServerTS(d) \/ Leave(d)
      PROVE  Roused(UserOf(p))'
  BY <1>3, <1>c DEF BindKey, ServerTS, Leave
<1>4. ASSUME NEW d \in Devices, NEW r \in Polls, StartPoll(d, r)
      PROVE  Roused(UserOf(p))'
  <2>1. r # p
    BY <1>4, <1>a DEF StartPoll, TypeOK
  <2> QED
    BY <2>1, <1>4, <1>a, <1>c DEF StartPoll, TypeOK
<1>5. ASSUME NEW r \in Polls, r # p, ServePoll(r) \/ Expire(r) \/ Disconnect(r)
      PROVE  Roused(UserOf(p))'
  <2>1. poll'[p] = poll[p] /\ signal' = signal
    BY <1>5, <1>a DEF ServePoll, Lookup, ReadTS, ScanTakes, ScanFindsNone, CheckDeadline,
       Wake, Timeout, Respond, RespondFailed, Expire, Disconnect, TypeOK
  <2>2. poll[r].pc # "idle"
    BY <1>5, <1>a DEF ServePoll, Lookup, ReadTS, ScanTakes, ScanFindsNone, CheckDeadline,
       Wake, Timeout, Respond, RespondFailed, Expire, Disconnect, Connected
  <2>3. u \in Users /\ UserOf(r) \in Users /\ UserOf(r) # u
    BY <2>1, <2>2, <1>5, <1>a, ScanSets, OnePollPerUser DEF UserOf
  <2>4. events'[u] = events[u] /\ token'[u] = token[u]
    BY <1>5, <2>3, <1>a DEF ServePoll, Lookup, ReadTS, ScanTakes, ScanFindsNone, CheckDeadline,
       Wake, Timeout, Respond, RespondFailed, Expire, Disconnect, TypeOK
  <2> QED
    BY <2>1, <2>4, <1>c
<1>6. CASE ScanFindsNone(p)
  <2>1. poll[p].pc = "scan" /\ poll[p] \in PollType /\ u \in Users
    BY <1>6, <1>a, ScanSets DEF ScanFindsNone, TypeOK
  <2>2. poll'[p].since = poll[p].since /\ poll'[p].dev = poll[p].dev
    BY <1>6, <2>1, <1>a DEF ScanFindsNone, TypeOK, PollType
  <2>3. events'[u] = AtCursor(p)
    BY <1>6, <2>1, <1>a DEF ScanFindsNone, TypeOK
  <2>4. Newer(p)' = {e \in AtCursor(p) : e > poll[p].since}
    BY <2>2, <2>3 DEF Newer, UserOf
  <2> QED
    BY <2>1, <2>4 DEF AtCursor, PollType
<1>7. CASE Expire(p)
  <2>1. poll'[p].since = poll[p].since /\ poll'[p].dev = poll[p].dev
        /\ poll'[p].pc = poll[p].pc
    BY <1>7, <1>a DEF Expire, TypeOK, PollType
  <2> QED
    BY <2>1, <1>7, <1>b DEF Expire
<1>10. CASE CheckDeadline(p)
  <2>1. PICK pc \in PollPcs : poll' = [poll EXCEPT ![p].pc = pc]
    BY <1>10 DEF CheckDeadline, PollPcs
  <2>2. poll'[p].since = poll[p].since /\ poll'[p].dev = poll[p].dev
    BY <2>1, <1>a DEF TypeOK, PollType
  <2> QED
    BY <2>2, <1>10, <1>b DEF CheckDeadline
<1>8. ASSUME Lookup(p) \/ ReadTS(p) \/ ScanTakes(p) \/ Wake(p) \/ Timeout(p)
             \/ Respond(p) \/ RespondFailed(p) \/ Disconnect(p) \/ Restart
      PROVE  FALSE
  <2>1. CASE Lookup(p)
    <3>1. PICK pc \in {"failed", "ts", "scan"} : poll' = [poll EXCEPT ![p].pc = pc]
      BY <2>1 DEF Lookup
    <3> QED
      BY <3>1, <1>a DEF TypeOK, PollType
  <2>2. CASE ReadTS(p) \/ ScanTakes(p)
    <3>1. ASSUME ReadTS(p) PROVE poll'[p].pc \in {"reply", "scan"}
      BY <3>1, <1>a DEF ReadTS, TypeOK, PollType
    <3>2. ASSUME ScanTakes(p) PROVE poll'[p].pc = "reply"
      BY <3>2, <1>a DEF ScanTakes, TypeOK, PollType
    <3> QED
      BY <2>2, <3>1, <3>2
  <2>4. CASE Wake(p) \/ Timeout(p)
    BY <2>4, <1>a DEF Wake, Timeout, TypeOK, PollType
  <2>3. CASE Respond(p) \/ RespondFailed(p) \/ Disconnect(p) \/ Restart
    BY <2>3, <1>a DEF Respond, RespondFailed, Disconnect, Restart, NoPoll, TypeOK
  <2> QED
    BY <1>8, <2>1, <2>2, <2>3, <2>4
<1>9. CASE UNCHANGED vars
  BY <1>9, <1>c DEF vars
<1> QED
  BY <1>1, <1>2, <1>3, <1>4, <1>5, <1>6, <1>7, <1>8, <1>9, <1>10 DEF Next, ServePoll

(* A poll that sleeps on an update is about to be woken, for every user    *)
(* with one device on an unbroken connection: with the unlock before the   *)
(* send in Hub.Push, and with tokens left over from earlier pushes.        *)
THEOREM WakeupIsNotLost == Spec => []NoLostWakeup
<1>1. Init => NoLostWakeup
  BY DEF Init, NoLostWakeup, NoPoll
<1> QED
  BY <1>1, WakeupStep, SessionCorrect, PTL DEF Spec

-----------------------------------------------------------------------------
(* What a poll carries, by where it is in GET /longpoll: the handler sets  *)
(* a time stamp before it calls Hub.Wait, and only a key of an earlier     *)
(* boot is refused.                                                        *)
LEMMA PathStep == FeedInv /\ TypeOK' /\ [Next]_vars => PollPath'
<1> SUFFICES ASSUME FeedInv, TypeOK', [Next]_vars PROVE PollPath'
  OBVIOUS
<1>a. TypeOK /\ Connected /\ Fresh /\ PollPath
  BY DEF FeedInv, SessionInv, DeliveryInv
<1> USE DEF PollPath, hubVars, UserOf
<1>1. ASSUME NEW q \in Pushers, NEW u \in Users, PushAppend(q, u) PROVE PollPath'
  BY <1>1, <1>a DEF PushAppend
<1>2. ASSUME NEW q \in Pushers, PushSignal(q) PROVE PollPath'
  BY <1>2, <1>a DEF PushSignal
<1>3. ASSUME NEW d \in Devices, BindKey(d) PROVE PollPath'
  BY <1>3, <1>a DEF BindKey, TypeOK
<1>4. ASSUME NEW d \in Devices, ServerTS(d) PROVE PollPath'
  BY <1>4, <1>a DEF ServerTS, TypeOK, SessionType
<1>5. ASSUME NEW d \in Devices, Leave(d) PROVE PollPath'
  BY <1>5, <1>a DEF Leave, TypeOK, NoSession
<1>6. ASSUME NEW d \in Devices, NEW p \in Polls, StartPoll(d, p) PROVE PollPath'
  BY <1>6, <1>a DEF StartPoll, TypeOK
<1>7. ASSUME NEW p \in Polls, Lookup(p) PROVE PollPath'
  BY <1>7, <1>a DEF Lookup, TypeOK, PollType
<1>8. ASSUME NEW p \in Polls, ReadTS(p) PROVE PollPath'
  BY <1>8, <1>a DEF ReadTS, TypeOK, PollType
<1>9. ASSUME NEW p \in Polls, ScanTakes(p) PROVE PollPath'
  <2>1. PICK last : poll' = [poll EXCEPT ![p].pc = "reply", ![p].since = last,
                                         ![p].updates = Newer(p)]
    BY <1>9 DEF ScanTakes
  <2>2. poll[p].pc = "scan" /\ keys' = keys /\ boot' = boot /\ session' = session
    BY <1>9 DEF ScanTakes
  <2> QED
    BY <2>1, <2>2, <1>a DEF TypeOK, PollType
<1>10. ASSUME NEW p \in Polls, ScanFindsNone(p) PROVE PollPath'
  BY <1>10, <1>a DEF ScanFindsNone, TypeOK, PollType
<1>11. ASSUME NEW p \in Polls, CheckDeadline(p) PROVE PollPath'
  BY <1>11, <1>a DEF CheckDeadline, TypeOK, PollType
<1>12. ASSUME NEW p \in Polls, Wake(p) PROVE PollPath'
  BY <1>12, <1>a DEF Wake, TypeOK, PollType
<1>13. ASSUME NEW p \in Polls, Timeout(p) PROVE PollPath'
  BY <1>13, <1>a DEF Timeout, TypeOK, PollType
<1>14. ASSUME NEW p \in Polls, Expire(p) PROVE PollPath'
  BY <1>14, <1>a DEF Expire, TypeOK, PollType
<1>15. ASSUME NEW p \in Polls, Respond(p) PROVE PollPath'
  <2>1. /\ poll[p].pc = "reply" /\ poll[p].dev \in Devices
        /\ poll' = [poll EXCEPT ![p] = NoPoll] /\ keys' = keys /\ boot' = boot
    BY <1>15, <1>a DEF Respond, TypeOK
  <2>2. \A d \in Devices : session'[d].pc = session[d].pc /\ session'[d].key = session[d].key
    BY <1>15, <1>a, <2>1 DEF Respond, TypeOK, SessionType
  <2> QED
    BY <2>1, <2>2, <1>a DEF TypeOK, NoPoll
<1>16. ASSUME NEW p \in Polls, RespondFailed(p) PROVE PollPath'
  BY <1>16, <1>a DEF RespondFailed, TypeOK, NoPoll, NoSession
<1>17. ASSUME NEW p \in Polls, Disconnect(p) PROVE PollPath'
  BY <1>17, <1>a DEF Disconnect, TypeOK, PollType
<1>18. ASSUME Restart PROVE PollPath'
  BY <1>18, <1>a DEF Restart, TypeOK, NoPoll, NoSession, Fresh
<1>19. CASE UNCHANGED vars
  BY <1>19, <1>a DEF vars
<1> QED
  BY <1>1, <1>2, <1>3, <1>4, <1>5, <1>6, <1>7, <1>8, <1>9, <1>10, <1>11, <1>12,
     <1>13, <1>14, <1>15, <1>16, <1>17, <1>18, <1>19 DEF Next, ServePoll

(* A poll gets ahead of the time stamp of its client only by taking what   *)
(* is queued for it, or from 0.                                            *)
Between(p) ==
    poll[p].live /\ poll[p].key = boot /\ session[poll[p].dev].ts # 0 =>
        \A e \in events[UserOf(p)] : e <= session[poll[p].dev].ts \/ e > poll[p].since

LEMMA BetweenKept ==
    ASSUME NothingBetween, NEW p \in Polls, poll'[p].live => poll[p].live,
           poll'[p].live =>
              /\ poll'[p].dev = poll[p].dev /\ poll'[p].key = poll[p].key
              /\ poll'[p].since = poll[p].since
              /\ session'[poll[p].dev].ts = session[poll[p].dev].ts
              /\ events'[UserOf(p)] \subseteq events[UserOf(p)],
           boot' = boot
    PROVE  Between(p)'
  BY DEF Between, NothingBetween, UserOf

(* A turn of the loop changes the queue of the user, and nothing of the    *)
(* poll that says whom it serves.                                          *)
LEMMA ScanChanges ==
    ASSUME TypeOK, NEW p \in Polls
    PROVE  ScanTakes(p) \/ ScanFindsNone(p) =>
              /\ poll[p].pc # "idle" /\ session' = session /\ boot' = boot
              /\ events' = [events EXCEPT ![UserOf(p)] = AtCursor(p)]
              /\ \A q \in Polls \ {p} : poll'[q] = poll[q]
              /\ poll'[p].dev = poll[p].dev /\ poll'[p].key = poll[p].key
              /\ poll'[p].live = poll[p].live
<1> DEFINE Changes ==
      /\ poll[p].pc # "idle" /\ session' = session /\ boot' = boot
      /\ events' = [events EXCEPT ![UserOf(p)] = AtCursor(p)]
      /\ \A q \in Polls \ {p} : poll'[q] = poll[q]
      /\ poll'[p].dev = poll[p].dev /\ poll'[p].key = poll[p].key
      /\ poll'[p].live = poll[p].live
<1>1. ASSUME ScanTakes(p) PROVE Changes
  <2>1. PICK last \in Newer(p) :
          poll' = [poll EXCEPT ![p].pc = "reply", ![p].since = last,
                               ![p].updates = Newer(p)]
    BY <1>1 DEF ScanTakes
  <2>2. /\ \A q \in Polls \ {p} : poll'[q] = poll[q]
        /\ poll'[p].dev = poll[p].dev /\ poll'[p].key = poll[p].key
        /\ poll'[p].live = poll[p].live
    BY <2>1 DEF TypeOK, PollType
  <2> QED
    BY <2>2, <1>1 DEF ScanTakes
<1>2. ASSUME ScanFindsNone(p) PROVE Changes
  BY <1>2 DEF ScanFindsNone, TypeOK, PollType
<1> QED
  BY <1>1, <1>2

LEMMA BetweenStep == FeedInv /\ TypeOK' /\ [Next]_vars => NothingBetween'
<1> SUFFICES ASSUME FeedInv, TypeOK', [Next]_vars, NEW p \in Polls PROVE Between(p)'
  BY DEF NothingBetween, Between
<1>a. TypeOK /\ Connected /\ Fresh /\ Received /\ PollPath /\ NothingBetween /\ Stamped
  BY DEF FeedInv, SessionInv, DeliveryInv
<1>b. poll[p].live => /\ poll[p].dev \in Devices /\ UserOf(p) \in Users /\ poll[p].since \in Nat
                      /\ session[poll[p].dev].pc = "open" /\ session[poll[p].dev].ts \in Nat
                      /\ events[UserOf(p)] \subseteq Nat
  BY <1>a, ConstantsAssumption DEF Connected, TypeOK, UserOf, PollType, SessionType
(* Steps of others. *)
<1>q. ASSUME poll'[p] = poll[p], boot' = boot,
             poll[p].live => /\ session'[poll[p].dev].ts = session[poll[p].dev].ts
                             /\ events'[UserOf(p)] \subseteq events[UserOf(p)]
      PROVE  Between(p)'
  BY <1>q, <1>a, BetweenKept
<1>1. ASSUME NEW q \in Pushers, NEW u \in Users, PushAppend(q, u) PROVE Between(p)'
  <2>1. /\ events' = [events EXCEPT ![u] = @ \cup {counter + 1}] /\ counter \in Nat
        /\ poll' = poll /\ session' = session /\ boot' = boot
    BY <1>1, <1>a DEF PushAppend, TypeOK
  <2>2. poll[p].live => events'[UserOf(p)] \subseteq events[UserOf(p)] \cup {counter + 1}
    BY <2>1, <1>a, <1>b DEF TypeOK
  <2>3. poll[p].live /\ poll[p].key = boot => poll[p].since <= counter
    BY <1>a DEF Fresh, Connected
  <2> QED
    BY <2>1, <2>2, <2>3, <1>a, <1>b DEF Between, NothingBetween, UserOf
<1>2. ASSUME NEW q \in Pushers, PushSignal(q) PROVE Between(p)'
  BY <1>2, <1>q DEF PushSignal
<1>3. ASSUME NEW d \in Devices, BindKey(d) \/ ServerTS(d) \/ Leave(d) PROVE Between(p)'
  <2>1. poll' = poll /\ boot' = boot /\ events' = events /\ \A e \in Devices \ {d} : session'[e] = session[e]
    BY <1>3, <1>a DEF BindKey, ServerTS, Leave, hubVars, TypeOK
  <2>2. poll[p].live => poll[p].dev \in Devices \ {d}
    BY <1>3, <1>b DEF BindKey, ServerTS, Leave, PollOf
  <2> QED
    BY <2>1, <2>2, <1>q
<1>4. ASSUME NEW d \in Devices, NEW q \in Polls, StartPoll(d, q) PROVE Between(p)'
  <2>1. /\ session' = session /\ boot' = boot /\ events' = events /\ \A r \in Polls \ {q} : poll'[r] = poll[r]
        /\ poll'[q].dev = d /\ poll'[q].since = session[d].ts
    BY <1>4, <1>a DEF StartPoll, hubVars, TypeOK
  <2>2. CASE p = q
    <3>1. session[d].ts \in Nat /\ events[Owner[d]] \subseteq Nat
      BY <1>a, ConstantsAssumption DEF TypeOK, SessionType
    <3> QED
      BY <2>1, <2>2, <3>1 DEF Between, UserOf
  <2>3. CASE p # q
    BY <2>1, <2>3, <1>q
  <2> QED
    BY <2>2, <2>3
<1>5. ASSUME NEW q \in Polls, Lookup(q) \/ CheckDeadline(q) \/ Wake(q) \/ Timeout(q) \/ Expire(q) \/ Disconnect(q)
      PROVE  Between(p)'
  <2>1. session' = session /\ boot' = boot /\ events' = events
    BY <1>5 DEF Lookup, CheckDeadline, Wake, Timeout, Expire, Disconnect, hubVars
  <2>2. /\ poll'[p].dev = poll[p].dev /\ poll'[p].key = poll[p].key /\ poll'[p].since = poll[p].since
        /\ poll'[p].live => poll[p].live
    BY <1>5, <1>a DEF Lookup, CheckDeadline, Wake, Timeout, Expire, Disconnect, TypeOK, PollType
  <2> QED
    BY <2>1, <2>2, <1>a, BetweenKept
<1>6. ASSUME NEW q \in Polls, ReadTS(q) PROVE Between(p)'
  <2>0. session' = session /\ boot' = boot /\ events' = events /\ poll[q].since = 0
    BY <1>6, <1>a DEF ReadTS, hubVars, PollPath
  <2>1. /\ \A r \in Polls \ {q} : poll'[r] = poll[r]
        /\ poll'[q].dev = poll[q].dev /\ poll'[q].live = poll[q].live
    <3>1. PICK pc \in PollPcs : poll' = [poll EXCEPT ![q].since = counter, ![q].pc = pc]
      BY <1>6 DEF ReadTS, PollPcs
    <3> QED
      BY <3>1, <1>a DEF TypeOK, PollType
  <2>2. CASE p = q
    <3>1. poll[p].live => session[poll[p].dev].ts = 0
      BY <2>0, <2>2, <1>a, <1>b DEF Received
    <3> QED
      BY <2>0, <2>1, <2>2, <3>1 DEF Between
  <2>3. CASE p # q
    BY <2>0, <2>1, <2>3, <1>q
  <2> QED
    BY <2>2, <2>3
<1>7. ASSUME NEW q \in Polls,
             ScanTakes(q) \/ ScanFindsNone(q)
      PROVE  Between(p)'
  <2>1. /\ poll[q].pc # "idle" /\ session' = session /\ boot' = boot
        /\ events' = [events EXCEPT ![UserOf(q)] = AtCursor(q)]
        /\ \A r \in Polls \ {q} : poll'[r] = poll[r]
        /\ poll'[q].dev = poll[q].dev /\ poll'[q].key = poll[q].key
        /\ poll'[q].live = poll[q].live
    BY <1>7, <1>a, ScanChanges
  <2>0. UserOf(q) \in Users
    BY <2>1, <1>a, ScanSets
  <2>2. events'[UserOf(q)] = AtCursor(q) /\ \A u \in Users : events'[u] \subseteq events[u]
    BY <2>0, <2>1, <1>a DEF TypeOK, AtCursor
  <2>3. CASE p = q
    <3>1. SUFFICES ASSUME poll[p].live, poll[p].key = boot, session[poll[p].dev].ts # 0,
                          NEW e \in AtCursor(p)
                   PROVE  e <= session[poll[p].dev].ts
      BY <2>1, <2>2, <2>3 DEF Between, UserOf
    <3>2. e \in events[UserOf(p)] /\ e = poll[p].since
      BY DEF AtCursor
    <3> QED
      BY <3>1, <3>2, <1>a, <1>b DEF NothingBetween
  <2>4. CASE p # q
    BY <2>1, <2>2, <2>4, <1>b, <1>q
  <2> QED
    BY <2>3, <2>4
<1>8. ASSUME NEW q \in Polls, Respond(q) \/ RespondFailed(q) PROVE Between(p)'
  <2>1. /\ poll' = [poll EXCEPT ![q] = NoPoll] /\ boot' = boot /\ events' = events /\ poll[q].dev \in Devices
        /\ \A d \in Devices : poll[q].live /\ d # poll[q].dev => session'[d] = session[d]
        /\ ~poll[q].live => session' = session
    BY <1>8, <1>a DEF Respond, RespondFailed, hubVars, TypeOK
  <2>2. CASE p = q
    BY <2>1, <2>2, <1>a DEF Between, NoPoll, TypeOK
  <2>3. CASE p # q
    <3>1. poll'[p] = poll[p]
      BY <2>1, <2>3, <1>a DEF TypeOK
    <3>2. poll[p].live => session'[poll[p].dev] = session[poll[p].dev]
      BY <2>1, <2>3, <1>a, <1>b DEF Connected
    <3> QED
      BY <3>1, <3>2, <2>1, <1>q
  <2> QED
    BY <2>2, <2>3
<1>9. CASE Restart
  BY <1>9 DEF Restart, Between, NoPoll
<1>10. CASE UNCHANGED vars
  BY <1>10, <1>q DEF vars
<1> QED
  BY <1>1, <1>2, <1>3, <1>4, <1>5, <1>6, <1>7, <1>8, <1>9, <1>10 DEF Next, ServePoll

LEMMA FeedCorrect == Spec => []FeedInv
<1>1. Init => PollPath /\ NothingBetween
  BY DEF Init, PollPath, NothingBetween, NoPoll, NoSession
<1>2. FeedInv => TypeOK /\ SessionInv /\ DeliveryInv
  BY DEF FeedInv, SessionInv, DeliveryInv
<1>3. FeedInv /\ [Next]_vars => FeedInv'
  BY <1>2, TypeStep, DeliveryStep, SessionStep, PathStep, BetweenStep DEF FeedInv
<1> QED
  BY <1>1, <1>3, InitSession, PTL DEF Spec, FeedInv

-----------------------------------------------------------------------------
(* The hub implements UpdateFeed.  What is owed to a device, without the   *)
(* choice of its poll: it has one at most.                                 *)
OwedFacts ==
    /\ \A p \in Polls : poll[p].live =>
          Owed(poll[p].dev) = IF poll[p].dev \notin Joined \/ poll[p].since = 0 THEN {}
                              ELSE Newer(p) \cup poll[p].updates
    /\ \A d \in Devices : PollOf(d) = {} =>
          Owed(d) = IF d \notin Joined \/ session[d].ts = 0 THEN {}
                    ELSE {e \in events[Owner[d]] : e > session[d].ts}

LEMMA OwedKnown == FeedInv => OwedFacts
<1> SUFFICES ASSUME FeedInv PROVE OwedFacts
  OBVIOUS
<1>a. TypeOK /\ Connected
  BY DEF FeedInv, SessionInv, DeliveryInv
<1>1. ASSUME NEW p \in Polls, poll[p].live
      PROVE  Owed(poll[p].dev) = IF poll[p].dev \notin Joined \/ poll[p].since = 0 THEN {}
                                 ELSE Newer(p) \cup poll[p].updates
  <2> DEFINE d == poll[p].dev
  <2>1. d \in Devices /\ session[d].pc = "open" /\ PollOf(d) = {p}
    BY <1>a, <1>1 DEF Connected, PollOf, TypeOK
  <2>2. Cursor(d) = poll[p].since
    BY <2>1 DEF Cursor
  <2>3. UNION {poll[q].updates : q \in PollOf(d)} = poll[p].updates
    BY <2>1
  <2> QED
    BY <2>1, <2>2, <2>3 DEF Owed, Newer, UserOf
<1>2. ASSUME NEW d \in Devices, PollOf(d) = {}
      PROVE  Owed(d) = IF d \notin Joined \/ session[d].ts = 0 THEN {}
                       ELSE {e \in events[Owner[d]] : e > session[d].ts}
  <2>1. UNION {poll[q].updates : q \in PollOf(d)} = {}
    BY <1>2
  <2> QED
    BY <1>2, <2>1 DEF Owed, Cursor
<1> QED
  BY <1>1, <1>2 DEF OwedFacts

LEMMA OwedKnownNext == FeedInv' => OwedFacts'
  BY OwedKnown, PTL

(* A step that leaves the queue of d, its time stamp and its poll alone    *)
(* changes nothing of what is owed to d.                                   *)
LEMMA OwedKept ==
    ASSUME OwedFacts, OwedFacts', NEW d \in Devices,
           events'[Owner[d]] = events[Owner[d]],
           session'[d].ts = session[d].ts, d \in Joined' <=> d \in Joined,
           \A p \in Polls :
              /\ poll'[p].live /\ poll'[p].dev = d <=> poll[p].live /\ poll[p].dev = d
              /\ poll[p].live /\ poll[p].dev = d =>
                    poll'[p].since = poll[p].since /\ poll'[p].updates = poll[p].updates
    PROVE  Owed(d)' = Owed(d)
<1>1. PollOf(d)' = PollOf(d)
  BY DEF PollOf
<1>2. CASE PollOf(d) = {}
  <2> DEFINE Later == {e \in events[Owner[d]] : e > session[d].ts}
  <2>1. Owed(d) = IF d \notin Joined \/ session[d].ts = 0 THEN {} ELSE Later
    BY <1>2 DEF OwedFacts
  <2>2. PollOf(d)' = {}
    BY <1>1, <1>2
  <2>3. Owed(d)' = IF d \notin Joined' \/ session'[d].ts = 0 THEN {} ELSE Later'
    BY <2>2 DEF OwedFacts
  <2>4. Later' = Later
    OBVIOUS
  <2> QED
    BY <2>1, <2>3, <2>4
<1>3. CASE PollOf(d) # {}
  <2>1. PICK p \in Polls : poll[p].live /\ poll[p].dev = d
    BY <1>3 DEF PollOf
  <2>2. poll'[p].live /\ poll'[p].dev = d
    BY <2>1
  <2>3. Owed(d) = IF d \notin Joined \/ poll[p].since = 0 THEN {} ELSE Newer(p) \cup poll[p].updates
    BY <2>1 DEF OwedFacts
  <2>4. Owed(d)' = IF d \notin Joined' \/ poll'[p].since = 0 THEN {} ELSE Newer(p)' \cup poll'[p].updates
    BY <2>2 DEF OwedFacts
  <2>5. Newer(p)' = Newer(p)
    BY <2>1, <2>2 DEF Newer, UserOf
  <2> QED
    BY <2>1, <2>3, <2>4, <2>5
<1> QED
  BY <1>2, <1>3

LEMMA FeedStutters ==
    ASSUME \A d \in Devices : Owed(d)' = Owed(d), got' = got, Joined' = Joined
    PROVE  UNCHANGED Feed!feedVars
  BY DEF Feed!feedVars, Seen

(* What is owed to a device shrinks when others take from its queue.       *)
LEMMA OwedShrinks ==
    ASSUME OwedFacts, OwedFacts', NEW d \in Devices,
           events'[Owner[d]] \subseteq events[Owner[d]],
           session'[d].ts = session[d].ts, d \in Joined' <=> d \in Joined,
           \A p \in Polls :
              /\ poll'[p].live /\ poll'[p].dev = d <=> poll[p].live /\ poll[p].dev = d
              /\ poll[p].live /\ poll[p].dev = d =>
                    poll'[p].since = poll[p].since /\ poll'[p].updates = poll[p].updates
    PROVE  Owed(d)' \subseteq Owed(d)
<1>1. PollOf(d)' = PollOf(d)
  BY DEF PollOf
<1>2. CASE PollOf(d) = {}
  <2>1. Owed(d) = IF d \notin Joined \/ session[d].ts = 0 THEN {}
                  ELSE {e \in events[Owner[d]] : e > session[d].ts}
    BY <1>2 DEF OwedFacts
  <2>2. PollOf(d)' = {}
    BY <1>1, <1>2
  <2>3. Owed(d)' = IF d \notin Joined' \/ session'[d].ts = 0 THEN {}
                   ELSE {e \in events'[Owner[d]] : e > session'[d].ts}
    BY <2>2 DEF OwedFacts
  <2> QED
    BY <2>1, <2>3
<1>3. CASE PollOf(d) # {}
  <2>1. PICK p \in Polls : poll[p].live /\ poll[p].dev = d
    BY <1>3 DEF PollOf
  <2>2. poll'[p].live /\ poll'[p].dev = d
    BY <2>1
  <2>3. Owed(d) = IF d \notin Joined \/ poll[p].since = 0 THEN {} ELSE Newer(p) \cup poll[p].updates
    BY <2>1 DEF OwedFacts
  <2>4. Owed(d)' = IF d \notin Joined' \/ poll'[p].since = 0 THEN {} ELSE Newer(p)' \cup poll'[p].updates
    BY <2>2 DEF OwedFacts
  <2>5. Newer(p)' \subseteq Newer(p)
    BY <2>1, <2>2 DEF Newer, UserOf
  <2> QED
    BY <2>1, <2>3, <2>4, <2>5
<1> QED
  BY <1>2, <1>3

LEMMA OwedNumbers == ASSUME TypeOK, NEW d \in Devices PROVE Owed(d) \subseteq Nat
<1>1. events[Owner[d]] \subseteq Nat /\ \A p \in PollOf(d) : poll[p].updates \subseteq Nat
  BY ConstantsAssumption DEF TypeOK, PollType, PollOf
<1>2. UNION {poll[p].updates : p \in PollOf(d)} \subseteq Nat
  BY <1>1
<1> QED
  BY <1>1, <1>2 DEF Owed

(* Only devices that are Lossy lose what was owed to them. *)
LEMMA FeedLoses ==
    ASSUME TypeOK, got' = got, Joined' = Joined,
           \A d \in Devices : Owed(d)' \subseteq Owed(d) /\ (d \notin Lossy => Owed(d)' = Owed(d))
    PROVE  Feed!Next
<1> DEFINE now == [d \in Devices |-> Owed(d)]
           next == [d \in Devices |-> Owed(d)']
<1>1. \A d \in Devices : Owed(d)' \subseteq Nat
  BY OwedNumbers
<1>2. next \in [Devices -> SUBSET Nat]
  BY <1>1
<1>3. \A d \in Devices : next[d] \subseteq now[d] /\ (d \notin Lossy => next[d] = now[d])
  OBVIOUS
<1>4. \A d \in Devices : Seen(d)' = Seen(d)
  BY DEF Seen
<1>5. Feed!Lose
  BY <1>2, <1>3, <1>4 DEF Feed!Lose
<1> QED
  BY <1>5 DEF Feed!Next

(* Hub.Push publishes an update for the devices of its user that joined.   *)
LEMMA PushPublishes ==
    ASSUME FeedInv, OwedFacts, OwedFacts', NEW q \in Pushers, NEW u \in Users, PushAppend(q, u)
    PROVE  Feed!Next
<1> DEFINE t == counter + 1
           D == {d \in Devices : t \in Owed(d)'}
<1>a. TypeOK /\ Stamped /\ Connected /\ Received
  BY DEF FeedInv, SessionInv, DeliveryInv
<1>b. /\ counter < MaxPush /\ counter \in Nat /\ t \in 1 .. MaxPush
      /\ events' = [events EXCEPT ![u] = @ \cup {t}]
      /\ poll' = poll /\ session' = session /\ got' = got /\ Joined' = Joined
  BY <1>a, ConstantsAssumption DEF PushAppend, TypeOK, Joined
<1>1. ASSUME NEW d \in Devices
      PROVE  /\ \A s \in Owed(d) \cup got[d] : s \in Nat /\ s < t
             /\ Owed(d)' = IF t \in Owed(d)' THEN Owed(d) \cup {t} ELSE Owed(d)
  <2>1. Owner[d] \in Users /\ events[Owner[d]] \subseteq 1 .. counter /\ got[d] \subseteq 1 .. counter
    BY <1>a, ConstantsAssumption DEF Stamped
  <2>2. CASE PollOf(d) = {}
    <3>1. PollOf(d)' = {}
      BY <1>b, <2>2 DEF PollOf
    <3>2. Owed(d) = IF d \notin Joined \/ session[d].ts = 0 THEN {}
                    ELSE {e \in events[Owner[d]] : e > session[d].ts}
      BY <2>2 DEF OwedFacts
    <3>3. Owed(d)' = IF d \notin Joined \/ session[d].ts = 0 THEN {}
                     ELSE {e \in events'[Owner[d]] : e > session[d].ts}
      BY <3>1, <1>b DEF OwedFacts
    <3>4. \A s \in Owed(d) \cup got[d] : s \in Nat /\ s < t
      BY <3>2, <2>1, <1>b
    <3>5. events'[Owner[d]] = events[Owner[d]] \/ events'[Owner[d]] = events[Owner[d]] \cup {t}
      BY <1>b, <1>a, <2>1 DEF TypeOK
    <3> QED
      BY <3>2, <3>3, <3>4, <3>5
  <2>3. CASE PollOf(d) # {}
    <3>1. PICK p \in Polls : poll[p].live /\ poll[p].dev = d
      BY <2>3 DEF PollOf
    <3>2. Owed(d) = IF d \notin Joined \/ poll[p].since = 0 THEN {} ELSE Newer(p) \cup poll[p].updates
      BY <3>1 DEF OwedFacts
    <3>3. Owed(d)' = IF d \notin Joined \/ poll[p].since = 0 THEN {} ELSE Newer(p)' \cup poll[p].updates
      BY <3>1, <1>b DEF OwedFacts
    <3>4. Newer(p) = {e \in events[Owner[d]] : e > poll[p].since}
      BY <3>1 DEF Newer, UserOf
    <3>5. Newer(p)' = {e \in events'[Owner[d]] : e > poll[p].since}
      BY <3>1, <1>b DEF Newer, UserOf
    <3>6. events'[Owner[d]] = events[Owner[d]] \/ events'[Owner[d]] = events[Owner[d]] \cup {t}
      BY <1>b, <1>a, <2>1 DEF TypeOK
    <3>7. poll[p].updates \subseteq 1 .. counter
      BY <1>a DEF Stamped
    <3>8. \A s \in Owed(d) \cup got[d] : s \in Nat /\ s < t
      BY <3>2, <3>4, <3>7, <2>1, <1>b
    <3>9. Newer(p)' = Newer(p) \/ Newer(p)' = Newer(p) \cup {t}
      BY <3>4, <3>5, <3>6
    <3> QED
      BY <3>2, <3>3, <3>8, <3>9
  <2> QED
    BY <2>2, <2>3
<1>2. Feed!Publish(D, t)
  <2>1. \A d \in D : \A s \in [e \in Devices |-> Owed(e)][d]
                                  \cup [e \in Devices |-> Seen(e)][d] : s < t
    BY <1>1 DEF Seen
  <2>2. [d \in Devices |-> Owed(d)']
           = [d \in Devices |-> IF d \in D THEN Owed(d) \cup {t} ELSE Owed(d)]
    BY <1>1
  <2>3. D \subseteq Joined
    BY <1>b DEF Owed
  <2>4. \A d \in Devices : Seen(d)' = Seen(d)
    BY <1>b DEF Seen
  <2> QED
    BY <2>1, <2>2, <2>3, <2>4, <1>b DEF Feed!Publish
<1>3. D \in SUBSET Devices
  OBVIOUS
<1> QED
  BY <1>2, <1>3, <1>b DEF Feed!Next

(* The answer of GET /longpoll hands over the oldest updates owed.         *)
LEMMA RespondDelivers ==
    ASSUME FeedInv, OwedFacts, OwedFacts', NEW p \in Polls, Respond(p), poll[p].live
    PROVE  Feed!Next \/ UNCHANGED Feed!feedVars
<1> DEFINE batch == poll[p].updates
<1>a. TypeOK /\ Stamped /\ OnePlace /\ Connected /\ Fresh /\ Received
  BY DEF FeedInv, SessionInv, DeliveryInv
<1>0. PICK dev \in Devices : dev = poll[p].dev
  BY <1>a DEF Respond, TypeOK
<1>b. /\ poll[p].pc = "reply" /\ poll[p].live /\ dev = poll[p].dev /\ session[dev].pc = "open"
      /\ poll' = [poll EXCEPT ![p] = NoPoll] /\ events' = events
      /\ session' = [session EXCEPT ![dev].ts = poll[p].since]
      /\ got' = [got EXCEPT ![dev] = @ \cup batch] /\ boot' = boot
  BY <1>a, <1>0 DEF Respond, hubVars, Connected, TypeOK
<1>c. /\ poll[p].since \in Nat /\ session[dev].ts \in Nat /\ batch \subseteq Nat
      /\ events[Owner[dev]] \subseteq Nat /\ got[dev] \subseteq Nat
  BY <1>a, <1>b, ConstantsAssumption DEF TypeOK, PollType, SessionType
<1>j. Joined' = Joined /\ dev \in Joined
  BY <1>a, <1>b DEF Joined, TypeOK, SessionType, Connected, Fresh
<1>1. ASSUME NEW d \in Devices \ {dev}
      PROVE  Owed(d)' = Owed(d) /\ got'[d] = got[d]
  <2>1. \A q \in Polls :
          /\ poll'[q].live /\ poll'[q].dev = d <=> poll[q].live /\ poll[q].dev = d
          /\ poll[q].live /\ poll[q].dev = d =>
                poll'[q].since = poll[q].since /\ poll'[q].updates = poll[q].updates
    BY <1>a, <1>b, ConstantsAssumption DEF TypeOK, NoPoll
  <2>2. session'[d] = session[d] /\ got'[d] = got[d]
    BY <1>a, <1>b DEF TypeOK
  <2> QED
    BY <2>1, <2>2, <1>b, <1>j, OwedKept
<1>2. Owed(dev) = IF poll[p].since = 0 THEN {} ELSE Newer(p) \cup batch
  BY <1>b, <1>j DEF OwedFacts
<1>3. Owed(dev)' = IF poll[p].since = 0 THEN {} ELSE Newer(p)
  <2>1. PollOf(dev)' = {}
    BY <1>a, <1>b DEF PollOf, Connected, TypeOK, NoPoll
  <2>2. session'[dev].ts = poll[p].since
    BY <1>a, <1>b DEF TypeOK, SessionType
  <2>3. Owed(dev)' = IF dev \notin Joined' \/ session'[dev].ts = 0 THEN {}
                     ELSE {e \in events'[Owner[dev]] : e > session'[dev].ts}
    BY <1>b, <2>1 DEF OwedFacts
  <2> QED
    BY <2>2, <2>3, <1>b, <1>j DEF Newer, UserOf
<1>4. \A b \in batch : b <= poll[p].since /\ session[dev].ts < b
  BY <1>a, <1>b DEF Received
<1>5. \A e \in Newer(p) : e \in Nat /\ e > poll[p].since
  BY <1>b, <1>c DEF Newer, UserOf
<1>6. got'[dev] = got[dev] \cup batch
  BY <1>a, <1>b DEF TypeOK
<1>7. CASE batch = {}
  <2>1. Owed(dev)' = Owed(dev) /\ got'[dev] = got[dev]
    BY <1>2, <1>3, <1>6, <1>7
  <2>2. got' = got
    BY <1>1, <2>1, <1>a, <1>b DEF TypeOK
  <2> QED
    BY <1>1, <2>1, <2>2, <1>j, FeedStutters
<1>8. CASE batch # {}
  <2>1. poll[p].since # 0
    BY <1>4, <1>8, <1>c
  <2>2. Owed(dev) = Newer(p) \cup batch /\ Owed(dev)' = Newer(p)
    BY <1>2, <1>3, <2>1
  <2>3. \A b \in batch, rest \in Newer(p) : b < rest
    BY <1>4, <1>5, <1>c
  <2>4. Owed(dev)' = Owed(dev) \ batch
    BY <2>2, <2>3, <1>c
  <2>5. \A b \in batch, s \in got[dev] : s < b
    BY <1>4, <1>a, <1>b, <1>c DEF Received
  <2>6. Feed!Deliver(dev)
    <3> DEFINE owedNow == [d \in Devices |-> Owed(d)]
    <3>1. batch \in (SUBSET owedNow[dev]) \ {{}}
      BY <2>2, <1>8, <1>b
    <3>2. \A b \in batch, rest \in owedNow[dev] \ batch : b < rest
      BY <2>2, <2>3, <1>b
    <3>3. [d \in Devices |-> Owed(d)'] = [owedNow EXCEPT ![dev] = @ \ batch]
      BY <1>1, <2>4, <1>b
    <3>4. [d \in Devices |-> Seen(d)'] = [[d \in Devices |-> Seen(d)] EXCEPT ![dev] = @ \cup batch]
      BY <1>1, <1>6, <1>j DEF Seen
    <3>5. \A b \in batch, t \in [d \in Devices |-> Seen(d)][dev] : t < b
      BY <2>5, <1>j DEF Seen
    <3> QED
      BY <3>1, <3>2, <3>3, <3>4, <3>5, <1>j DEF Feed!Deliver
  <2> QED
    BY <2>6, <1>b DEF Feed!Next
<1> QED
  BY <1>7, <1>8

(* A new session starts with the counter of that moment: nothing is owed.  *)
LEMMA ServerTSJoins ==
    ASSUME FeedInv, OwedFacts, OwedFacts', NEW d \in Devices, ServerTS(d)
    PROVE  Feed!Next \/ UNCHANGED Feed!feedVars
<1>a. TypeOK /\ Stamped /\ Connected
  BY DEF FeedInv, SessionInv, DeliveryInv
<1>b. /\ session[d].pc = "bound" /\ events' = events /\ poll' = poll /\ boot' = boot
      /\ session' = [session EXCEPT ![d].pc = "open", ![d].ts = counter]
      /\ got' = [got EXCEPT ![d] = {}]
  BY DEF ServerTS, hubVars
<1>1. ASSUME NEW e \in Devices \ {d}
      PROVE  Owed(e)' = Owed(e) /\ Seen(e)' = Seen(e) /\ (e \in Joined' <=> e \in Joined)
  <2>1. session'[e] = session[e] /\ got'[e] = got[e]
    BY <1>a, <1>b DEF TypeOK
  <2>2. e \in Joined' <=> e \in Joined
    BY <2>1, <1>b DEF Joined
  <2> QED
    BY <1>b, <2>1, <2>2, OwedKept DEF Seen
<1>2. Owed(d)' = {}
  <2>1. PollOf(d)' = {}
    BY <1>a, <1>b DEF Connected, PollOf
  <2>2. session'[d].ts = counter
    BY <1>a, <1>b DEF TypeOK, SessionType
  <2>3. events[Owner[d]] \subseteq 1 .. counter /\ counter \in Nat
    BY <1>a, ConstantsAssumption DEF Stamped, TypeOK
  <2>4. {e \in events'[Owner[d]] : e > session'[d].ts} = {}
    BY <1>b, <2>2, <2>3
  <2>5. Owed(d)' = IF d \notin Joined' \/ session'[d].ts = 0 THEN {}
                   ELSE {e \in events'[Owner[d]] : e > session'[d].ts}
    BY <2>1 DEF OwedFacts
  <2> QED
    BY <2>4, <2>5
<1>3. d \notin Joined /\ Owed(d) = {} /\ Seen(d) = {}
  BY <1>b DEF Joined, Owed, Seen
<1>4. got'[d] = {} /\ Seen(d)' = {}
  BY <1>a, <1>b DEF TypeOK, Seen
<1>5. /\ [e \in Devices |-> Owed(e)'] = [e \in Devices |-> Owed(e)]
      /\ [e \in Devices |-> Seen(e)'] = [e \in Devices |-> Seen(e)]
  BY <1>1, <1>2, <1>3, <1>4
<1>6. Joined \subseteq Devices /\ Joined' \subseteq Devices
  BY DEF Joined
<1>7. CASE d \in Joined'
  <2>1. Joined' = Joined \cup {d}
    BY <1>1, <1>6, <1>7
  <2>2. Feed!Join(d)
    BY <2>1, <1>3, <1>5 DEF Feed!Join
  <2> QED
    BY <2>2 DEF Feed!Next
<1>8. CASE d \notin Joined'
  <2>1. Joined' = Joined
    BY <1>1, <1>3, <1>6, <1>8
  <2> QED
    BY <2>1, <1>5 DEF Feed!feedVars
<1> QED
  BY <1>7, <1>8

(* The key of an earlier process was refused: the session ended with it.   *)
LEMMA FailedIsNotJoined ==
    ASSUME FeedInv, OwedFacts, OwedFacts', NEW p \in Polls, RespondFailed(p), poll[p].live
    PROVE  UNCHANGED Feed!feedVars
<1>a. TypeOK /\ Connected /\ Fresh /\ PollPath
  BY DEF FeedInv, SessionInv, DeliveryInv
<1>0. PICK d \in Devices : d = poll[p].dev
  BY <1>a DEF RespondFailed, TypeOK
<1>b. /\ poll[p].pc = "failed" /\ poll[p].live /\ events' = events
      /\ poll' = [poll EXCEPT ![p] = NoPoll] /\ got' = got /\ boot' = boot
      /\ session' = [session EXCEPT ![d] = NoSession]
  BY <1>a, <1>0 DEF RespondFailed, hubVars, Connected
<1>1. d \notin Joined /\ d \notin Joined'
  BY <1>a, <1>b, <1>0 DEF Joined, Connected, PollPath, TypeOK, NoSession
<1>2. ASSUME NEW e \in Devices \ {d} PROVE session'[e] = session[e]
  BY <1>a, <1>b DEF TypeOK
<1>3. Joined' = Joined
  BY <1>1, <1>2, <1>b DEF Joined
<1>4. ASSUME NEW e \in Devices \ {d} PROVE Owed(e)' = Owed(e)
  <2>1. \A q \in Polls :
          /\ poll'[q].live /\ poll'[q].dev = e <=> poll[q].live /\ poll[q].dev = e
          /\ poll[q].live /\ poll[q].dev = e =>
                poll'[q].since = poll[q].since /\ poll'[q].updates = poll[q].updates
    BY <1>a, <1>b, <1>0, ConstantsAssumption DEF TypeOK, NoPoll
  <2> QED
    BY <2>1, <1>2, <1>3, <1>b, OwedKept
<1>5. Owed(d)' = {} /\ Owed(d) = {}
  BY <1>1 DEF Owed
<1> QED
  BY <1>3, <1>4, <1>5, <1>b, FeedStutters

(* An answer on a broken connection was lost when it broke. *)
LEMMA DeadAnswerStutters ==
    ASSUME FeedInv, OwedFacts, OwedFacts', NEW p \in Polls, Respond(p) \/ RespondFailed(p),
           ~poll[p].live
    PROVE  UNCHANGED Feed!feedVars
<1>a. TypeOK
  BY DEF FeedInv, SessionInv, DeliveryInv
<1>1. /\ session' = session /\ got' = got /\ events' = events /\ boot' = boot
      /\ poll' = [poll EXCEPT ![p] = NoPoll]
  BY DEF Respond, RespondFailed, hubVars
<1>2. Joined' = Joined
  BY <1>1 DEF Joined
<1>3. ~poll'[p].live /\ \A q \in Polls \ {p} : poll'[q] = poll[q]
  BY <1>1, <1>a DEF TypeOK, NoPoll
<1>4. \A d \in Devices : Owed(d)' = Owed(d)
  BY <1>1, <1>2, <1>3, OwedKept
<1> QED
  BY <1>1, <1>2, <1>4, FeedStutters

(* A client that leaves gives up what is owed to it. *)
LEMMA LeaveParts ==
    ASSUME FeedInv, OwedFacts, OwedFacts', NEW d \in Devices, Leave(d)
    PROVE  Feed!Next
<1>a. TypeOK
  BY DEF FeedInv, SessionInv, DeliveryInv
<1>1. /\ session' = [session EXCEPT ![d] = NoSession]
      /\ got' = got /\ events' = events /\ poll' = poll /\ boot' = boot
  BY DEF Leave, hubVars
<1>2. \A e \in Devices \ {d} : session'[e] = session[e]
  BY <1>1, <1>a DEF TypeOK
<1>3. Joined' = Joined \ {d}
  BY <1>1, <1>2, <1>a DEF Joined, NoSession, TypeOK
<1>4. Owed(d)' = {} /\ Seen(d)' = {}
  BY <1>3 DEF Owed, Seen
<1>5. \A e \in Devices \ {d} : Owed(e)' = Owed(e) /\ Seen(e)' = Seen(e)
  BY <1>1, <1>2, <1>3, OwedKept DEF Seen
<1>6. Feed!Part({d})
  BY <1>3, <1>4, <1>5 DEF Feed!Part
<1> QED
  BY <1>6 DEF Feed!Next

(* The client falls back to the time stamp it polled with; what was taken  *)
(* out of the queue for it is lost, and nothing it had not been owed comes *)
(* back.                                                                   *)
LEMMA DisconnectLoses ==
    ASSUME FeedInv, OwedFacts, OwedFacts', NEW p \in Polls, Disconnect(p)
    PROVE  Feed!Next
<1>a. TypeOK /\ Connected /\ Received /\ NothingBetween
  BY DEF FeedInv, SessionInv, DeliveryInv
<1>1. /\ Flaky /\ poll[p].live /\ poll' = [poll EXCEPT ![p].live = FALSE]
      /\ session' = session /\ got' = got /\ events' = events /\ boot' = boot
  BY DEF Disconnect, hubVars
<1>2. PICK d \in Devices : d = poll[p].dev
  BY <1>1, <1>a DEF Connected, TypeOK
<1>3. Joined' = Joined
  BY <1>1 DEF Joined
<1>4. ~poll'[p].live /\ \A q \in Polls \ {p} : poll'[q] = poll[q]
  BY <1>1, <1>a DEF TypeOK, PollType
<1>5. \A e \in Devices \ {d} : Owed(e)' = Owed(e)
  BY <1>1, <1>2, <1>3, <1>4, OwedKept
<1>6. Owed(d) = IF d \notin Joined \/ poll[p].since = 0 THEN {} ELSE Newer(p) \cup poll[p].updates
  BY <1>1, <1>2 DEF OwedFacts
<1>7. PollOf(d)' = {}
  BY <1>1, <1>2, <1>4, <1>a DEF PollOf, Connected
<1>8. Owed(d)' = IF d \notin Joined \/ session[d].ts = 0 THEN {}
                 ELSE {e \in events[Owner[d]] : e > session[d].ts}
  BY <1>1, <1>3, <1>7 DEF OwedFacts
<1>9. ASSUME d \in Joined, session[d].ts # 0, NEW e \in events[Owner[d]], e > session[d].ts
      PROVE  poll[p].since # 0 /\ e \in Newer(p)
  <2>1. poll[p].key = boot
    BY <1>9, <1>1, <1>2, <1>a DEF Joined, Connected
  <2>2. session[d].ts \in Nat /\ poll[p].since \in Nat /\ e \in Nat
    BY <1>a, ConstantsAssumption DEF TypeOK, PollType, SessionType
  <2>3. session[d].ts <= poll[p].since
    BY <1>1, <1>2, <1>a DEF Received
  <2>4. e <= session[d].ts \/ e > poll[p].since
    BY <2>1, <1>9, <1>1, <1>2, <1>a DEF NothingBetween, UserOf
  <2> QED
    BY <2>2, <2>3, <2>4, <1>9, <1>2 DEF Newer, UserOf
<1>10. Owed(d)' \subseteq Owed(d)
  BY <1>6, <1>8, <1>9
<1>11. Devices = Lossy
  BY <1>1 DEF Lossy
<1> QED
  BY <1>1, <1>3, <1>5, <1>10, <1>11, <1>a, FeedLoses

(* A restart drops all queues and answers, and all sessions end with it.   *)
LEMMA RestartParts ==
    ASSUME TypeOK, Fresh, Restart
    PROVE  Feed!Next
<1>1. Joined' = {}
  BY DEF Restart, Fresh, Joined, NoSession, TypeOK, SessionType
<1>2. \A d \in Devices : Owed(d)' = {} /\ Seen(d)' = {}
  BY <1>1 DEF Owed, Seen
<1>3. Feed!Part(Devices)
  BY <1>1, <1>2 DEF Feed!Part, Joined
<1> QED
  BY <1>3 DEF Feed!Next

(* A poll that is about to read the queue, or has read it, still serves    *)
(* its device; only the queue of that user has changed, and nothing was    *)
(* put into it.                                                            *)
LEMMA WaitChanges ==
    ASSUME TypeOK, NEW p \in Polls
    PROVE  ReadTS(p) \/ ScanTakes(p) \/ ScanFindsNone(p) =>
              /\ poll[p].pc \in {"ts", "scan"} /\ poll[p].dev \in Devices
              /\ session' = session /\ got' = got /\ boot' = boot /\ Joined' = Joined
              /\ poll'[p].dev = poll[p].dev /\ poll'[p].live = poll[p].live
              /\ \A q \in Polls \ {p} : poll'[q] = poll[q]
              /\ \A u \in Users \ {UserOf(p)} : events'[u] = events[u]
              /\ \A u \in Users : events'[u] \subseteq events[u]
<1> DEFINE Changes ==
      /\ poll[p].pc \in {"ts", "scan"} /\ poll[p].dev \in Devices
      /\ session' = session /\ got' = got /\ boot' = boot /\ Joined' = Joined
      /\ poll'[p].dev = poll[p].dev /\ poll'[p].live = poll[p].live
      /\ \A q \in Polls \ {p} : poll'[q] = poll[q]
      /\ \A u \in Users \ {UserOf(p)} : events'[u] = events[u]
      /\ \A u \in Users : events'[u] \subseteq events[u]
<1>1. ASSUME ReadTS(p) PROVE Changes
  <2>1. /\ poll[p].pc = "ts" /\ session' = session /\ got' = got /\ boot' = boot
        /\ events' = events
    BY <1>1 DEF ReadTS, hubVars
  <2>2. PICK pc \in PollPcs : poll' = [poll EXCEPT ![p].since = counter, ![p].pc = pc]
    BY <1>1 DEF ReadTS, PollPcs
  <2> QED
    BY <2>1, <2>2 DEF TypeOK, PollType, Joined
<1>2. ASSUME ScanTakes(p) \/ ScanFindsNone(p) PROVE Changes
  <2>1. poll[p].pc = "scan" /\ got' = got
    <3>1. CASE ScanTakes(p)
      BY <3>1 DEF ScanTakes
    <3>2. CASE ScanFindsNone(p)
      BY <3>2 DEF ScanFindsNone
    <3> QED
      BY <1>2, <3>1, <3>2
  <2>2. /\ session' = session /\ boot' = boot
        /\ events' = [events EXCEPT ![UserOf(p)] = AtCursor(p)]
        /\ \A q \in Polls \ {p} : poll'[q] = poll[q]
        /\ poll'[p].dev = poll[p].dev /\ poll'[p].live = poll[p].live
    BY <1>2, ScanChanges
  <2>3. poll[p].dev \in Devices /\ UserOf(p) \in Users
    BY <2>1, ScanSets
  <2>4. /\ \A u \in Users \ {UserOf(p)} : events'[u] = events[u]
        /\ \A u \in Users : events'[u] \subseteq events[u]
    BY <2>2, <2>3 DEF TypeOK, AtCursor
  <2>5. Joined' = Joined
    BY <2>2 DEF Joined
  <2> QED
    BY <2>1, <2>2, <2>3, <2>4, <2>5
<1> QED
  BY <1>1, <1>2

(* What Hub.Wait takes out of the queue it owes still to its own client,   *)
(* in its answer; what it drops, and what a first time stamp passes over,  *)
(* was not owed to that client.                                            *)
LEMMA WaitKeepsOwed ==
    ASSUME FeedInv, OwedFacts, OwedFacts', NEW p \in Polls, NEW dev \in Devices,
           ReadTS(p) \/ ScanTakes(p) \/ ScanFindsNone(p), poll[p].live, dev = poll[p].dev
    PROVE  Owed(dev)' = Owed(dev)
<1>a. TypeOK /\ Stamped /\ OnePlace /\ Connected /\ Fresh /\ PollPath
  BY DEF FeedInv, SessionInv, DeliveryInv
<1>b. /\ poll[p].pc \in {"ts", "scan"} /\ poll[p].live /\ poll[p].updates = {}
      /\ session' = session /\ boot' = boot /\ Joined' = Joined
      /\ poll'[p].dev = dev /\ poll'[p].live
  BY <1>a, WaitChanges DEF OnePlace
<1>c. /\ poll[p].since \in Nat /\ counter \in Nat /\ Owner[dev] \in Users
      /\ events[Owner[dev]] \subseteq 1 .. counter
  BY <1>a, ConstantsAssumption DEF TypeOK, PollType, Stamped
<1>j. dev \in Joined
  BY <1>a, <1>b DEF Joined, Connected, Fresh, Served
<1>2. /\ Newer(p) = {e \in events[Owner[dev]] : e > poll[p].since}
      /\ Newer(p)' = {e \in events'[Owner[dev]] : e > poll'[p].since}
  BY <1>b DEF Newer, UserOf
<1>3. Owed(dev) = IF poll[p].since = 0 THEN {} ELSE Newer(p)
  BY <1>b, <1>j DEF OwedFacts
<1>4. Owed(dev)' = IF poll'[p].since = 0 THEN {} ELSE Newer(p)' \cup poll'[p].updates
  BY <1>b, <1>j DEF OwedFacts
<1>5. CASE ReadTS(p)
  <2>1. /\ poll[p].since = 0 /\ poll'[p].since = counter /\ events' = events
        /\ poll'[p].updates = {}
    BY <1>5, <1>a, <1>b DEF ReadTS, hubVars, PollPath, TypeOK, PollType
  <2>2. Newer(p)' = {}
    BY <2>1, <1>2, <1>c
  <2> QED
    BY <1>3, <1>4, <2>1, <2>2
<1>6. CASE ScanTakes(p)
  <2>1. PICK last \in Newer(p) :
          /\ \A e \in Newer(p) : e <= last
          /\ poll' = [poll EXCEPT ![p].pc = "reply", ![p].since = last, ![p].updates = Newer(p)]
    BY <1>6 DEF ScanTakes
  <2>2. poll[p].since # 0 /\ events' = [events EXCEPT ![Owner[dev]] = AtCursor(p)]
    BY <1>6, <1>a DEF ScanTakes, PollPath, UserOf
  <2>3. poll'[p].since = last /\ poll'[p].updates = Newer(p) /\ last \in Nat /\ last > poll[p].since
    BY <2>1, <1>a, <1>c, <1>2 DEF TypeOK, PollType
  <2>4. events'[Owner[dev]] = AtCursor(p) /\ \A e \in AtCursor(p) : e = poll[p].since
    BY <2>2, <1>c, <1>a DEF TypeOK, AtCursor
  <2>5. Newer(p)' = {}
    BY <2>3, <2>4, <1>2, <1>c
  <2> QED
    BY <1>3, <1>4, <1>c, <2>2, <2>3, <2>5
<1>7. CASE ScanFindsNone(p)
  <2>1. /\ Newer(p) = {} /\ events' = [events EXCEPT ![Owner[dev]] = AtCursor(p)]
        /\ poll'[p].since = poll[p].since /\ poll'[p].updates = {}
    BY <1>7, <1>a, <1>b DEF ScanFindsNone, UserOf, TypeOK, PollType
  <2>2. events'[Owner[dev]] = AtCursor(p) /\ \A e \in AtCursor(p) : e = poll[p].since
    BY <2>1, <1>c, <1>a DEF TypeOK, AtCursor
  <2>3. Newer(p)' = {}
    BY <2>1, <2>2, <1>2, <1>c
  <2> QED
    BY <1>3, <1>4, <2>1, <2>3
<1> QED
  BY <1>5, <1>6, <1>7

(* Only the devices of the same user can lose anything by it, all of them  *)
(* when the goroutine outlived its connection.                             *)
LEMMA WaitLoses ==
    ASSUME FeedInv, OwedFacts, OwedFacts', NEW p \in Polls,
           ReadTS(p) \/ ScanTakes(p) \/ ScanFindsNone(p)
    PROVE  Feed!Next
<1>a. TypeOK /\ Connected
  BY DEF FeedInv, SessionInv, DeliveryInv
<1>0. PICK dev \in Devices : dev = poll[p].dev
  BY <1>a, WaitChanges
<1>1. /\ poll[p].pc \in {"ts", "scan"}
      /\ session' = session /\ got' = got /\ Joined' = Joined
      /\ poll'[p].dev = dev /\ poll'[p].live = poll[p].live
      /\ \A q \in Polls \ {p} : poll'[q] = poll[q]
      /\ \A u \in Users \ {Owner[dev]} : events'[u] = events[u]
      /\ \A u \in Users : events'[u] \subseteq events[u]
  BY <1>0, <1>a, WaitChanges DEF UserOf
<1>2. \A d \in Devices : Owner[d] \in Users
  BY ConstantsAssumption
<1>3. ASSUME NEW d \in Devices, ~poll[p].live \/ d # dev
      PROVE  \A q \in Polls :
                /\ poll'[q].live /\ poll'[q].dev = d <=> poll[q].live /\ poll[q].dev = d
                /\ poll[q].live /\ poll[q].dev = d =>
                      poll'[q].since = poll[q].since /\ poll'[q].updates = poll[q].updates
  BY <1>0, <1>1, <1>3
<1>4. ASSUME NEW d \in Devices, ~poll[p].live \/ d # dev
      PROVE  Owed(d)' \subseteq Owed(d)
  BY <1>1, <1>2, <1>3, <1>4, OwedShrinks
<1>5. ASSUME NEW d \in Devices, Owner[d] # Owner[dev] PROVE Owed(d)' = Owed(d)
  <2>1. d # dev /\ events'[Owner[d]] = events[Owner[d]]
    BY <1>1, <1>2, <1>5
  <2> QED
    BY <2>1, <1>1, <1>3, OwedKept
<1>6. poll[p].live => Owed(dev)' = Owed(dev)
  BY <1>0, WaitKeepsOwed
<1>7. ~poll[p].live => Flaky
  BY <1>1, <1>a DEF Connected
<1>8. \A d \in Devices : Owed(d)' \subseteq Owed(d) /\ (d \notin Lossy => Owed(d)' = Owed(d))
  BY <1>1, <1>4, <1>5, <1>6, <1>7 DEF Lossy
<1> QED
  BY <1>1, <1>8, <1>a, FeedLoses

(* Every step of the hub, of a client or of the server is a step of the    *)
(* feed, or changes nothing of what is owed and seen.                      *)
LEMMA FeedStep == FeedInv /\ FeedInv' /\ [Next]_vars => [Feed!Next]_Feed!feedVars
<1> SUFFICES ASSUME FeedInv, FeedInv', [Next]_vars
             PROVE  Feed!Next \/ UNCHANGED Feed!feedVars
  OBVIOUS
<1>a. TypeOK /\ Connected /\ Fresh /\ OwedFacts /\ OwedFacts'
  BY OwedKnown, OwedKnownNext DEF FeedInv, SessionInv, DeliveryInv
<1> DEFINE Goal == Feed!Next \/ UNCHANGED Feed!feedVars
(* Steps that leave the queues and the time stamps alone. *)
<1>q. ASSUME events' = events, session' = session, got' = got, boot' = boot,
             \A p \in Polls : /\ poll'[p].live = poll[p].live /\ poll'[p].dev = poll[p].dev
                              /\ poll'[p].since = poll[p].since
                              /\ poll'[p].updates = poll[p].updates
      PROVE  Goal
  <2>1. Joined' = Joined
    BY <1>q DEF Joined
  <2> QED
    BY <1>a, <1>q, <2>1, OwedKept, FeedStutters
<1>1. ASSUME NEW q \in Pushers, NEW u \in Users, PushAppend(q, u) PROVE Goal
  BY <1>1, <1>a, PushPublishes
<1>2. ASSUME NEW q \in Pushers, PushSignal(q) PROVE Goal
  BY <1>2, <1>q DEF PushSignal
<1>3. ASSUME NEW d \in Devices, BindKey(d) PROVE Goal
  <2>1. d \notin Joined /\ d \notin Joined'
    BY <1>3, <1>a DEF BindKey, TypeOK, Joined
  <2>2. Owed(d)' = {} /\ Owed(d) = {}
    BY <2>1 DEF Owed
  <2>3. \A e \in Devices \ {d} : session'[e] = session[e]
    BY <1>3, <1>a DEF BindKey, TypeOK
  <2>4. events' = events /\ poll' = poll /\ got' = got
    BY <1>3 DEF BindKey
  <2>5. Joined' = Joined
    BY <1>3, <2>1, <2>3 DEF BindKey, Joined
  <2>6. \A e \in Devices \ {d} : Owed(e)' = Owed(e)
    BY <2>3, <2>4, <2>5, <1>a, OwedKept
  <2> QED
    BY <2>2, <2>4, <2>5, <2>6, FeedStutters
<1>4. ASSUME NEW d \in Devices, ServerTS(d) PROVE Goal
  BY <1>4, <1>a, ServerTSJoins
<1>5. ASSUME NEW d \in Devices, NEW p \in Polls, StartPoll(d, p) PROVE Goal
  <2>1. /\ session[d].pc = "open" /\ PollOf(d) = {} /\ ~poll[p].live
        /\ events' = events /\ session' = session /\ got' = got
        /\ poll'[p].dev = d /\ poll'[p].live /\ poll'[p].since = session[d].ts
        /\ poll'[p].updates = {}
        /\ \A q \in Polls \ {p} : poll'[q] = poll[q]
    BY <1>5, <1>a DEF StartPoll, hubVars, Connected, TypeOK
  <2>j. Joined' = Joined
    BY <1>5 DEF StartPoll, Joined
  <2>2. \A e \in Devices \ {d} : Owed(e)' = Owed(e)
    BY <2>1, <2>j, <1>a, OwedKept
  <2>3. Owed(d) = IF d \notin Joined \/ session[d].ts = 0 THEN {} ELSE {e \in events[Owner[d]] : e > session[d].ts}
    BY <2>1, <1>a DEF OwedFacts
  <2>4. Owed(d)' = IF d \notin Joined' \/ poll'[p].since = 0 THEN {} ELSE Newer(p)' \cup poll'[p].updates
    BY <2>1, <1>a DEF OwedFacts
  <2>5. Newer(p)' = {e \in events[Owner[d]] : e > session[d].ts}
    BY <2>1 DEF Newer, UserOf
  <2>6. Owed(d)' = Owed(d)
    BY <2>1, <2>j, <2>3, <2>4, <2>5
  <2> QED
    BY <2>1, <2>2, <2>j, <2>6, FeedStutters
<1>6. ASSUME NEW p \in Polls, Lookup(p) PROVE Goal
  BY <1>6, <1>q, <1>a DEF Lookup, hubVars, TypeOK, PollType
<1>7. ASSUME NEW p \in Polls, ReadTS(p) \/ ScanTakes(p) \/ ScanFindsNone(p) PROVE Goal
  BY <1>7, <1>a, WaitLoses
<1>8. ASSUME NEW p \in Polls, CheckDeadline(p) PROVE Goal
  BY <1>8, <1>q, <1>a DEF CheckDeadline, hubVars, TypeOK, PollType
<1>9. ASSUME NEW p \in Polls, Wake(p) PROVE Goal
  BY <1>9, <1>q, <1>a DEF Wake, TypeOK, PollType
<1>10. ASSUME NEW p \in Polls, Timeout(p) PROVE Goal
  BY <1>10, <1>q, <1>a DEF Timeout, hubVars, TypeOK, PollType
<1>11. ASSUME NEW p \in Polls, Expire(p) PROVE Goal
  BY <1>11, <1>q, <1>a DEF Expire, hubVars, TypeOK, PollType
<1>12. ASSUME NEW p \in Polls, Respond(p) PROVE Goal
  BY <1>12, <1>a, RespondDelivers, DeadAnswerStutters
<1>13. ASSUME NEW p \in Polls, RespondFailed(p) PROVE Goal
  BY <1>13, <1>a, FailedIsNotJoined, DeadAnswerStutters
<1>14. ASSUME Restart PROVE Goal
  BY <1>14, <1>a, RestartParts
<1>15. CASE UNCHANGED vars
  BY <1>15, <1>q DEF vars
<1>16. ASSUME NEW d \in Devices, Leave(d) PROVE Goal
  BY <1>16, <1>a, LeaveParts
<1>17. ASSUME NEW p \in Polls, Disconnect(p) PROVE Goal
  BY <1>17, <1>a, DisconnectLoses
<1> QED
  BY <1>1, <1>2, <1>3, <1>4, <1>5, <1>6, <1>7, <1>8, <1>9, <1>10, <1>11, <1>12, <1>13,
     <1>14, <1>15, <1>16, <1>17 DEF Next, ServePoll

(* A poll whose timer fired is answered after four steps of its own.       *)
THEOREM ExpiredPollsAlwaysCountDown == Spec => ExpiredPollsCountDown
<1>1. TypeOK /\ [Next]_vars =>
         [\A p \in Polls : poll[p].pc # "idle" /\ poll[p].expired =>
            /\ StepsLeft(p)' <= StepsLeft(p)
            /\ ServePoll(p) => StepsLeft(p)' < StepsLeft(p)]_vars
  <2> SUFFICES ASSUME TypeOK, Next, NEW p \in Polls, poll[p].pc # "idle", poll[p].expired
               PROVE  /\ StepsLeft(p)' <= StepsLeft(p)
                      /\ ServePoll(p) => StepsLeft(p)' < StepsLeft(p)
    OBVIOUS
  <2>a. poll \in [Polls -> PollType] /\ poll[p].pc \in PollPcs /\ StepsLeft(p) \in Nat
    BY DEF TypeOK, PollType, PollPcs, StepsLeft
  <2> DEFINE Later == StepsLeft(p)' \in Nat /\ StepsLeft(p)' < StepsLeft(p)
  <2>1. ASSUME ServePoll(p) PROVE Later
    <3>1. CASE Lookup(p)
      <4>1. poll'[p].pc \in {"failed", "ts", "scan"} /\ poll[p].pc = "lookup"
        BY <3>1, <2>a DEF Lookup, PollType
      <4> QED
        BY <4>1 DEF StepsLeft
    <3>2. CASE ReadTS(p)
      <4>1. PICK pc \in {"reply", "scan"} : poll' = [poll EXCEPT ![p].since = counter, ![p].pc = pc]
        BY <3>2 DEF ReadTS
      <4>2. poll'[p].pc \in {"reply", "scan"} /\ poll[p].pc = "ts"
        BY <4>1, <3>2, <2>a DEF ReadTS, PollType
      <4> QED
        BY <4>2 DEF StepsLeft
    <3>3. CASE ScanTakes(p)
      <4>1. PICK last \in Newer(p) :
              poll' = [poll EXCEPT ![p].pc = "reply", ![p].since = last,
                                   ![p].updates = Newer(p)]
        BY <3>3 DEF ScanTakes
      <4>2. poll'[p].pc = "reply" /\ poll[p].pc = "scan"
        BY <4>1, <3>3, <2>a DEF ScanTakes, PollType
      <4> QED
        BY <4>2 DEF StepsLeft
    <3>4. CASE ScanFindsNone(p) \/ CheckDeadline(p) \/ Wake(p) \/ Timeout(p)
      <4>1. <<poll[p].pc, poll'[p].pc>> \in
              {<<"scan", "check">>, <<"check", "reply">>, <<"wait", "scan">>, <<"wait", "reply">>}
        BY <3>4, <2>a DEF ScanFindsNone, CheckDeadline, Wake, Timeout, PollType
      <4> QED
        BY <4>1 DEF StepsLeft
    <3>5. CASE Respond(p) \/ RespondFailed(p)
      <4>1. poll'[p].pc = "idle"
        BY <3>5, <2>a DEF Respond, RespondFailed, NoPoll
      <4>2. poll[p].pc \in {"reply", "failed"}
        BY <3>5 DEF Respond, RespondFailed
      <4> QED
        BY <4>1, <4>2 DEF StepsLeft
    <3> QED
      BY <2>1, <3>1, <3>2, <3>3, <3>4, <3>5 DEF ServePoll
  <2>2. ASSUME poll'[p].pc = poll[p].pc PROVE StepsLeft(p)' = StepsLeft(p)
    BY <2>2 DEF StepsLeft
  <2>3. ASSUME NEW q \in Polls \ {p}, ServePoll(q) \/ Expire(q) \/ Disconnect(q)
        PROVE  poll'[p] = poll[p]
    BY <2>3, <2>a DEF ServePoll, Lookup, ReadTS, ScanTakes, ScanFindsNone, CheckDeadline,
       Wake, Timeout, Respond, RespondFailed, Expire, Disconnect
  <2>4. ASSUME Expire(p) \/ Disconnect(p) PROVE poll'[p].pc = poll[p].pc
    BY <2>4, <2>a DEF Expire, Disconnect, PollType
  <2>5. ASSUME NEW d \in Devices, BindKey(d) \/ ServerTS(d) \/ Leave(d) PROVE poll' = poll
    BY <2>5 DEF BindKey, ServerTS, Leave
  <2>6. ASSUME NEW d \in Devices, NEW q \in Polls, StartPoll(d, q) PROVE poll'[p] = poll[p]
    BY <2>6, <2>a DEF StartPoll
  <2>7. ASSUME NEW q \in Pushers, (\E u \in Users : PushAppend(q, u)) \/ PushSignal(q)
        PROVE  poll' = poll
    BY <2>7 DEF PushAppend, PushSignal
  <2>8. ASSUME Restart PROVE StepsLeft(p)' = 0
    BY <2>8 DEF Restart, NoPoll, StepsLeft
  <2>9. StepsLeft(p)' <= StepsLeft(p)
    <3>1. ASSUME NEW q \in Polls, ServePoll(q) \/ Expire(q) \/ Disconnect(q)
          PROVE  StepsLeft(p)' <= StepsLeft(p)
      <4>1. CASE q = p
        BY <4>1, <3>1, <2>a, <2>1, <2>2, <2>4
      <4>2. CASE q # p
        BY <4>2, <3>1, <2>a, <2>2, <2>3
      <4> QED
        BY <4>1, <4>2
    <3>2. ASSUME StepsLeft(p)' = StepsLeft(p) \/ StepsLeft(p)' = 0
          PROVE  StepsLeft(p)' <= StepsLeft(p)
      BY <3>2, <2>a
    <3> QED
      BY <3>1, <3>2, <2>2, <2>5, <2>6, <2>7, <2>8 DEF Next
  <2> QED
    BY <2>1, <2>9
<1> QED
  BY <1>1, TypeCorrect, PTL DEF Spec, ExpiredPollsCountDown

(* The hub implements the feed, however many devices a user has, however   *)
(* often connections break and the server restarts: what is published for  *)
(* a client that joined is owed to it until GET /longpoll hands it over,   *)
(* in order and once, unless it is Lossy: a user's only device whose       *)
(* connection does not break loses nothing by what the others do.  (That   *)
(* it is handed over in the end takes fairness: the other half of          *)
(* ImplementsFeed.)                                                        *)
THEOREM HubImplementsFeed == Spec => Feed!FeedSpec
<1>1. Init => Feed!Init
  <2>1. Init => Joined = {} /\ \A d \in Devices : Owed(d) = {} /\ Seen(d) = {}
    BY DEF Init, Joined, Owed, Seen, NoSession
  <2> QED
    BY <2>1 DEF Feed!Init
<1>2. FeedInv /\ FeedInv' /\ [Next]_vars => [Feed!Next]_Feed!feedVars
  BY FeedStep
<1> QED
  BY <1>1, <1>2, FeedCorrect, PTL DEF Spec, Feed!FeedSpec
=============================================================================
