---------------------------- MODULE StoreProofs -----------------------------
(***************************************************************************)
(* Proofs about two parts of the store: the ids it gives out (StoreIds),   *)
(* for every set of names and goroutines, and the news feed, the places    *)
(* and the check-ins (Feed), for every set of users, places and handlers.  *)
(***************************************************************************)
EXTENDS StoreIds, Feed, FiniteSetTheorems, FunctionTheorems, SequenceTheorems,
        WellFoundedInduction, TLAPS

(***************************************************************************)
(* The ids of the store                                                    *)
(***************************************************************************)

LEMMA IdleType == Idle \in CallerType /\ Idle.pc = "idle"
  BY DEF Idle, CallerType, Pcs

(* A step of a caller that moves it to pc. *)
LEMMA GoesStep ==
    ASSUME caller \in [Callers -> CallerType], NEW c \in Callers, NEW pc \in Pcs, Goes(c, pc)
    PROVE  /\ caller' \in [Callers -> CallerType]
           /\ caller'[c].pc = pc
           /\ caller'[c].name = caller[c].name
           /\ caller'[c].value = caller[c].value
           /\ \A d \in Callers \ {c} : caller'[d] = caller[d]
  <1> DEFINE new == [caller[c] EXCEPT !.pc = pc]
  <1>1. caller[c] \in CallerType
    OBVIOUS
  <1>2. /\ new \in CallerType /\ new.pc = pc /\ new.name = caller[c].name
        /\ new.value = caller[c].value
    BY <1>1 DEF CallerType
  <1>3. caller' = [caller EXCEPT ![c] = new]
    BY DEF Goes
  <1> HIDE DEF new
  <1> QED  BY <1>2, <1>3

(* A step that gives a caller a state of its own. *)
LEMMA SetStep ==
    ASSUME caller \in [Callers -> CallerType], NEW c \in Callers, NEW new \in CallerType,
           caller' = [caller EXCEPT ![c] = new]
    PROVE  /\ caller' \in [Callers -> CallerType]
           /\ caller'[c] = new
           /\ \A d \in Callers \ {c} : caller'[d] = caller[d]
  OBVIOUS

LEMMA SelectStep ==
    ASSUME TypeOK, NEW c \in Callers, Select(c)
    PROVE  /\ caller' \in [Callers -> CallerType]
           /\ caller'[c].pc = "upsert"
           /\ caller'[c].name = caller[c].name
           /\ caller'[c].value = counters[NameOf(c)] + 1
           /\ \A d \in Callers \ {c} : caller'[d] = caller[d]
  <1> DEFINE new == [caller[c] EXCEPT !.pc = "upsert", !.value = counters[NameOf(c)] + 1]
  <1>1. caller[c] \in CallerType /\ caller[c].name \in Names
    BY DEF TypeOK, Select, At
  <1>2. counters[NameOf(c)] + 1 \in Nat
    BY <1>1 DEF TypeOK, NameOf
  <1>3. /\ new \in CallerType /\ new.pc = "upsert" /\ new.name = caller[c].name
        /\ new.value = counters[NameOf(c)] + 1
    BY <1>1, <1>2 DEF CallerType, Pcs, InNextId
  <1>4. caller' = [caller EXCEPT ![c] = new]
    BY DEF Select
  <1>5. caller \in [Callers -> CallerType]
    BY DEF TypeOK
  <1> HIDE DEF new
  <1> QED  BY <1>3, <1>4, <1>5

(* Both, for a step whose caller is not idle before: what the other parts  *)
(* of the state rely on.                                                   *)
LEMMA Busy ==
    ASSUME TypeOK, NEW c \in Callers, caller[c].pc # "idle"
    PROVE  /\ caller[c] \in CallerType
           /\ NameOf(c) \in Names
           /\ caller[c].value \in Nat
  BY DEF TypeOK, NameOf, CallerType

-----------------------------------------------------------------------------
LEMMA InitType == Init => TypeOK
  BY IdleType, ConstantsAssumption DEF Init, TypeOK, Idle, InNextId, InTransaction

LEMMA TypeStep == TypeOK /\ [Next]_vars => TypeOK'
  <1> SUFFICES ASSUME TypeOK, [Next]_vars PROVE TypeOK'
    OBVIOUS
  <1>t. caller \in [Callers -> CallerType]
    BY DEF TypeOK
  <1>1. ASSUME NEW c \in Callers, NEW n \in Names, Call(c, n) PROVE TypeOK'
    <2> DEFINE new == [pc |-> "lock", name |-> n, value |-> 0]
    <2>1. new \in CallerType /\ new.pc = "lock" /\ new.name = n
      BY DEF CallerType, Pcs
    <2>2. caller' = [caller EXCEPT ![c] = new]
      BY <1>1 DEF Call
    <2> HIDE DEF new
    <2>3. /\ caller' \in [Callers -> CallerType] /\ caller'[c] = new
          /\ \A d \in Callers \ {c} : caller'[d] = caller[d]
      BY <1>t, <2>1, <2>2
    <2> QED  BY <1>1, <2>1, <2>3 DEF Call, At, TypeOK, InNextId, InTransaction
  <1>2. ASSUME NEW c \in Callers, Lock(c) PROVE TypeOK'
    <2>1. Goes(c, "begin") /\ "begin" \in Pcs
      BY <1>2 DEF Lock, Pcs, InNextId
    <2>2. /\ caller' \in [Callers -> CallerType] /\ caller'[c].pc = "begin"
          /\ caller'[c].name = caller[c].name
          /\ \A d \in Callers \ {c} : caller'[d] = caller[d]
      BY <1>t, <2>1, GoesStep
    <2> QED  BY <1>2, <2>2, ConstantsAssumption DEF Lock, At, TypeOK, InNextId, InTransaction
  <1>3. ASSUME NEW c \in Callers, Begin(c) PROVE TypeOK'
    <2>1. Goes(c, "select") /\ "select" \in Pcs
      BY <1>3 DEF Begin, Pcs, InNextId
    <2> QED  BY <1>3, <1>t, <2>1, GoesStep, ConstantsAssumption
             DEF Begin, At, TypeOK, InNextId, InTransaction
  <1>4. ASSUME NEW c \in Callers, Select(c) PROVE TypeOK'
    BY <1>4, SelectStep DEF Select, At, TypeOK, InNextId, InTransaction
  <1>5. ASSUME NEW c \in Callers, Upsert(c) PROVE TypeOK'
    <2>1. Goes(c, "commit") /\ "commit" \in Pcs
      BY <1>5 DEF Upsert, Pcs, InNextId
    <2> QED  BY <1>5, <1>t, <2>1, GoesStep DEF Upsert, At, TypeOK, InNextId, InTransaction
  <1>6. ASSUME NEW c \in Callers, Commit(c) PROVE TypeOK'
    <2>1. Goes(c, "return") /\ "return" \in Pcs
      BY <1>6 DEF Commit, Pcs, InNextId
    <2>2. counters' \in [Names -> Nat]
      BY <1>6, Busy DEF Commit, At, TypeOK
    <2> QED  BY <1>6, <1>t, <2>1, <2>2, GoesStep, ConstantsAssumption
             DEF Commit, At, TypeOK, InNextId, InTransaction
  <1>7. ASSUME NEW c \in Callers, Fail(c) PROVE TypeOK'
    <2>1. Goes(c, "failed") /\ "failed" \in Pcs
      BY <1>7 DEF Fail, Pcs, InNextId
    <2>3. /\ caller' \in [Callers -> CallerType] /\ caller'[c].pc = "failed"
          /\ caller'[c].name = caller[c].name
          /\ \A d \in Callers \ {c} : caller'[d] = caller[d]
      BY <1>t, <2>1, GoesStep
    <2>2. counters' \in [Names -> Nat]
      BY <1>7, Busy DEF Fail, At, TypeOK
    <2>4. /\ conn' \in Callers \cup Readers \cup {None}
          /\ \A d \in Callers : caller'[d].pc \in InTransaction <=> conn' = d
          /\ \A r \in Readers : reader[r] = "rows" <=> conn' = r
      BY <1>7, <2>3, ConstantsAssumption DEF Fail, TypeOK, InTransaction
    <2>5. /\ caller[c].pc # "idle" /\ caller[c].pc \in InNextId
          /\ idsMu' = idsMu /\ reader' = reader /\ rows' = rows /\ given' = given
      BY <1>7 DEF Fail, InNextId
    <2>6. \A d \in Callers : /\ caller'[d].pc # "idle" => caller'[d].name \in Names
                             /\ caller'[d].pc \in InNextId <=> idsMu' = d
      BY <2>3, <2>5 DEF TypeOK, InNextId
    <2> QED  BY <2>2, <2>3, <2>4, <2>5, <2>6 DEF TypeOK
  <1>8. ASSUME NEW c \in Callers, Failed(c) PROVE TypeOK'
    <2>1. /\ caller' \in [Callers -> CallerType] /\ caller'[c] = Idle
          /\ \A d \in Callers \ {c} : caller'[d] = caller[d]
      BY <1>8, <1>t, IdleType DEF Failed
    <2> QED  BY <1>8, <2>1, IdleType, ConstantsAssumption
             DEF Failed, At, TypeOK, InNextId, InTransaction
  <1>9. ASSUME NEW c \in Callers, Return(c) PROVE TypeOK'
    <2>1. Goes(c, "insert") /\ "insert" \in Pcs
      BY <1>9 DEF Return, Pcs
    <2>2. given' \in [Names -> Seq(Nat)]
      BY <1>9, Busy DEF Return, At, TypeOK
    <2>3. /\ caller' \in [Callers -> CallerType] /\ caller'[c].pc = "insert"
          /\ caller'[c].name = caller[c].name
          /\ \A d \in Callers \ {c} : caller'[d] = caller[d]
      BY <1>t, <2>1, GoesStep
    <2> QED  BY <1>9, <2>2, <2>3, ConstantsAssumption
             DEF Return, At, TypeOK, InNextId, InTransaction
  <1>10. ASSUME NEW c \in Callers, Insert(c) PROVE TypeOK'
    <2>1. /\ caller' \in [Callers -> CallerType] /\ caller'[c] = Idle
          /\ \A d \in Callers \ {c} : caller'[d] = caller[d]
      BY <1>10, <1>t, IdleType DEF Insert
    <2>2. rows' \in [Names -> SUBSET Nat]
      BY <1>10, Busy DEF Insert, At, TypeOK
    <2> QED  BY <1>10, <2>1, <2>2, IdleType, ConstantsAssumption
             DEF Insert, At, TypeOK, InNextId, InTransaction
  <1>11. ASSUME NEW r \in Readers, Query(r) \/ OpenRows(r) \/ CloseRows(r) PROVE TypeOK'
    BY <1>11, ConstantsAssumption DEF Query, OpenRows, CloseRows, TypeOK
  <1>12. CASE Crash
    BY <1>12, IdleType, ConstantsAssumption DEF Crash, TypeOK, InNextId, InTransaction
  <1>13. CASE UNCHANGED vars
    BY <1>13 DEF vars, TypeOK
  <1> QED
    BY <1>1, <1>2, <1>3, <1>4, <1>5, <1>6, <1>7, <1>8, <1>9, <1>10, <1>11, <1>12, <1>13
    DEF Next, Step

(* Whoever is in nextID after its first line holds the mutex, whoever is   *)
(* in a transaction or reads rows has the connection, and nobody else.     *)
THEOREM TypeCorrect == Spec => []TypeOK
  <1> QED  BY InitType, TypeStep, PTL DEF Spec

-----------------------------------------------------------------------------
(* What appending to one sequence does to the ids given out.               *)
LEMMA GivenAppend ==
    ASSUME given \in [Names -> Seq(Nat)], NEW n \in Names, NEW id \in Nat,
           given' = [given EXCEPT ![n] = Append(@, id)]
    PROVE  /\ Given(n)' = Given(n) \cup {id}
           /\ \A m \in Names \ {n} : Given(m)' = Given(m)
  <1>1. /\ given[n] \in Seq(Nat) /\ given'[n] = Append(given[n], id)
        /\ \A m \in Names \ {n} : given'[m] = given[m]
    OBVIOUS
  <1>2. /\ DOMAIN given'[n] = DOMAIN given[n] \cup {Len(given[n]) + 1}
        /\ Len(given[n]) + 1 \notin DOMAIN given[n]
        /\ given'[n][Len(given[n]) + 1] = id
        /\ \A i \in DOMAIN given[n] : given'[n][i] = given[n][i]
    BY <1>1
  <1> QED  BY <1>1, <1>2 DEF Given

LEMMA GivenSame == ASSUME given' = given PROVE \A n : Given(n)' = Given(n)
  BY DEF Given

LEMMA InitIds == Init => Committed /\ InsertsAreNew
  BY DEF Init, Idle, Committed, InsertsAreNew, At, Given

(* A caller that ends up outside the critical places disturbs nothing.     *)
LEMMA QuietStep ==
    ASSUME Committed, InsertsAreNew, NEW c \in Callers,
           \A d \in Callers \ {c} : caller'[d] = caller[d],
           caller'[c].pc \notin {"upsert", "commit", "return", "insert"},
           counters' = counters, rows' = rows, given' = given
    PROVE  Committed' /\ InsertsAreNew'
  <1>1. \A n : Given(n)' = Given(n)
    BY GivenSame
  <1>2. \A d \in Callers : caller'[d].pc \in {"upsert", "commit", "return", "insert"} =>
                            caller'[d] = caller[d]
    OBVIOUS
  <1> QED  BY <1>1, <1>2 DEF Committed, InsertsAreNew, At, NameOf

LEMMA IdsStep ==
    ASSUME IdsInv, [Next]_vars PROVE Committed' /\ InsertsAreNew'
  <1> USE DEF IdsInv
  <1>t. caller \in [Callers -> CallerType] /\ TypeOK
    BY DEF TypeOK
  <1>1. ASSUME NEW c \in Callers, NEW n \in Names, Call(c, n)
        PROVE  Committed' /\ InsertsAreNew'
    <2>1. caller'[c].pc = "lock" /\ \A d \in Callers \ {c} : caller'[d] = caller[d]
      BY <1>1, <1>t DEF Call
    <2> QED  BY <1>1, <2>1, QuietStep DEF Call
  <1>2. ASSUME NEW c \in Callers, Lock(c) \/ Begin(c) PROVE Committed' /\ InsertsAreNew'
    <2>1. /\ caller'[c].pc \in {"begin", "select"}
          /\ \A d \in Callers \ {c} : caller'[d] = caller[d]
      BY <1>2, <1>t DEF Lock, Begin, Goes, CallerType
    <2> QED  BY <1>2, <2>1, QuietStep DEF Lock, Begin
  <1>3. ASSUME NEW c \in Callers, Select(c) PROVE Committed' /\ InsertsAreNew'
    <2>1. /\ caller'[c].pc = "upsert" /\ caller'[c].name = caller[c].name
          /\ caller'[c].value = counters[NameOf(c)] + 1
          /\ \A d \in Callers \ {c} : caller'[d] = caller[d]
      BY <1>3, <1>t, SelectStep
    <2>2. counters' = counters /\ rows' = rows /\ given' = given
      BY <1>3 DEF Select
    <2>3. \A n : Given(n)' = Given(n)
      BY <2>2, GivenSame
    <2> QED  BY <2>1, <2>2, <2>3 DEF Committed, InsertsAreNew, At, NameOf
  <1>4. ASSUME NEW c \in Callers, Upsert(c) PROVE Committed' /\ InsertsAreNew'
    <2>0. Goes(c, "commit") /\ "commit" \in Pcs
      BY <1>4 DEF Upsert, Pcs, InNextId
    <2>1. /\ caller'[c].pc = "commit" /\ caller'[c].name = caller[c].name
          /\ caller'[c].value = caller[c].value
          /\ \A d \in Callers \ {c} : caller'[d] = caller[d]
      BY <2>0, <1>t, GoesStep
    <2>2. counters' = counters /\ rows' = rows /\ given' = given /\ caller[c].pc = "upsert"
      BY <1>4 DEF Upsert, At
    <2>3. \A n : Given(n)' = Given(n)
      BY <2>2, GivenSame
    <2> QED  BY <2>1, <2>2, <2>3 DEF Committed, InsertsAreNew, At, NameOf
  (* A commit, also one that reports an error. *)
  <1>5. ASSUME NEW c \in Callers, NEW pc \in {"return", "failed"}, At(c, "commit"), Goes(c, pc),
               counters' = [counters EXCEPT ![NameOf(c)] = caller[c].value],
               rows' = rows, given' = given
        PROVE  Committed' /\ InsertsAreNew'
    <2>0. pc \in Pcs
      BY DEF Pcs, InNextId
    <2>1. /\ caller'[c].pc = pc /\ caller'[c].name = caller[c].name
          /\ caller'[c].value = caller[c].value
          /\ \A d \in Callers \ {c} : caller'[d] = caller[d]
      BY <1>5, <2>0, <1>t, GoesStep
    <2>2. caller[c].pc = "commit" /\ NameOf(c) \in Names /\ caller[c].value \in Nat
      BY <1>5, <1>t, Busy DEF At
    <2>3. \A n : Given(n)' = Given(n)
      BY <1>5, GivenSame
    <2>4. /\ caller[c].value = counters[NameOf(c)] + 1
          /\ \A n \in Names : counters[n] \in Nat
          /\ counters'[NameOf(c)] = caller[c].value
          /\ \A n \in Names \ {NameOf(c)} : counters'[n] = counters[n]
      BY <1>5, <2>2 DEF Committed, TypeOK
    <2>5. \A d \in Callers \ {c} : caller[d].pc \notin {"upsert", "commit", "return"}
      BY <2>2 DEF TypeOK, InNextId
    <2>6. \A n \in Names : /\ \A id \in Given(n)' : id \in 1..counters'[n]
                           /\ \A id \in rows'[n] : id \in Given(n)'
      BY <1>5, <2>3, <2>4 DEF Committed
    <2>7. \A id \in Given(NameOf(c)) : id < caller[c].value
      BY <2>2, <2>4 DEF Committed
    <2>8. Committed'
      BY <2>1, <2>2, <2>3, <2>4, <2>5, <2>6, <2>7 DEF Committed, At, NameOf
    <2>9. InsertsAreNew'
      BY <1>5, <2>1 DEF InsertsAreNew, At, NameOf
    <2> QED  BY <2>8, <2>9
  <1>6. ASSUME NEW c \in Callers, Fail(c), counters' = counters
        PROVE  Committed' /\ InsertsAreNew'
    <2>1. caller'[c].pc = "failed" /\ \A d \in Callers \ {c} : caller'[d] = caller[d]
      BY <1>6, <1>t DEF Fail, Goes, CallerType
    <2> QED  BY <1>6, <2>1, QuietStep DEF Fail
  <1>7. ASSUME NEW c \in Callers, Failed(c) PROVE Committed' /\ InsertsAreNew'
    <2>1. caller'[c].pc = "idle" /\ \A d \in Callers \ {c} : caller'[d] = caller[d]
      BY <1>7, <1>t, IdleType DEF Failed
    <2> QED  BY <1>7, <2>1, QuietStep DEF Failed
  <1>8. ASSUME NEW c \in Callers, Return(c) PROVE Committed' /\ InsertsAreNew'
    <2>0. Goes(c, "insert") /\ "insert" \in Pcs /\ caller[c].pc = "return"
      BY <1>8 DEF Return, Pcs, At
    <2>1. /\ caller'[c].pc = "insert" /\ caller'[c].name = caller[c].name
          /\ caller'[c].value = caller[c].value
          /\ \A d \in Callers \ {c} : caller'[d] = caller[d]
      BY <2>0, <1>t, GoesStep
    <2>2. NameOf(c) \in Names /\ caller[c].value \in Nat
      BY <2>0, <1>t, Busy
    <2> PICK n \in Names, id \in Nat : n = NameOf(c) /\ id = caller[c].value
      BY <2>2
    <2>3. /\ Given(n)' = Given(n) \cup {id}
          /\ \A m \in Names \ {n} : Given(m)' = Given(m)
      BY <1>8, <2>2, GivenAppend DEF Return, TypeOK
    <2>4. /\ counters' = counters /\ rows' = rows
          /\ id = counters[n] /\ id > 0
          /\ \A old \in Given(n) : old < id
      BY <1>8, <2>0 DEF Return, Committed, At
    <2>5. \A d \in Callers \ {c} : caller[d].pc \notin {"upsert", "commit", "return"}
      BY <2>0 DEF TypeOK, InNextId
    <2>6. \A d \in Callers : caller[d].pc # "idle" => NameOf(d) \in Names
      BY <1>t, Busy
    <2>7. \A d \in Callers : NameOf(d)' = NameOf(d)
      BY <2>1 DEF NameOf
    <2>8. \A m \in Names : /\ \A old \in Given(m)' : old \in 1..counters'[m]
                           /\ \A old \in rows'[m] : old \in Given(m)'
      <3> SUFFICES ASSUME NEW m \in Names
                   PROVE  /\ \A old \in Given(m)' : old \in 1..counters[m]
                          /\ \A old \in rows[m] : old \in Given(m)'
        BY <2>4
      <3>1. /\ counters[m] \in Nat
            /\ \A old \in Given(m) : old \in 1..counters[m]
            /\ \A old \in rows[m] : old \in Given(m)
        BY DEF Committed, TypeOK
      <3>2. CASE m = n
        BY <2>3, <2>4, <3>1, <3>2
      <3>3. CASE m # n
        BY <2>3, <3>1, <3>3
      <3> QED  BY <3>2, <3>3
    <2>9. \A d \in Callers : At(d, "insert")' => caller'[d].value \in Given(NameOf(d))'
      BY <2>1, <2>3, <2>6, <2>7 DEF Committed, At
    <2>10. Committed'
      BY <2>1, <2>5, <2>8, <2>9 DEF Committed, At
    <2>11. \A d \in Callers \ {c} :
             At(d, "insert") /\ NameOf(d) = n => caller[d].value \in Given(n)
      BY DEF Committed
    <2>12. InsertsAreNew'
      BY <2>1, <2>4, <2>7, <2>11 DEF Committed, InsertsAreNew, At
    <2> QED  BY <2>10, <2>12
  <1>9. ASSUME NEW c \in Callers, Insert(c) PROVE Committed' /\ InsertsAreNew'
    <2>1. caller'[c].pc = "idle" /\ \A d \in Callers \ {c} : caller'[d] = caller[d]
      BY <1>9, <1>t, IdleType DEF Insert
    <2>2. /\ NameOf(c) \in Names
          /\ counters' = counters /\ given' = given
          /\ rows'[NameOf(c)] = rows[NameOf(c)] \cup {caller[c].value}
          /\ \A m \in Names \ {NameOf(c)} : rows'[m] = rows[m]
          /\ At(c, "insert")
      BY <1>9, <1>t, Busy DEF Insert, TypeOK, At
    <2>3. \A n : Given(n)' = Given(n)
      BY <2>2, GivenSame
    <2>4. \A d \in Callers : caller'[d].pc # "idle" => d # c /\ caller'[d] = caller[d]
      BY <2>1
    <2>n. \A d \in Callers : caller[d].pc # "idle" => NameOf(d) \in Names
      BY <1>t, Busy
    <2>v. caller[c].value \in Given(NameOf(c))
      BY <2>2 DEF Committed
    <2>5. Committed'
      BY <2>2, <2>3, <2>4, <2>v DEF Committed, At, NameOf
    <2>6. InsertsAreNew'
      BY <2>2, <2>4, <2>n DEF InsertsAreNew, At, NameOf
    <2> QED  BY <2>5, <2>6
  <1>10. ASSUME UNCHANGED <<counters, caller, rows, given>> PROVE Committed' /\ InsertsAreNew'
    BY <1>10, GivenSame DEF Committed, InsertsAreNew, At, NameOf
  <1>11. CASE Crash
    <2>1. /\ \A d \in Callers : caller'[d].pc = "idle"
          /\ counters' = counters /\ rows' = rows /\ given' = given
      BY <1>11, IdleType DEF Crash
    <2> QED  BY <2>1, GivenSame DEF Committed, InsertsAreNew, At
  <1>12. ASSUME NEW c \in Callers, Step(c) PROVE Committed' /\ InsertsAreNew'
    <2>1. CASE Commit(c)
      BY <1>5, <2>1 DEF Commit
    <2>2. CASE Fail(c)
      BY <1>5, <1>6, <2>2 DEF Fail
    <2> QED  BY <1>2, <1>3, <1>4, <1>7, <1>8, <1>9, <1>12, <2>1, <2>2 DEF Step
  <1>13. ASSUME NEW r \in Readers, Query(r) \/ OpenRows(r) \/ CloseRows(r)
         PROVE  Committed' /\ InsertsAreNew'
    BY <1>10, <1>13 DEF Query, OpenRows, CloseRows
  <1>14. CASE UNCHANGED vars
    BY <1>10, <1>14 DEF vars
  <1> QED  BY <1>1, <1>11, <1>12, <1>13, <1>14 DEF Next

LEMMA IdsAlways == Spec => []IdsInv
  <1>1. Init => IdsInv
    BY InitType, InitIds DEF IdsInv
  <1>2. IdsInv /\ [Next]_vars => IdsInv'
    BY TypeStep, IdsStep DEF IdsInv
  <1> QED  BY <1>1, <1>2, PTL DEF Spec

(* No insert of a row ever meets a row with its id, whatever fails and     *)
(* whenever the process is killed.                                         *)
THEOREM InsertsAreAlwaysNew == Spec => []InsertsAreNew
  <1>1. IdsInv => InsertsAreNew
    BY DEF IdsInv
  <1> QED  BY <1>1, IdsAlways, PTL

(* Goroutines cannot come to wait for each other in a circle over the      *)
(* mutex of nextID and the only connection of the store.                   *)
THEOREM NobodyIsEverStuck == Spec => []NobodyIsStuck
  <1>1. TypeOK => NobodyIsStuck
    <2> SUFFICES ASSUME TypeOK PROVE NobodyIsStuck
      OBVIOUS
    <2> USE DEF TypeOK, At, CanGoOn, InNextId, InTransaction
    <2>1. ASSUME NEW c \in Callers
          PROVE  caller[c].pc \in InNextId \cup {"idle", "lock", "insert"}
      BY DEF CallerType, Pcs
    <2>2. conn # None => CanGoOn(conn)
      OBVIOUS
    <2>3. idsMu # None => \/ CanGoOn(idsMu)
                          \/ At(idsMu, "begin") /\ conn \notin {None, idsMu}
      BY <2>1
    <2>4. ASSUME NEW c \in Callers, ~At(c, "idle")
          PROVE  CanGoOn(c) \/ idsMu \notin {None, c} \/ conn \notin {None, c}
      BY <2>1, <2>4
    <2>5. ASSUME NEW r \in Readers, reader[r] # "idle"
          PROVE  CanGoOn(r) \/ conn \notin {None, r}
      BY <2>5
    <2> QED  BY <2>2, <2>3, <2>4, <2>5 DEF NobodyIsStuck
  <1> QED  BY <1>1, TypeCorrect, PTL

(* Where a step of a caller takes it; nobody else is moved.                *)
LEMMA CallerSteps ==
    ASSUME TypeOK, NEW c \in Callers, Step(c)
    PROVE  /\ <<caller[c].pc, caller'[c].pc>> \in
                 {<<"lock", "begin">>, <<"begin", "select">>, <<"select", "upsert">>,
                  <<"upsert", "commit">>, <<"commit", "return">>, <<"return", "insert">>,
                  <<"insert", "idle">>, <<"failed", "idle">>, <<"begin", "failed">>,
                  <<"select", "failed">>, <<"upsert", "failed">>, <<"commit", "failed">>}
           /\ \A d \in Callers \ {c} : caller'[d] = caller[d]
  <1>t. caller \in [Callers -> CallerType]
    BY DEF TypeOK
  <1> USE DEF At
  <1>1. CASE Select(c)
    BY <1>1, SelectStep DEF Select
  <1>2. CASE Insert(c) \/ Failed(c)
    BY <1>2, <1>t, IdleType, SetStep DEF Insert, Failed
  <1>3. ASSUME NEW pc \in Pcs, Goes(c, pc)
        PROVE  caller'[c].pc = pc /\ \A d \in Callers \ {c} : caller'[d] = caller[d]
    BY <1>3, <1>t, GoesStep
  <1>p. {"begin", "commit", "return", "failed", "insert", "select"} \subseteq Pcs
    BY DEF Pcs, InNextId
  <1>4. CASE Lock(c)
    BY <1>4, <1>3, <1>p DEF Lock
  <1>5. CASE Begin(c)
    BY <1>5, <1>3, <1>p DEF Begin
  <1>6. CASE Upsert(c)
    BY <1>6, <1>3, <1>p DEF Upsert
  <1>7. CASE Commit(c)
    BY <1>7, <1>3, <1>p DEF Commit
  <1>8. CASE Fail(c)
    BY <1>8, <1>3, <1>p DEF Fail
  <1>9. CASE Return(c)
    BY <1>9, <1>3, <1>p DEF Return
  <1> QED  BY <1>1, <1>2, <1>4, <1>5, <1>6, <1>7, <1>8, <1>9 DEF Step

(* A call of nextID, with the insert after it, comes to its end in seven   *)
(* steps of its own, and nobody else's step sets it back.                  *)
THEOREM CallsAlwaysCountDown == Spec => CallsCountDown
  <1>1. TypeOK /\ [Next]_vars =>
           [\A c \in Callers : ~At(c, "idle") =>
              /\ StepsLeft(c)' <= StepsLeft(c)
              /\ Step(c) => StepsLeft(c)' < StepsLeft(c)]_vars
    <2> SUFFICES ASSUME TypeOK, Next, NEW c \in Callers, ~At(c, "idle")
                 PROVE  /\ StepsLeft(c)' <= StepsLeft(c)
                        /\ Step(c) => StepsLeft(c)' < StepsLeft(c)
      OBVIOUS
    <2>1. StepsLeft(c) \in Nat /\ caller[c].pc \in Pcs
      BY DEF TypeOK, CallerType, StepsLeft, Pcs, InNextId
    <2>2. ASSUME Step(c) PROVE StepsLeft(c)' \in Nat /\ StepsLeft(c)' < StepsLeft(c)
      BY <2>2, CallerSteps DEF StepsLeft
    <2>3. ASSUME caller'[c] = caller[c] PROVE StepsLeft(c)' = StepsLeft(c)
      BY <2>3 DEF StepsLeft
    <2>4. ASSUME NEW d \in Callers \ {c}, Step(d) PROVE StepsLeft(c)' = StepsLeft(c)
      BY <2>3, <2>4, CallerSteps
    <2>5. ASSUME NEW d \in Callers, NEW n \in Names, Call(d, n) PROVE StepsLeft(c)' = StepsLeft(c)
      BY <2>3, <2>5 DEF Call, At, TypeOK
    <2>6. ASSUME NEW r \in Readers, Query(r) \/ OpenRows(r) \/ CloseRows(r)
          PROVE  StepsLeft(c)' = StepsLeft(c)
      BY <2>3, <2>6 DEF Query, OpenRows, CloseRows
    <2>7. ASSUME Crash PROVE StepsLeft(c)' = 0
      BY <2>7, IdleType DEF Crash, StepsLeft
    <2>8. StepsLeft(c)' <= StepsLeft(c)
      <3>1. ASSUME NEW d \in Callers, Step(d) PROVE StepsLeft(c)' <= StepsLeft(c)
        <4>1. CASE d = c
          BY <4>1, <3>1, <2>1, <2>2
        <4>2. CASE d # c
          BY <4>2, <3>1, <2>1, <2>4
        <4> QED  BY <4>1, <4>2
      <3>2. ASSUME StepsLeft(c)' = StepsLeft(c) \/ StepsLeft(c)' = 0
            PROVE  StepsLeft(c)' <= StepsLeft(c)
        BY <3>2, <2>1
      <3> QED  BY <3>1, <3>2, <2>5, <2>6, <2>7 DEF Next
    <2> QED  BY <2>2, <2>8
  <1> QED  BY <1>1, TypeCorrect, PTL DEF Spec, CallsCountDown

(* Store.nextID implements the sequence of ids.                            *)
THEOREM StoreImplementsIds == Spec => ImplementsIds
  <1>1. Init => Ids!Init
    BY DEF Init, Ids!Init
  <1>2. IdsInv /\ [Next]_vars => [\E n \in Names : Ids!Give(n)]_given
    <2> SUFFICES ASSUME IdsInv, [Next]_vars, given' # given
                 PROVE  \E n \in Names : Ids!Give(n)
      OBVIOUS
    <2>1. PICK c \in Callers : Return(c)
      BY DEF Next, Step, Call, Lock, Begin, Select, Upsert, Commit, Fail, Failed, Insert,
             Query, OpenRows, CloseRows, Crash, vars
    <2> DEFINE n == NameOf(c)
               id == caller[c].value
    <2>2. n \in Names /\ id \in Nat /\ caller[c].pc = "return" /\ given[n] \in Seq(Nat)
      BY <2>1, Busy DEF Return, At, IdsInv, TypeOK
    <2>3. \A old \in Given(n) : old < id
      BY <2>2 DEF IdsInv, Committed, At
    <2>4. given' = [given EXCEPT ![n] = Append(@, id)]
      BY <2>1 DEF Return
    <2>5. \A i \in DOMAIN given[n] : given[n][i] < id
      BY <2>3 DEF Given
    <2>6. given'[n] = Append(given[n], id)
      BY <2>2, <2>4 DEF IdsInv, TypeOK
    <2>7. Len(given[n]) + 1 \in DOMAIN given'[n] /\ given'[n][Len(given[n]) + 1] = id
      BY <2>2, <2>6
    <2> HIDE DEF n, id
    <2>8. Ids!Give(n)
      BY <2>4, <2>5, <2>7 DEF Ids!Give
    <2> QED  BY <2>2, <2>8
  <1> QED  BY <1>1, <1>2, IdsAlways, PTL DEF Spec, ImplementsIds, Ids!IdSpec

(***************************************************************************)
(* The news feed, the places and the check-ins                             *)
(***************************************************************************)

-----------------------------------------------------------------------------
(* Posts and check-ins.  What a handler still has to do tells what it has  *)
(* done: its statements come in one order.                                 *)

StatementNames == {"now", "nextPostID", "createPost", "addPlace", "insertCheckin", "countCheckin"}

PostType == [id : Nat, owner : Users, date : Nat, place : Places \cup {NoPlace}, geo : BOOLEAN,
             deleted : BOOLEAN]
CheckinType == [nr : Nat, uid : Users, place : Places, date : Nat]
HandlerType ==
    [todo : Seq(StatementNames), owner : Users, date : Nat, postID : Nat, place : Places \cup {NoPlace},
     geo : BOOLEAN]

TablesType ==
    /\ now \in Nat /\ lastPostID \in Nat
    /\ posts \in SUBSET PostType
    /\ places \in SUBSET Places
    /\ count \in [Places -> Nat]
    /\ checkins \in SUBSET CheckinType /\ IsFiniteSet(checkins)
    /\ handler \in [Handlers -> HandlerType]
    /\ stopped \in [Places -> Nat]

Has(todo, statement) == \E i \in DOMAIN todo : todo[i] = statement
Coming(h, statement) == Has(handler[h].todo, statement)

(* A post is created at the end of a handler; a check-in is counted right  *)
(* after it is inserted.                                                   *)
InPairs(todo) ==
    \A i \in DOMAIN todo :
        /\ todo[i] = "createPost" => i = Len(todo)
        /\ todo[i] = "insertCheckin" => i < Len(todo) /\ todo[i + 1] = "countCheckin"
        /\ i < Len(todo) /\ todo[i + 1] = "countCheckin" => todo[i] = "insertCheckin"

(* The plan of a handler at its start. *)
Planned(todo, place, geo) ==
    /\ todo \in Seq(StatementNames) /\ todo # <<>> /\ InPairs(todo) /\ Head(todo) # "countCheckin"
    /\ Has(todo, "createPost") => Has(todo, "now") /\ Has(todo, "nextPostID")
    /\ place \in Places \cup {NoPlace} /\ geo \in BOOLEAN
    /\ Has(todo, "insertCheckin") \/ Has(todo, "countCheckin") \/ Has(todo, "addPlace") => place \in Places
    /\ Has(todo, "createPost") /\ geo =>
          Has(todo, "insertCheckin") /\ (Has(todo, "addPlace") \/ place \in places)

LEMMA PostsArePlanned ==
    ASSUME NEW place \in Places \cup {NoPlace}
    PROVE  Planned(wallPost, place, FALSE) /\ Planned(handlePost, place, FALSE)
  <1> DEFINE Shape(todo) ==
               /\ todo \in Seq(StatementNames) /\ Len(todo) = 3 /\ DOMAIN todo = 1 .. 3
               /\ \E i \in 1 .. 3 : todo[i] = "now"
               /\ \E i \in 1 .. 3 : todo[i] = "nextPostID"
               /\ \A i \in 1 .. 2 : todo[i] # "createPost"
               /\ \A i \in 1 .. 3 : todo[i] \notin {"insertCheckin", "countCheckin", "addPlace"}
  <1>1. Shape(wallPost) /\ Shape(handlePost)
    <2>1. Shape(wallPost)
      BY DEF wallPost, StatementNames
    <2>2. Shape(handlePost)
      BY DEF handlePost, StatementNames
    <2> QED  BY <2>1, <2>2
  <1>2. ASSUME NEW todo \in {wallPost, handlePost} PROVE Planned(todo, place, FALSE)
    <2>1. /\ todo \in Seq(StatementNames) /\ Len(todo) = 3 /\ DOMAIN todo = 1 .. 3
          /\ \E i \in 1 .. 3 : todo[i] = "now"
          /\ \E i \in 1 .. 3 : todo[i] = "nextPostID"
          /\ \A i \in 1 .. 2 : todo[i] # "createPost"
          /\ \A i \in 1 .. 3 : todo[i] \notin {"insertCheckin", "countCheckin", "addPlace"}
      BY <1>1
    <2>2. todo # <<>> /\ Head(todo) = todo[1]
      BY <2>1
    <2>3. InPairs(todo)
      BY <2>1 DEF InPairs
    <2> QED  BY <2>1, <2>2, <2>3 DEF Planned, Has
  <1> QED  BY <1>2

(* The statements of a check-in, one by one.                               *)
LEMMA CheckinStatements ==
    /\ placesCheckin \in Seq(StatementNames) /\ Len(placesCheckin) = 6
    /\ placesCheckin[1] = "now" /\ placesCheckin[2] = "insertCheckin" /\ placesCheckin[3] = "countCheckin"
    /\ placesCheckin[4] = "nextPostID" /\ placesCheckin[5] = "now" /\ placesCheckin[6] = "createPost"
  <1> DEFINE N == <<"now">>
             post == <<"nextPostID", "now", "createPost">>
             first == N \o AddCheckin
  <1>1. /\ N \in Seq(StatementNames) /\ Len(N) = 1 /\ N[1] = "now"
        /\ AddCheckin \in Seq(StatementNames) /\ Len(AddCheckin) = 2
        /\ AddCheckin[1] = "insertCheckin" /\ AddCheckin[2] = "countCheckin"
        /\ post \in Seq(StatementNames) /\ Len(post) = 3
        /\ post[1] = "nextPostID" /\ post[2] = "now" /\ post[3] = "createPost"
    BY DEF AddCheckin, StatementNames
  <1> HIDE DEF N, post
  <1>2. /\ first \in Seq(StatementNames) /\ Len(first) = 3
        /\ \A i \in 1 .. 3 : first[i] = IF i <= 1 THEN N[i] ELSE AddCheckin[i - 1]
    <2>1. first \in Seq(StatementNames)
      BY <1>1, ConcatProperties, Zenon
    <2>2. Len(first) = Len(N) + Len(AddCheckin)
      BY <1>1, ConcatProperties, Zenon
    <2>3. \A i \in 1 .. Len(N) + Len(AddCheckin) :
             first[i] = IF i <= Len(N) THEN N[i] ELSE AddCheckin[i - Len(N)]
      BY <1>1, ConcatProperties
    <2> HIDE DEF first
    <2> QED  BY <1>1, <2>1, <2>2, <2>3
  <1>3. first[1] = "now" /\ first[2] = "insertCheckin" /\ first[3] = "countCheckin"
    BY <1>1, <1>2
  <1> HIDE DEF first
  <1>4. /\ first \o post \in Seq(StatementNames) /\ Len(first \o post) = 6
        /\ \A i \in 1 .. 6 : (first \o post)[i] = IF i <= 3 THEN first[i] ELSE post[i - 3]
    <2>1. /\ first \o post \in Seq(StatementNames) /\ Len(first \o post) = Len(first) + Len(post)
          /\ \A i \in 1 .. Len(first) + Len(post) :
                (first \o post)[i] = IF i <= Len(first) THEN first[i] ELSE post[i - Len(first)]
      BY <1>1, <1>2, ConcatProperties
    <2> QED  BY <1>1, <1>2, <2>1
  <1>5. placesCheckin = first \o post
    BY DEF placesCheckin, first, N, post
  <1> HIDE DEF placesCheckin
  <1> QED  BY <1>1, <1>3, <1>4, <1>5

LEMMA CheckinsArePlanned ==
    ASSUME NEW p \in Places
    PROVE  /\ p \in places => Planned(placesCheckin, p, TRUE) /\ Planned(handleCheckin(FALSE), p, TRUE)
           /\ Planned(handleCheckin(TRUE), p, TRUE)
           /\ Planned(placesAdd, p, FALSE)
  <1>1. ASSUME p \in places PROVE Planned(placesCheckin, p, TRUE)
    <2> DEFINE todo == placesCheckin
    <2>1. /\ todo \in Seq(StatementNames) /\ DOMAIN todo = 1 .. 6 /\ Len(todo) = 6
          /\ todo # <<>> /\ Head(todo) = todo[1]
          /\ todo[1] = "now" /\ todo[2] = "insertCheckin" /\ todo[3] = "countCheckin"
          /\ todo[4] = "nextPostID" /\ todo[5] = "now" /\ todo[6] = "createPost"
      BY CheckinStatements
    <2> HIDE DEF todo
    <2>2. \A i \in 1 .. 6 : i = 1 \/ i = 2 \/ i = 3 \/ i = 4 \/ i = 5 \/ i = 6
      OBVIOUS
    <2>3. InPairs(todo)
      BY <2>1, <2>2 DEF InPairs
    <2>4. Has(todo, "now") /\ Has(todo, "nextPostID") /\ Has(todo, "insertCheckin")
      <3>1. 1 \in DOMAIN todo /\ 2 \in DOMAIN todo /\ 4 \in DOMAIN todo
        BY <2>1
      <3> QED  BY <2>1, <3>1 DEF Has
    <2>5. Planned(todo, p, TRUE)
      BY <1>1, <2>1, <2>3, <2>4 DEF Planned
    <2> QED  BY <2>5 DEF todo
  <1>2. handleCheckin(FALSE) = placesCheckin
    BY CheckinStatements DEF handleCheckin
  <1>3. Planned(handleCheckin(TRUE), p, TRUE)
    <2> DEFINE A == <<"addPlace">>
               todo == A \o placesCheckin
    <2>1. A \in Seq(StatementNames) /\ Len(A) = 1 /\ A[1] = "addPlace"
      BY DEF StatementNames
    <2> HIDE DEF A
    <2>2. /\ todo \in Seq(StatementNames) /\ Len(todo) = 7
          /\ \A i \in 1 .. 7 : todo[i] = IF i <= 1 THEN A[i] ELSE placesCheckin[i - 1]
      <3>1. /\ todo \in Seq(StatementNames) /\ Len(todo) = Len(A) + Len(placesCheckin)
            /\ \A i \in 1 .. Len(A) + Len(placesCheckin) :
                  todo[i] = IF i <= Len(A) THEN A[i] ELSE placesCheckin[i - Len(A)]
        BY <2>1, CheckinStatements, ConcatProperties
      <3> QED  BY <2>1, <3>1, CheckinStatements
    <2> HIDE DEF todo
    <2>3. /\ DOMAIN todo = 1 .. 7 /\ todo # <<>> /\ Head(todo) = todo[1]
          /\ todo[1] = "addPlace" /\ todo[2] = "now" /\ todo[3] = "insertCheckin" /\ todo[4] = "countCheckin"
          /\ todo[5] = "nextPostID" /\ todo[6] = "now" /\ todo[7] = "createPost"
      BY <2>1, <2>2, CheckinStatements
    <2>4. \A i \in 1 .. 7 : i = 1 \/ i = 2 \/ i = 3 \/ i = 4 \/ i = 5 \/ i = 6 \/ i = 7
      OBVIOUS
    <2>5. InPairs(todo)
      BY <2>2, <2>3, <2>4 DEF InPairs
    <2>6. Has(todo, "now") /\ Has(todo, "nextPostID") /\ Has(todo, "insertCheckin") /\ Has(todo, "addPlace")
      <3>1. 1 \in DOMAIN todo /\ 2 \in DOMAIN todo /\ 3 \in DOMAIN todo /\ 5 \in DOMAIN todo
        BY <2>3
      <3> QED  BY <2>3, <3>1 DEF Has
    <2>7. Planned(todo, p, TRUE)
      BY <2>2, <2>3, <2>5, <2>6 DEF Planned
    <2> QED  BY <2>7 DEF todo, A, handleCheckin
  <1>4. Planned(placesAdd, p, FALSE)
    <2>1. /\ placesAdd \in Seq(StatementNames) /\ DOMAIN placesAdd = {1} /\ Len(placesAdd) = 1
          /\ placesAdd[1] = "addPlace"
      BY DEF placesAdd, StatementNames
    <2>2. placesAdd # <<>> /\ Head(placesAdd) = placesAdd[1]
      BY <2>1
    <2> QED  BY <2>1, <2>2 DEF Planned, InPairs, Has
  <1> QED  BY <1>1, <1>2, <1>3, <1>4

(* One statement less.                                                     *)
LEMMA OneStatement ==
    ASSUME NEW todo \in Seq(StatementNames), todo # <<>>
    PROVE  /\ Tail(todo) \in Seq(StatementNames) /\ Len(Tail(todo)) = Len(todo) - 1
           /\ \A s : Has(todo, s) <=> Head(todo) = s \/ Has(Tail(todo), s)
           /\ InPairs(todo) =>
                 /\ InPairs(Tail(todo))
                 /\ Head(todo) = "createPost" => Tail(todo) = <<>>
                 /\ Head(todo) = "insertCheckin" => Tail(todo) # <<>> /\ Head(Tail(todo)) = "countCheckin"
                 /\ Tail(todo) # <<>> /\ Head(Tail(todo)) = "countCheckin" => Head(todo) = "insertCheckin"
  <1> DEFINE rest == Tail(todo)
  <1>1. /\ rest \in Seq(StatementNames) /\ Len(todo) \in Nat /\ Len(todo) > 0 /\ Len(rest) = Len(todo) - 1
        /\ DOMAIN rest = 1 .. Len(todo) - 1 /\ DOMAIN todo = 1 .. Len(todo)
        /\ \A i \in DOMAIN rest : rest[i] = todo[i + 1] /\ i + 1 \in DOMAIN todo
        /\ Head(todo) = todo[1] /\ 1 \in DOMAIN todo
        /\ rest # <<>> => Head(rest) = todo[2] /\ Len(todo) > 1
    OBVIOUS
  <1> HIDE DEF rest
  <1>2. ASSUME NEW s PROVE Has(todo, s) <=> Head(todo) = s \/ Has(rest, s)
    <2>1. ASSUME Has(todo, s), Head(todo) # s PROVE Has(rest, s)
      <3>1. PICK i \in DOMAIN todo : todo[i] = s
        BY <2>1 DEF Has
      <3>2. i - 1 \in DOMAIN rest /\ (i - 1) + 1 = i
        BY <1>1, <2>1, <3>1
      <3> QED  BY <1>1, <3>1, <3>2 DEF Has
    <2> QED  BY <1>1, <2>1 DEF Has
  <1>3. ASSUME InPairs(todo)
        PROVE  /\ InPairs(rest)
               /\ Head(todo) = "createPost" => rest = <<>>
               /\ Head(todo) = "insertCheckin" => rest # <<>> /\ Head(rest) = "countCheckin"
               /\ rest # <<>> /\ Head(rest) = "countCheckin" => Head(todo) = "insertCheckin"
    <2>1. InPairs(rest)
      <3> SUFFICES ASSUME NEW i \in DOMAIN rest
                   PROVE  /\ rest[i] = "createPost" => i = Len(rest)
                          /\ rest[i] = "insertCheckin" => i < Len(rest) /\ rest[i + 1] = "countCheckin"
                          /\ i < Len(rest) /\ rest[i + 1] = "countCheckin" => rest[i] = "insertCheckin"
        BY DEF InPairs
      <3>1. /\ i + 1 \in DOMAIN todo /\ rest[i] = todo[i + 1] /\ i \in Nat
            /\ i < Len(rest) => i + 1 \in DOMAIN rest /\ rest[i + 1] = todo[(i + 1) + 1]
        BY <1>1
      <3>2. /\ todo[i + 1] = "createPost" => i + 1 = Len(todo)
            /\ todo[i + 1] = "insertCheckin" => i + 1 < Len(todo) /\ todo[(i + 1) + 1] = "countCheckin"
            /\ i + 1 < Len(todo) /\ todo[(i + 1) + 1] = "countCheckin" => todo[i + 1] = "insertCheckin"
        BY <1>3, <3>1 DEF InPairs
      <3> QED  BY <1>1, <3>1, <3>2
    <2>2. /\ todo[1] = "createPost" => 1 = Len(todo)
          /\ todo[1] = "insertCheckin" => 1 < Len(todo) /\ todo[2] = "countCheckin"
          /\ 1 < Len(todo) /\ todo[2] = "countCheckin" => todo[1] = "insertCheckin"
      BY <1>1, <1>3 DEF InPairs
    <2> QED  BY <1>1, <2>1, <2>2
  <1> QED  BY <1>1, <1>2, <1>3 DEF rest

(* What is true of a handler, by what it still has to do.                  *)
HandlerInv(h) ==
    LET w == handler[h]
    IN  /\ InPairs(w.todo)
        /\ w.date <= now /\ w.postID <= lastPostID
        /\ Coming(h, "insertCheckin") \/ Coming(h, "countCheckin") \/ Coming(h, "addPlace") => w.place \in Places
        /\ Coming(h, "createPost") =>
              /\ Coming(h, "now") \/ w.date >= FirstTime
              /\ Coming(h, "nextPostID") \/ w.postID # 0
              /\ w.geo =>
                    /\ Coming(h, "addPlace") \/ w.place \in places
                    /\ \/ Coming(h, "insertCheckin")
                       \/ \E c \in CheckinsAt(w.place) : c.uid = w.owner /\ c.date <= w.date

(* Ids of posts are given out once. *)
PostsInv ==
    /\ IsFiniteSet(posts) /\ now >= FirstTime
    /\ \A p \in posts : p.id <= lastPostID /\ FirstTime <= p.date /\ p.date <= now
    /\ \A p, q \in posts : p.id = q.id => p = q
    /\ \A h \in Handlers : handler[h].postID # 0 =>
          /\ \A p \in posts : p.id # handler[h].postID
          /\ \A k \in Handlers \ {h} : handler[k].postID # handler[h].postID

CheckinsInv == \A c \in checkins : c.nr < Cardinality(checkins)

(* The handlers between the two statements of a check-in. *)
Between(p) == {h \in Handlers : handler[h].place = p /\ Does(h, "countCheckin")}

StoreInv ==
    /\ TablesType /\ PostsInv /\ CheckinsInv
    /\ \A h \in Handlers : HandlerInv(h)
    /\ PlacedPostsHaveCheckins
    /\ CheckinsAreCounted

(* Rows are added, never taken away, and the clock goes on. *)
Grows ==
    /\ now <= now' /\ lastPostID <= lastPostID'
    /\ places \subseteq places' /\ checkins \subseteq checkins'

OnlyHandler(h) ==
    /\ handler'[h] \in HandlerType
    /\ handler' = [handler EXCEPT ![h] = handler'[h]]

LEMMA DoneFacts ==
    ASSUME TablesType, NEW h \in Handlers, handler[h].todo # <<>>
    PROVE  /\ Done(h) \in HandlerType /\ Done(h).todo = Tail(handler[h].todo)
           /\ Tail(handler[h].todo) = <<>> => Done(h) = NoHandler
           /\ Tail(handler[h].todo) # <<>> => Done(h) = [handler[h] EXCEPT !.todo = Tail(handler[h].todo)]
  <1>1. handler[h] \in HandlerType /\ handler[h].todo \in Seq(StatementNames)
    BY DEF TablesType, HandlerType
  <1>2. NoHandler \in HandlerType /\ NoHandler.todo = <<>>
    <2>1. <<>> \in Seq(StatementNames)
      OBVIOUS
    <2> QED  BY <2>1, FeedAssumption DEF NoHandler, HandlerType
  <1>3. /\ Tail(handler[h].todo) \in Seq(StatementNames)
        /\ Len(handler[h].todo) = 1 <=> Tail(handler[h].todo) = <<>>
    <2> DEFINE rest == Tail(handler[h].todo)
    <2>1. rest \in Seq(StatementNames) /\ Len(rest) = Len(handler[h].todo) - 1 /\ Len(handler[h].todo) \in Nat
      BY <1>1, OneStatement
    <2> HIDE DEF rest
    <2>2. rest = <<>> => Len(rest) = 0
      OBVIOUS
    <2>3. rest # <<>> => Len(rest) # 0
      BY <2>1, EmptySeq
    <2> QED  BY <2>1, <2>2, <2>3 DEF rest
  <1>4. [handler[h] EXCEPT !.todo = Tail(handler[h].todo)] \in HandlerType
    BY <1>1, <1>3 DEF HandlerType
  <1> QED  BY <1>1, <1>2, <1>3, <1>4 DEF Done, HandlerType

LEMMA NobodyType ==
    NoHandler \in HandlerType /\ NoHandler.todo = <<>> /\ NoHandler.date = 0 /\ NoHandler.postID = 0
  <1>1. <<>> \in Seq(StatementNames)
    OBVIOUS
  <1> QED  BY <1>1, FeedAssumption DEF NoHandler, HandlerType

(* A handler that does nothing. *)
LEMMA NothingToDo ==
    ASSUME TablesType, NEW h \in Handlers, handler[h].todo = <<>>, handler[h].date <= now,
           handler[h].postID <= lastPostID
    PROVE  HandlerInv(h)
  BY DEF HandlerInv, InPairs, Coming, Has

(* The others are left alone. *)
LEMMA OtherHandlers ==
    ASSUME StoreInv, TablesType', Grows, NEW h, OnlyHandler(h), h \in Handlers => HandlerInv(h)'
    PROVE  \A k \in Handlers : HandlerInv(k)'
  <1> SUFFICES ASSUME NEW k \in Handlers, k # h PROVE HandlerInv(k)'
    OBVIOUS
  <1>1. HandlerInv(k) /\ handler'[k] = handler[k] /\ handler[k] \in HandlerType
    BY DEF StoreInv, TablesType, OnlyHandler
  <1>2. /\ handler[k].date <= now' /\ handler[k].postID <= lastPostID'
        /\ \A c \in CheckinsAt(handler[k].place) : c \in CheckinsAt(handler[k].place)'
    BY <1>1 DEF HandlerInv, Grows, TablesType, StoreInv, CheckinsAt, HandlerType
  <1>3. \A s : Coming(k, s)' <=> Coming(k, s)
    BY <1>1 DEF Coming
  <1> QED  BY <1>1, <1>2, <1>3 DEF HandlerInv, Grows, CheckinsAt

(* A handler that has done the first of its statements.                    *)
LEMMA DidOne ==
    ASSUME StoreInv, TablesType', Grows, NEW h \in Handlers, handler[h].todo # <<>>,
           handler'[h].todo = Tail(handler[h].todo),
           handler'[h].date <= now', handler'[h].postID <= lastPostID',
           Tail(handler[h].todo) # <<>> =>
              /\ handler'[h].owner = handler[h].owner /\ handler'[h].place = handler[h].place
              /\ handler'[h].geo = handler[h].geo
              /\ IF Does(h, "now") THEN handler'[h].date = now ELSE handler'[h].date = handler[h].date
              /\ IF Does(h, "nextPostID") THEN handler'[h].postID # 0 ELSE handler'[h].postID = handler[h].postID
              /\ Does(h, "addPlace") => handler[h].place \in places'
              /\ Does(h, "insertCheckin") =>
                    \E c \in checkins' : /\ c.place = handler[h].place /\ c.uid = handler[h].owner
                                         /\ c.date <= handler[h].date
    PROVE  HandlerInv(h)'
  <1>1. CASE Tail(handler[h].todo) = <<>>
    BY <1>1 DEF HandlerInv, InPairs, Coming, Has
  <1>2. CASE Tail(handler[h].todo) # <<>>
    <2> DEFINE w == handler[h]
               v == handler'[h]
    <2>1. w \in HandlerType /\ w.todo \in Seq(StatementNames) /\ v \in HandlerType /\ HandlerInv(h)
      BY DEF StoreInv, TablesType, HandlerType
    <2>2. /\ InPairs(w.todo) => InPairs(v.todo)
          /\ \A s : Coming(h, s) <=> Does(h, s) \/ Coming(h, s)'
      <3>1. /\ \A s : Has(w.todo, s) <=> Head(w.todo) = s \/ Has(v.todo, s)
            /\ InPairs(w.todo) => InPairs(v.todo)
        BY <2>1, OneStatement
      <3> QED  BY <3>1 DEF Coming, Does
    <2>3. v.owner = w.owner /\ v.place = w.place /\ v.geo = w.geo /\ InPairs(v.todo)
      BY <1>2, <2>1, <2>2 DEF HandlerInv
    <2>4. now \in Nat /\ now' \in Nat /\ now >= FirstTime /\ w.date <= now /\ FirstTime \in Nat
      BY <2>1, FeedAssumption DEF StoreInv, TablesType, PostsInv, HandlerInv
    <2>5. w.date <= v.date
      BY <1>2, <2>1, <2>4 DEF HandlerType
    <2>6. Coming(h, "insertCheckin")' \/ Coming(h, "countCheckin")' \/ Coming(h, "addPlace")' => v.place \in Places
      BY <2>1, <2>2, <2>3 DEF HandlerInv
    <2>7. ASSUME Coming(h, "createPost")'
          PROVE  /\ Coming(h, "now")' \/ v.date >= FirstTime
                 /\ Coming(h, "nextPostID")' \/ v.postID # 0
      <3>1. /\ Coming(h, "now") \/ w.date >= FirstTime
            /\ Coming(h, "nextPostID") \/ w.postID # 0
        BY <2>1, <2>2, <2>7 DEF HandlerInv
      <3> QED  BY <1>2, <2>1, <2>2, <2>4, <2>5, <3>1 DEF HandlerType
    <2>8. ASSUME Coming(h, "createPost")', v.geo
          PROVE  Coming(h, "addPlace")' \/ v.place \in places'
      <3>1. Coming(h, "addPlace") \/ w.place \in places
        BY <2>1, <2>2, <2>3, <2>8 DEF HandlerInv
      <3> QED  BY <1>2, <2>2, <2>3, <3>1 DEF Grows
    <2>9. ASSUME Coming(h, "createPost")', v.geo, ~Coming(h, "insertCheckin")'
          PROVE  \E c \in checkins' : c.place = v.place /\ c.uid = v.owner /\ c.date <= v.date
      <3>1. CASE Does(h, "insertCheckin")
        <4>1. PICK c \in checkins' : c.place = w.place /\ c.uid = w.owner /\ c.date <= w.date
          BY <1>2, <3>1
        <4>2. c \in checkins' /\ c.place = v.place /\ c.date \in Nat
          BY <2>3, <4>1 DEF CheckinsAt, TablesType, CheckinType
        <4>3. c.date <= v.date
          BY <2>1, <2>5, <4>1, <4>2 DEF HandlerType
        <4> QED  BY <2>3, <4>1, <4>2, <4>3
      <3>2. CASE ~Does(h, "insertCheckin")
        <4>1. PICK c \in CheckinsAt(w.place) : c.uid = w.owner /\ c.date <= w.date
          BY <2>1, <2>2, <2>3, <2>9, <3>2 DEF HandlerInv
        <4>2. c \in checkins' /\ c.place = v.place /\ c.date \in Nat
          BY <2>3, <4>1 DEF CheckinsAt, Grows, StoreInv, TablesType, CheckinType
        <4>3. c.date <= v.date
          BY <2>1, <2>5, <4>1, <4>2 DEF HandlerType
        <4> QED  BY <2>3, <4>1, <4>2, <4>3
      <3> QED  BY <3>1, <3>2
    <2> QED  BY <2>3, <2>6, <2>7, <2>8, <2>9 DEF HandlerInv, CheckinsAt
  <1> QED  BY <1>1, <1>2

(* What a step that concerns one handler keeps. *)
LEMMA PostsKept ==
    ASSUME StoreInv, TablesType', Grows, NEW h \in Handlers, OnlyHandler(h), posts' = posts,
           handler'[h].postID \in {0, handler[h].postID, lastPostID + 1}
    PROVE  PostsInv'
  <1>1. lastPostID \in Nat /\ lastPostID' \in Nat /\ now \in Nat /\ now' \in Nat /\ FirstTime \in Nat
    BY FeedAssumption DEF StoreInv, TablesType
  <1>2. \A k \in Handlers : handler[k].postID \in Nat /\ handler[k].postID <= lastPostID
    BY DEF StoreInv, TablesType, HandlerType, HandlerInv
  <1>3. \A p \in posts : p.id \in Nat /\ p.id <= lastPostID /\ p.date \in Nat /\ FirstTime <= p.date /\ p.date <= now
    BY DEF StoreInv, TablesType, PostType, PostsInv
  <1>4. \A k \in Handlers \ {h} : handler'[k] = handler[k]
    BY DEF OnlyHandler, StoreInv, TablesType
  <1>5. IsFiniteSet(posts') /\ now' >= FirstTime /\ \A p, q \in posts' : p.id = q.id => p = q
    BY <1>1 DEF StoreInv, PostsInv, Grows
  <1>6. \A p \in posts' : p.id <= lastPostID' /\ FirstTime <= p.date /\ p.date <= now'
    BY <1>1, <1>3 DEF Grows
  <1>7. ASSUME NEW k \in Handlers, handler'[k].postID # 0
        PROVE  /\ \A p \in posts' : p.id # handler'[k].postID
               /\ \A l \in Handlers \ {k} : handler'[l].postID # handler'[k].postID
    <2>1. CASE handler'[h].postID = lastPostID + 1
      BY <1>1, <1>2, <1>3, <1>4, <1>7, <2>1 DEF StoreInv, PostsInv
    <2>2. CASE handler'[h].postID \in {0, handler[h].postID}
      BY <1>4, <1>7, <2>2 DEF StoreInv, PostsInv
    <2> QED  BY <2>1, <2>2
  <1> QED  BY <1>5, <1>6, <1>7 DEF PostsInv

LEMMA PlacedKept ==
    ASSUME StoreInv, Grows, posts' = posts
    PROVE  PlacedPostsHaveCheckins'
  BY DEF StoreInv, Grows, PlacedPostsHaveCheckins, CheckinsAt

LEMMA CountKept ==
    ASSUME StoreInv, checkins' = checkins, count' = count, stopped' = stopped,
           \A h \in Handlers :
              \/ handler'[h] = handler[h]
              \/ ~Does(h, "countCheckin") /\ ~Does(h, "countCheckin")'
    PROVE  CheckinsAreCounted'
  <1>1. ASSUME NEW p \in Places PROVE Between(p)' = Between(p) /\ CheckinsAt(p)' = CheckinsAt(p)
    BY DEF Between, Does, CheckinsAt
  <1>2. CheckinsAreCounted = \A p \in Places :
          count[p] + Cardinality(Between(p)) + stopped[p] = Cardinality(CheckinsAt(p))
    BY DEF CheckinsAreCounted, Between
  <1>3. CheckinsAreCounted' = \A p \in Places :
          count'[p] + Cardinality(Between(p)') + stopped'[p] = Cardinality(CheckinsAt(p)')
    BY DEF CheckinsAreCounted, Between
  <1> QED  BY <1>1, <1>2, <1>3 DEF StoreInv

(* The tables, the clock and the statement of one handler: StoreInv.       *)
LEMMA HandlerStep ==
    ASSUME StoreInv, TablesType', Grows, NEW h \in Handlers, OnlyHandler(h), posts' = posts,
           handler'[h].postID \in {0, handler[h].postID, lastPostID + 1},
           HandlerInv(h)', CheckinsInv', CheckinsAreCounted'
    PROVE  StoreInv'
  <1>1. \A k \in Handlers : HandlerInv(k)'
    BY OtherHandlers
  <1>2. PostsInv' /\ PlacedPostsHaveCheckins'
    BY PostsKept, PlacedKept
  <1> QED  BY <1>1, <1>2 DEF StoreInv

LEMMA StartStep ==
    ASSUME StoreInv, NEW h \in Handlers, NEW todo, NEW owner \in Users, NEW place, NEW geo,
           Starts(h, todo, owner, place, geo), Planned(todo, place, geo)
    PROVE  StoreInv'
  <1> DEFINE w == [NoHandler EXCEPT !.todo = todo, !.owner = owner, !.place = place, !.geo = geo]
  <1>1. /\ w \in HandlerType /\ w.todo = todo /\ w.place = place /\ w.geo = geo /\ w.date = 0 /\ w.postID = 0
    BY NobodyType DEF Planned, HandlerType
  <1>2. handler' = [handler EXCEPT ![h] = w] /\ handler'[h] = w
    BY DEF Starts, StoreInv, TablesType
  <1>3. /\ posts' = posts /\ lastPostID' = lastPostID /\ places' = places /\ count' = count
        /\ checkins' = checkins /\ now' = now /\ stopped' = stopped
    BY DEF Starts, tables
  <1> HIDE DEF w
  <1>4. TablesType' /\ OnlyHandler(h)
    BY <1>1, <1>2, <1>3 DEF StoreInv, TablesType, OnlyHandler
  <1>5. Grows
    BY <1>3 DEF Grows, StoreInv, TablesType
  <1>6. HandlerInv(h)'
    <2>1. handler'[h].date <= now' /\ handler'[h].postID <= lastPostID'
      BY <1>1, <1>2, <1>4 DEF TablesType
    <2>2. \A s : Coming(h, s)' <=> Has(todo, s)
      BY <1>1, <1>2 DEF Coming
    <2> QED  BY <1>1, <1>2, <1>3, <2>1, <2>2 DEF HandlerInv, Planned
  <1>7. CheckinsAreCounted'
    <2>1. ~Does(h, "countCheckin") /\ ~Does(h, "countCheckin")'
      BY <1>1, <1>2 DEF Does, Starts, Planned
    <2>2. \A k \in Handlers \ {h} : handler'[k] = handler[k]
      BY <1>2 DEF StoreInv, TablesType
    <2> QED  BY <1>3, <2>1, <2>2, CountKept
  <1>8. CheckinsInv'
    BY <1>3 DEF StoreInv, CheckinsInv
  <1> QED  BY <1>1, <1>2, <1>3, <1>4, <1>5, <1>6, <1>7, <1>8, HandlerStep

(* now() and nextID. *)
LEMMA ReadStep ==
    ASSUME StoreInv, NEW h \in Handlers, Now(h) \/ NextPostID(h)
    PROVE  StoreInv'
  <1> DEFINE d == IF Does(h, "now") THEN now ELSE Done(h).date
             i == IF Does(h, "nextPostID") THEN lastPostID + 1 ELSE Done(h).postID
             w == [Done(h) EXCEPT !.date = d, !.postID = i]
  <1>1. /\ handler[h].todo # <<>> /\ ~Does(h, "countCheckin") /\ ~Does(h, "insertCheckin") /\ ~Does(h, "addPlace")
        /\ Head(handler[h].todo) # "insertCheckin"
    BY DEF Now, NextPostID, Does
  <1>2. /\ Done(h) \in HandlerType /\ Done(h).todo = Tail(handler[h].todo)
        /\ Tail(handler[h].todo) = <<>> => Done(h) = NoHandler
        /\ Tail(handler[h].todo) # <<>> => Done(h) = [handler[h] EXCEPT !.todo = Tail(handler[h].todo)]
    BY <1>1, DoneFacts DEF StoreInv
  <1>3. /\ handler[h] \in HandlerType /\ now \in Nat /\ lastPostID \in Nat
        /\ handler[h].date <= now /\ handler[h].postID <= lastPostID
    BY DEF StoreInv, TablesType, HandlerInv
  <1>4. /\ posts' = posts /\ places' = places /\ count' = count /\ checkins' = checkins
        /\ now' = now /\ stopped' = stopped
        /\ lastPostID' = IF Does(h, "nextPostID") THEN lastPostID + 1 ELSE lastPostID
    BY DEF Now, NextPostID, tables, Does
  <1>5. handler' = [handler EXCEPT ![h] = w]
    <2>1. CASE Now(h)
      <3>1. Does(h, "now") /\ ~Does(h, "nextPostID")
        BY <2>1 DEF Now, Does
      <3>2. w = [Done(h) EXCEPT !.date = now]
        BY <1>2, <3>1 DEF HandlerType
      <3> QED  BY <2>1, <3>2 DEF Now
    <2>2. CASE NextPostID(h)
      <3>1. Does(h, "nextPostID") /\ ~Does(h, "now")
        BY <2>2 DEF NextPostID, Does
      <3>2. w = [Done(h) EXCEPT !.postID = lastPostID + 1]
        BY <1>2, <3>1 DEF HandlerType
      <3> QED  BY <2>2, <3>2 DEF NextPostID
    <2> QED  BY <2>1, <2>2
  <1>6. /\ w \in HandlerType /\ w.todo = Tail(handler[h].todo) /\ w.date = d /\ w.postID = i
        /\ w.owner = Done(h).owner /\ w.place = Done(h).place /\ w.geo = Done(h).geo
    <2>1. d \in Nat /\ i \in Nat
      BY <1>2, <1>3 DEF HandlerType
    <2> HIDE DEF d, i
    <2> QED  BY <1>2, <2>1 DEF HandlerType
  <1>7. d <= now' /\ i <= lastPostID' /\ i \in {0, handler[h].postID, lastPostID + 1}
    <2>1. Done(h).date \in {0, handler[h].date} /\ Done(h).postID \in {0, handler[h].postID}
      BY <1>2, <1>3, NobodyType DEF HandlerType
    <2>2. handler[h].date \in Nat /\ handler[h].postID \in Nat
      BY <1>3 DEF HandlerType
    <2> QED  BY <1>3, <1>4, <2>1, <2>2
  <1>8. /\ handler'[h] = w /\ \A k \in Handlers \ {h} : handler'[k] = handler[k]
    BY <1>5 DEF StoreInv, TablesType
  <1>9. Tail(handler[h].todo) # <<>> =>
           /\ w.owner = handler[h].owner /\ w.place = handler[h].place /\ w.geo = handler[h].geo
           /\ IF Does(h, "now") THEN d = now ELSE d = handler[h].date
           /\ IF Does(h, "nextPostID") THEN i # 0 ELSE i = handler[h].postID
    BY <1>2, <1>3 DEF HandlerType
  <1> HIDE DEF w, d, i
  <1>10. TablesType' /\ OnlyHandler(h) /\ Grows
    BY <1>3, <1>4, <1>5, <1>6, <1>8 DEF StoreInv, TablesType, OnlyHandler, Grows
  <1>11. HandlerInv(h)'
    BY <1>1, <1>6, <1>7, <1>8, <1>9, <1>10, DidOne
  <1>12. CheckinsAreCounted'
    <2>1. InPairs(handler[h].todo) /\ handler[h].todo \in Seq(StatementNames)
      BY <1>3 DEF StoreInv, HandlerInv, HandlerType
    <2>2. ~Does(h, "countCheckin")'
      <3>1. Tail(handler[h].todo) # <<>> => Head(Tail(handler[h].todo)) # "countCheckin"
        BY <1>1, <2>1, OneStatement
      <3> QED  BY <1>6, <1>8, <3>1 DEF Does
    <2> QED  BY <1>1, <1>4, <1>8, <2>2, CountKept
  <1>13. CheckinsInv'
    BY <1>4 DEF StoreInv, CheckinsInv
  <1> QED  BY <1>4, <1>6, <1>7, <1>8, <1>10, <1>11, <1>12, <1>13, HandlerStep

LEMMA GoesOnFacts ==
    ASSUME StoreInv, NEW h \in Handlers, handler[h].todo # <<>>, GoesOn(h)
    PROVE  /\ handler' \in [Handlers -> HandlerType] /\ OnlyHandler(h)
           /\ \A k \in Handlers \ {h} : handler'[k] = handler[k]
           /\ handler'[h].todo = Tail(handler[h].todo)
           /\ handler'[h].date <= now /\ handler'[h].postID <= lastPostID
           /\ handler'[h].postID \in {0, handler[h].postID}
           /\ Tail(handler[h].todo) = <<>> => handler'[h].postID = 0
           /\ Tail(handler[h].todo) # <<>> =>
                 /\ handler'[h].owner = handler[h].owner /\ handler'[h].place = handler[h].place
                 /\ handler'[h].geo = handler[h].geo
                 /\ handler'[h].date = handler[h].date /\ handler'[h].postID = handler[h].postID
           /\ Does(h, "countCheckin")' <=> Does(h, "insertCheckin")
  <1>1. /\ handler \in [Handlers -> HandlerType] /\ handler[h] \in HandlerType /\ now \in Nat /\ lastPostID \in Nat
        /\ handler[h].date <= now /\ handler[h].postID <= lastPostID
        /\ InPairs(handler[h].todo) /\ handler[h].todo \in Seq(StatementNames)
    BY DEF StoreInv, TablesType, HandlerInv, HandlerType
  <1>2. /\ Done(h) \in HandlerType /\ Done(h).todo = Tail(handler[h].todo)
        /\ Tail(handler[h].todo) = <<>> => Done(h) = NoHandler
        /\ Tail(handler[h].todo) # <<>> => Done(h) = [handler[h] EXCEPT !.todo = Tail(handler[h].todo)]
    BY DoneFacts DEF StoreInv
  <1>3. /\ handler'[h] = Done(h) /\ handler' \in [Handlers -> HandlerType] /\ OnlyHandler(h)
        /\ \A k \in Handlers \ {h} : handler'[k] = handler[k]
    BY <1>1, <1>2 DEF GoesOn, OnlyHandler
  <1>4. Tail(handler[h].todo) # <<>> =>
           /\ Done(h).owner = handler[h].owner /\ Done(h).place = handler[h].place /\ Done(h).geo = handler[h].geo
           /\ Done(h).date = handler[h].date /\ Done(h).postID = handler[h].postID
    BY <1>1, <1>2 DEF HandlerType
  <1>5. Tail(handler[h].todo) = <<>> => Done(h).date = 0 /\ Done(h).postID = 0
    BY <1>2, NobodyType
  <1>6. Does(h, "countCheckin")' <=> Does(h, "insertCheckin")
    <2>1. /\ Head(handler[h].todo) = "insertCheckin" =>
                Tail(handler[h].todo) # <<>> /\ Head(Tail(handler[h].todo)) = "countCheckin"
          /\ Tail(handler[h].todo) # <<>> /\ Head(Tail(handler[h].todo)) = "countCheckin" =>
                Head(handler[h].todo) = "insertCheckin"
      BY <1>1, OneStatement
    <2> QED  BY <1>2, <1>3, <2>1 DEF Does
  <1> QED  BY <1>1, <1>2, <1>3, <1>4, <1>5, <1>6

LEMMA AddPlaceStep ==
    ASSUME StoreInv, NEW h \in Handlers, AddPlace(h)
    PROVE  StoreInv'
  <1>1. /\ handler[h].todo # <<>> /\ GoesOn(h) /\ Does(h, "addPlace")
        /\ ~Does(h, "now") /\ ~Does(h, "nextPostID") /\ ~Does(h, "insertCheckin") /\ ~Does(h, "countCheckin")
        /\ posts' = posts /\ lastPostID' = lastPostID /\ count' = count /\ checkins' = checkins
        /\ now' = now /\ stopped' = stopped /\ places' = places \cup {handler[h].place}
    BY DEF AddPlace, Does
  <1>2. handler[h].place \in Places
    <2>1. Coming(h, "addPlace")
      <3>1. handler[h].todo \in Seq(StatementNames)
        BY DEF StoreInv, TablesType, HandlerType
      <3> QED  BY <1>1, <3>1, OneStatement DEF Coming, Does
    <2> QED  BY <2>1 DEF StoreInv, HandlerInv
  <1>3. TablesType' /\ Grows /\ OnlyHandler(h)
    <2>1. handler' \in [Handlers -> HandlerType] /\ OnlyHandler(h)
      BY <1>1, GoesOnFacts
    <2> QED  BY <1>1, <1>2, <2>1 DEF StoreInv, TablesType, Grows
  <1>4. HandlerInv(h)'
    BY <1>1, <1>3, GoesOnFacts, DidOne
  <1>5. CheckinsAreCounted' /\ CheckinsInv'
    <2>1. CheckinsInv'
      BY <1>1 DEF StoreInv, CheckinsInv
    <2> QED  BY <1>1, <2>1, GoesOnFacts, CountKept
  <1> QED  BY <1>1, <1>3, <1>4, <1>5, GoesOnFacts, HandlerStep

LEMMA InsertCheckinStep ==
    ASSUME StoreInv, NEW h \in Handlers, InsertCheckin(h)
    PROVE  StoreInv'
  <1> DEFINE w == handler[h]
             c == [nr |-> Cardinality(checkins), uid |-> w.owner, place |-> w.place, date |-> w.date]
  <1>1. /\ w.todo # <<>> /\ GoesOn(h) /\ Does(h, "insertCheckin")
        /\ ~Does(h, "now") /\ ~Does(h, "nextPostID") /\ ~Does(h, "addPlace") /\ ~Does(h, "countCheckin")
        /\ posts' = posts /\ lastPostID' = lastPostID /\ count' = count /\ places' = places
        /\ now' = now /\ stopped' = stopped /\ checkins' = checkins \cup {c}
    BY DEF InsertCheckin, Does
  <1>2. w.place \in Places /\ w \in HandlerType
    <2>1. Coming(h, "insertCheckin")
      <3>1. handler[h].todo \in Seq(StatementNames)
        BY DEF StoreInv, TablesType, HandlerType
      <3> QED  BY <1>1, <3>1, OneStatement DEF Coming, Does
    <2> QED  BY <2>1 DEF StoreInv, HandlerInv, TablesType
  <1>3. /\ IsFiniteSet(checkins) /\ Cardinality(checkins) \in Nat /\ c \notin checkins
        /\ IsFiniteSet(checkins \cup {c}) /\ Cardinality(checkins \cup {c}) = Cardinality(checkins) + 1
    <2>1. IsFiniteSet(checkins) /\ Cardinality(checkins) \in Nat
      BY FS_CardinalityType DEF StoreInv, TablesType
    <2>2. c.nr = Cardinality(checkins)
      OBVIOUS
    <2> HIDE DEF c
    <2>3. c \notin checkins
      BY <2>1, <2>2 DEF StoreInv, CheckinsInv
    <2> QED  BY <2>1, <2>3, FS_AddElement
  <1>4. /\ c \in CheckinType /\ c.nr = Cardinality(checkins)
        /\ c.place = w.place /\ c.uid = w.owner /\ c.date = w.date
    BY <1>2, <1>3 DEF CheckinType, HandlerType
  <1> HIDE DEF c
  <1>5. TablesType' /\ Grows /\ OnlyHandler(h)
    <2>1. handler' \in [Handlers -> HandlerType] /\ OnlyHandler(h)
      BY <1>1, GoesOnFacts
    <2> QED  BY <1>1, <1>3, <1>4, <2>1 DEF StoreInv, TablesType, Grows
  <1>6. HandlerInv(h)'
    <2>1. w.date \in Nat
      BY <1>2 DEF HandlerType
    <2>2. \E d \in checkins' : d.place = w.place /\ d.uid = w.owner /\ d.date <= w.date
      BY <1>1, <1>4, <2>1
    <2> QED  BY <1>1, <1>5, <2>2, GoesOnFacts, DidOne
  <1>7. CheckinsInv'
    <2>1. \A d \in checkins : d.nr \in Nat /\ d.nr < Cardinality(checkins)
      BY DEF StoreInv, CheckinsInv, TablesType, CheckinType
    <2> QED  BY <1>1, <1>3, <1>4, <2>1 DEF CheckinsInv
  <1>8. CheckinsAreCounted'
    <2> SUFFICES ASSUME NEW p \in Places
                 PROVE  count'[p] + Cardinality(Between(p)') + stopped'[p] = Cardinality(CheckinsAt(p)')
      BY DEF CheckinsAreCounted, Between
    <2>1. /\ count[p] \in Nat
          /\ stopped[p] \in Nat
          /\ count[p] + Cardinality(Between(p)) + stopped[p] = Cardinality(CheckinsAt(p))
      BY DEF StoreInv, TablesType, CheckinsAreCounted, Between
    <2>2. IsFiniteSet(Between(p)) /\ IsFiniteSet(CheckinsAt(p))
      BY <1>3, FeedAssumption, FS_Subset DEF Between, CheckinsAt
    <2>3. Cardinality(Between(p)) \in Nat /\ Cardinality(CheckinsAt(p)) \in Nat
      BY <2>2, FS_CardinalityType
    <2>4. /\ Does(h, "countCheckin")' /\ handler'[h].place = w.place
          /\ \A k \in Handlers \ {h} : handler'[k] = handler[k]
      <3>1. Tail(w.todo) # <<>>
        <4>1. InPairs(w.todo) /\ w.todo \in Seq(StatementNames) /\ Head(w.todo) = "insertCheckin"
          BY <1>1, <1>2 DEF StoreInv, HandlerInv, HandlerType, Does
        <4> QED  BY <1>1, <4>1, OneStatement
      <3> QED  BY <1>1, <3>1, GoesOnFacts
    <2>5. CASE p = w.place
      <3>1. Between(p)' = Between(p) \cup {h} /\ h \notin Between(p)
        BY <1>1, <2>4, <2>5 DEF Between, Does
      <3>2. CheckinsAt(p)' = CheckinsAt(p) \cup {c} /\ c \notin CheckinsAt(p)
        BY <1>1, <1>3, <1>4, <2>5 DEF CheckinsAt
      <3>3. /\ Cardinality(Between(p)') = Cardinality(Between(p)) + 1
            /\ Cardinality(CheckinsAt(p)') = Cardinality(CheckinsAt(p)) + 1
        BY <2>2, <3>1, <3>2, FS_AddElement
      <3> QED  BY <1>1, <2>1, <2>3, <3>3
    <2>6. CASE p # w.place
      <3>1. Between(p)' = Between(p)
        BY <1>1, <2>4, <2>6 DEF Between, Does
      <3>2. CheckinsAt(p)' = CheckinsAt(p)
        BY <1>1, <1>4, <2>6 DEF CheckinsAt
      <3> QED  BY <1>1, <2>1, <3>1, <3>2
    <2> QED  BY <2>5, <2>6
  <1> QED  BY <1>1, <1>5, <1>6, <1>7, <1>8, GoesOnFacts, HandlerStep

LEMMA CountCheckinStep ==
    ASSUME StoreInv, NEW h \in Handlers, CountCheckin(h)
    PROVE  StoreInv'
  <1> DEFINE w == handler[h]
  <1>1. /\ w.todo # <<>> /\ GoesOn(h) /\ Does(h, "countCheckin")
        /\ ~Does(h, "now") /\ ~Does(h, "nextPostID") /\ ~Does(h, "addPlace") /\ ~Does(h, "insertCheckin")
        /\ posts' = posts /\ lastPostID' = lastPostID /\ checkins' = checkins /\ places' = places
        /\ now' = now /\ stopped' = stopped /\ count' = [count EXCEPT ![w.place] = @ + 1]
    BY DEF CountCheckin, Does
  <1>2. w.place \in Places
    <2>1. Coming(h, "countCheckin")
      <3>1. handler[h].todo \in Seq(StatementNames)
        BY DEF StoreInv, TablesType, HandlerType
      <3> QED  BY <1>1, <3>1, OneStatement DEF Coming, Does
    <2> QED  BY <2>1 DEF StoreInv, HandlerInv
  <1>3. TablesType' /\ Grows /\ OnlyHandler(h)
    <2>1. handler' \in [Handlers -> HandlerType] /\ OnlyHandler(h)
      BY <1>1, GoesOnFacts
    <2> QED  BY <1>1, <1>2, <2>1 DEF StoreInv, TablesType, Grows
  <1>4. HandlerInv(h)' /\ CheckinsInv'
    <2>1. CheckinsInv'
      BY <1>1 DEF StoreInv, CheckinsInv
    <2> QED  BY <1>1, <1>3, <2>1, GoesOnFacts, DidOne
  <1>5. CheckinsAreCounted'
    <2> SUFFICES ASSUME NEW p \in Places
                 PROVE  count'[p] + Cardinality(Between(p)') + stopped'[p] = Cardinality(CheckinsAt(p)')
      BY DEF CheckinsAreCounted, Between
    <2>1. /\ count[p] \in Nat
          /\ count'[p] = IF p = w.place THEN count[p] + 1 ELSE count[p]
          /\ stopped[p] \in Nat
          /\ count[p] + Cardinality(Between(p)) + stopped[p] = Cardinality(CheckinsAt(p))
      BY <1>1 DEF StoreInv, TablesType, CheckinsAreCounted, Between
    <2>2. IsFiniteSet(Between(p))
      BY FeedAssumption, FS_Subset DEF Between
    <2>3. Cardinality(Between(p)) \in Nat /\ Cardinality(CheckinsAt(p)') = Cardinality(CheckinsAt(p))
      BY <1>1, <2>2, FS_CardinalityType DEF CheckinsAt
    <2>4. /\ ~Does(h, "countCheckin")' /\ \A k \in Handlers \ {h} : handler'[k] = handler[k]
      BY <1>1, GoesOnFacts
    <2>5. Between(p)' = Between(p) \ {h} /\ (h \in Between(p) <=> p = w.place)
      BY <1>1, <2>4 DEF Between, Does
    <2>6. Cardinality(Between(p)') = IF p = w.place THEN Cardinality(Between(p)) - 1 ELSE Cardinality(Between(p))
      BY <2>2, <2>5, FS_RemoveElement
    <2> QED  BY <1>1, <2>1, <2>3, <2>6
  <1> QED  BY <1>1, <1>3, <1>4, <1>5, GoesOnFacts, HandlerStep

LEMMA GiveUpStep ==
    ASSUME StoreInv, NEW h \in Handlers, GiveUp(h)
    PROVE  StoreInv'
  <1> DEFINE w == handler[h]
  <1>1. /\ handler' = [handler EXCEPT ![h] = NoHandler]
        /\ stopped' = IF Does(h, "countCheckin") THEN [stopped EXCEPT ![w.place] = @ + 1] ELSE stopped
        /\ posts' = posts /\ lastPostID' = lastPostID /\ checkins' = checkins /\ places' = places
        /\ now' = now /\ count' = count /\ w.todo # <<>>
    BY DEF GiveUp, tables
  <1>2. /\ handler'[h] = NoHandler /\ \A k \in Handlers \ {h} : handler'[k] = handler[k]
    BY <1>1 DEF StoreInv, TablesType
  <1>3. Does(h, "countCheckin") => w.place \in Places
    <2>1. Does(h, "countCheckin") => Coming(h, "countCheckin")
      <3>1. handler[h].todo \in Seq(StatementNames)
        BY DEF StoreInv, TablesType, HandlerType
      <3> QED  BY <1>1, <3>1, OneStatement DEF Coming, Does
    <2> QED  BY <2>1 DEF StoreInv, HandlerInv
  <1>4. TablesType' /\ Grows /\ OnlyHandler(h)
    BY <1>1, <1>2, <1>3, NobodyType DEF StoreInv, TablesType, Grows, OnlyHandler
  <1>5. HandlerInv(h)'
    <2>1. /\ handler'[h].todo = <<>> /\ handler'[h].date <= now' /\ handler'[h].postID <= lastPostID'
      BY <1>2, <1>4, NobodyType DEF TablesType
    <2> QED  BY <2>1 DEF HandlerInv, InPairs, Coming, Has
  <1>6. CheckinsInv'
    BY <1>1 DEF StoreInv, CheckinsInv
  <1>7. CheckinsAreCounted'
    <2> SUFFICES ASSUME NEW p \in Places
                 PROVE  count'[p] + Cardinality(Between(p)') + stopped'[p] = Cardinality(CheckinsAt(p)')
      BY DEF CheckinsAreCounted, Between
    <2>1. /\ count[p] \in Nat /\ stopped[p] \in Nat /\ CheckinsAt(p)' = CheckinsAt(p)
          /\ count[p] + Cardinality(Between(p)) + stopped[p] = Cardinality(CheckinsAt(p))
      BY <1>1 DEF StoreInv, TablesType, CheckinsAreCounted, Between, CheckinsAt
    <2>2. /\ IsFiniteSet(Between(p)) /\ ~Does(h, "countCheckin")'
          /\ stopped'[p] = IF p = w.place /\ Does(h, "countCheckin") THEN stopped[p] + 1 ELSE stopped[p]
      BY <1>1, <1>2, <1>3, NobodyType, FeedAssumption, FS_Subset DEF Between, Does, StoreInv, TablesType
    <2>3. Between(p)' = Between(p) \ {h} /\ (h \in Between(p) <=> p = w.place /\ Does(h, "countCheckin"))
      BY <1>2, <2>2 DEF Between, Does
    <2>4. /\ Cardinality(Between(p)) \in Nat
          /\ Cardinality(Between(p)') = IF h \in Between(p) THEN Cardinality(Between(p)) - 1
                                        ELSE Cardinality(Between(p))
      BY <2>2, <2>3, FS_RemoveElement, FS_CardinalityType
    <2> QED  BY <1>1, <2>1, <2>2, <2>3, <2>4
  <1> QED  BY <1>1, <1>2, <1>4, <1>5, <1>6, <1>7, NobodyType, HandlerStep

LEMMA CreatePostStep ==
    ASSUME StoreInv, NEW h \in Handlers, CreatePost(h)
    PROVE  StoreInv'
  <1> DEFINE w == handler[h]
             new == [id |-> w.postID, owner |-> w.owner, date |-> w.date,
                     place |-> w.place, geo |-> w.geo, deleted |-> FALSE]
  <1>1. /\ w.todo # <<>> /\ GoesOn(h) /\ Does(h, "createPost")
        /\ ~Does(h, "now") /\ ~Does(h, "nextPostID") /\ ~Does(h, "addPlace")
        /\ ~Does(h, "insertCheckin") /\ ~Does(h, "countCheckin")
        /\ posts' = posts \cup {new} /\ lastPostID' = lastPostID /\ checkins' = checkins /\ places' = places
        /\ now' = now /\ stopped' = stopped /\ count' = count
    BY DEF CreatePost, Does
  <1>2. /\ w \in HandlerType /\ w.todo \in Seq(StatementNames) /\ HandlerInv(h)
        /\ now \in Nat /\ lastPostID \in Nat /\ FirstTime \in Nat
    BY FeedAssumption DEF StoreInv, TablesType, HandlerType
  <1>3. /\ Tail(w.todo) = <<>> /\ Coming(h, "createPost") /\ \A s : Coming(h, s) => s = "createPost"
    <2>1. /\ Head(w.todo) = "createPost" /\ InPairs(w.todo)
      BY <1>1, <1>2 DEF Does, HandlerInv
    <2>2. Tail(w.todo) = <<>> /\ \A s : Has(w.todo, s) <=> Head(w.todo) = s \/ Has(Tail(w.todo), s)
      BY <1>1, <1>2, <2>1, OneStatement
    <2>3. \A s : ~Has(<<>>, s)
      BY DEF Has
    <2> QED  BY <2>1, <2>2, <2>3 DEF Coming
  <1>4. /\ w.date >= FirstTime /\ w.postID # 0 /\ w.date <= now /\ w.postID <= lastPostID
        /\ w.geo =>
              /\ w.place \in places
              /\ \E c \in CheckinsAt(w.place) : c.uid = w.owner /\ c.date <= w.date
    BY <1>2, <1>3 DEF HandlerInv
  <1>5. /\ new \in PostType /\ new.id = w.postID /\ new.date = w.date /\ new.owner = w.owner /\ new.place = w.place
        /\ new.geo = w.geo
    BY <1>2 DEF PostType, HandlerType
  <1> HIDE DEF new
  <1>6. TablesType' /\ Grows /\ OnlyHandler(h)
    <2>1. handler' \in [Handlers -> HandlerType] /\ OnlyHandler(h)
      BY <1>1, GoesOnFacts
    <2> QED  BY <1>1, <1>5, <2>1 DEF StoreInv, TablesType, Grows
  <1>7. HandlerInv(h)'
    BY <1>1, <1>6, GoesOnFacts, DidOne
  <1>8. \A k \in Handlers : HandlerInv(k)'
    BY <1>6, <1>7, OtherHandlers
  <1>9. CheckinsAreCounted' /\ CheckinsInv'
    <2>1. CheckinsInv'
      BY <1>1 DEF StoreInv, CheckinsInv
    <2> QED  BY <1>1, <2>1, GoesOnFacts, CountKept
  <1>10. PlacedPostsHaveCheckins'
    <2>1. \A p : CheckinsAt(p)' = CheckinsAt(p)
      BY <1>1 DEF CheckinsAt
    <2>2. \A q \in posts : q.geo =>
             q.place \in places /\ \E c \in CheckinsAt(q.place) : c.uid = q.owner /\ c.date <= q.date
      BY DEF StoreInv, PlacedPostsHaveCheckins
    <2>3. new.geo =>
             new.place \in places /\ \E c \in CheckinsAt(new.place) : c.uid = new.owner /\ c.date <= new.date
      BY <1>4, <1>5
    <2> QED  BY <1>1, <2>1, <2>2, <2>3 DEF PlacedPostsHaveCheckins
  <1>11. PostsInv'
    <2>1. /\ handler'[h].postID = 0 /\ \A k \in Handlers \ {h} : handler'[k] = handler[k]
      BY <1>1, <1>3, GoesOnFacts
    <2>2. IsFiniteSet(posts')
      BY <1>1, FS_AddElement DEF StoreInv, PostsInv
    <2>3. /\ \A p \in posts : p.id <= lastPostID /\ FirstTime <= p.date /\ p.date <= now
          /\ \A p \in posts : p.id # w.postID
          /\ \A p, q \in posts : p.id = q.id => p = q
          /\ \A k \in Handlers \ {h} : handler[k].postID # w.postID
          /\ now >= FirstTime
      BY <1>4 DEF StoreInv, PostsInv
    <2>4. \A k \in Handlers : handler'[k].postID # 0 =>
             /\ \A p \in posts' : p.id # handler'[k].postID
             /\ \A l \in Handlers \ {k} : handler'[l].postID # handler'[k].postID
      BY <1>1, <1>5, <2>1, <2>3 DEF StoreInv, PostsInv
    <2>5. \A p \in posts' : p.id <= lastPostID /\ FirstTime <= p.date /\ p.date <= now
      BY <1>1, <1>2, <1>4, <1>5, <2>3
    <2>6. \A p, q \in posts' : p.id = q.id => p = q
      BY <1>1, <1>5, <2>3
    <2> QED  BY <1>1, <2>2, <2>3, <2>4, <2>5, <2>6 DEF PostsInv
  <1> QED  BY <1>6, <1>8, <1>9, <1>10, <1>11 DEF StoreInv

LEMMA DeletePostStep ==
    ASSUME StoreInv, NEW p \in posts, DeletePost(p)
    PROVE  StoreInv'
  <1> DEFINE gone == [p EXCEPT !.deleted = TRUE]
  <1>1. /\ lastPostID' = lastPostID /\ checkins' = checkins /\ places' = places
        /\ now' = now /\ stopped' = stopped /\ count' = count /\ handler' = handler
    BY DEF DeletePost
  <1>2. /\ p \in PostType /\ gone \in PostType /\ gone.id = p.id /\ gone.owner = p.owner /\ gone.date = p.date
        /\ gone.place = p.place /\ gone.geo = p.geo
    BY DEF StoreInv, TablesType, PostType
  <1>3. posts' = (posts \ {p}) \cup {gone}
    BY DEF DeletePost
  <1> HIDE DEF gone
  <1>4. TablesType'
    BY <1>1, <1>2, <1>3 DEF StoreInv, TablesType
  <1>5. PostsInv'
    <2>1. IsFiniteSet(posts')
      BY <1>3, FS_AddElement, FS_RemoveElement DEF StoreInv, PostsInv
    <2>2. \A q \in posts' : q.id <= lastPostID /\ FirstTime <= q.date /\ q.date <= now
      BY <1>2, <1>3 DEF StoreInv, PostsInv
    <2>3. \A q, s \in posts' : q.id = s.id => q = s
      BY <1>2, <1>3 DEF StoreInv, PostsInv
    <2>4. \A h \in Handlers : handler[h].postID # 0 => \A q \in posts' : q.id # handler[h].postID
      BY <1>2, <1>3 DEF StoreInv, PostsInv
    <2> QED  BY <1>1, <2>1, <2>2, <2>3, <2>4 DEF StoreInv, PostsInv
  <1>6. PlacedPostsHaveCheckins'
    <2>1. \A q : CheckinsAt(q)' = CheckinsAt(q)
      BY <1>1 DEF CheckinsAt
    <2> QED  BY <1>1, <1>2, <1>3, <2>1 DEF StoreInv, PlacedPostsHaveCheckins
  <1>7. CheckinsAreCounted' /\ CheckinsInv' /\ \A h \in Handlers : HandlerInv(h)'
    <2>1. CheckinsInv' /\ \A h \in Handlers : HandlerInv(h)'
      BY <1>1 DEF StoreInv, CheckinsInv, HandlerInv, Coming, CheckinsAt
    <2> QED  BY <1>1, <2>1, CountKept
  <1> QED  BY <1>4, <1>5, <1>6, <1>7 DEF StoreInv

(* Steps of the clock, the reader and the friends. *)
LEMMA NoWrite ==
    ASSUME StoreInv, now' \in Nat, now <= now',
           UNCHANGED <<posts, lastPostID, places, count, checkins, handler, stopped>>
    PROVE  StoreInv'
  <1>1. TablesType' /\ Grows
    BY DEF StoreInv, TablesType, Grows
  <1>2. PostsInv'
    <2>1. \A p \in posts : p.date \in Nat /\ p.date <= now'
      BY DEF StoreInv, TablesType, PostType, PostsInv
    <2>2. now' >= FirstTime
      BY FeedAssumption DEF StoreInv, TablesType, PostsInv
    <2> QED  BY <2>1, <2>2 DEF StoreInv, PostsInv
  <1>3. \A h \in Handlers : HandlerInv(h)'
    <2>1. \A h \in Handlers : handler[h].date <= now'
      BY DEF StoreInv, TablesType, HandlerType, HandlerInv
    <2> QED  BY <2>1 DEF StoreInv, HandlerInv, Coming, CheckinsAt
  <1>4. CheckinsInv' /\ PlacedPostsHaveCheckins'
    BY <1>1, PlacedKept DEF StoreInv, CheckinsInv
  <1>5. CheckinsAreCounted'
    BY CountKept
  <1> QED  BY <1>1, <1>2, <1>3, <1>4, <1>5 DEF StoreInv

LEMMA StoreStarts == FeedInit => StoreInv
  <1> SUFFICES ASSUME FeedInit PROVE StoreInv
    OBVIOUS
  <1>1. TablesType /\ CheckinsInv
    BY FeedAssumption, NobodyType, FS_EmptySet DEF FeedInit, TablesType, CheckinsInv
  <1>2. PostsInv
    BY FeedAssumption, NobodyType, FS_EmptySet DEF FeedInit, PostsInv
  <1>3. \A h \in Handlers : HandlerInv(h)
    BY <1>1, FeedAssumption, NobodyType, NothingToDo DEF FeedInit, TablesType
  <1>4. PlacedPostsHaveCheckins
    BY DEF FeedInit, PlacedPostsHaveCheckins
  <1>5. CheckinsAreCounted
    <2> SUFFICES ASSUME NEW p \in Places
                 PROVE  count[p] + Cardinality(Between(p)) + stopped[p] = Cardinality(CheckinsAt(p))
      BY DEF CheckinsAreCounted, Between
    <2>1. Between(p) = {} /\ CheckinsAt(p) = {} /\ count[p] = 0 /\ stopped[p] = 0
      BY NobodyType DEF FeedInit, Between, Does, CheckinsAt
    <2> QED  BY <2>1, FS_EmptySet
  <1> QED  BY <1>1, <1>2, <1>3, <1>4, <1>5 DEF StoreInv

LEMMA StoreStep == StoreInv /\ [FeedNext]_feedVars => StoreInv'
  <1> SUFFICES ASSUME StoreInv, [FeedNext]_feedVars PROVE StoreInv'
    OBVIOUS
  <1>1. ASSUME NEW h \in Handlers, Request(h) PROVE StoreInv'
    <2>1. CASE Post(h)
      <3>1. PICK owner \in Users, place \in Places \cup {NoPlace} :
               Starts(h, wallPost, owner, place, FALSE) \/ Starts(h, handlePost, owner, place, FALSE)
        BY <2>1 DEF Post
      <3> QED  BY <3>1, PostsArePlanned, StartStep
    <2>2. CASE Checkin(h)
      <3>1. PICK owner \in Users, p \in Places :
               \/ p \in places /\ Starts(h, placesCheckin, owner, p, TRUE)
               \/ p \in places \cup NewPlaces /\ Starts(h, handleCheckin(p \notin places), owner, p, TRUE)
        BY <2>2 DEF Checkin
      <3> QED  BY <3>1, CheckinsArePlanned, StartStep
    <2>3. CASE AddsPlace(h)
      <3>1. PICK p \in Places : Starts(h, placesAdd, Reader, p, FALSE)
        BY <2>3 DEF AddsPlace, NewPlaces
      <3> QED  BY <3>1, CheckinsArePlanned, StartStep, FeedAssumption
    <2> QED  BY <1>1, <2>1, <2>2, <2>3 DEF Request
  <1>2. ASSUME NEW h \in Handlers, Execute(h) PROVE StoreInv'
    BY <1>2, ReadStep, CreatePostStep, AddPlaceStep, InsertCheckinStep, CountCheckinStep, GiveUpStep DEF Execute
  <1>3. ASSUME NEW p \in posts, DeletePost(p) PROVE StoreInv'
    BY <1>3, DeletePostStep
  <1>4. ASSUME Read \/ Tick \/ (\E u \in Users : SetFriends(u)) \/ UNCHANGED feedVars PROVE StoreInv'
    <2>1. now \in Nat
      BY DEF StoreInv, TablesType
    <2>2. /\ now' \in Nat /\ now <= now'
          /\ UNCHANGED <<posts, lastPostID, places, count, checkins, handler, stopped>>
      BY <1>4, <2>1 DEF Read, Reads, handleFeed, newsfeedGet, wallGet, Tick, SetFriends, feedVars, tables
    <2> QED  BY <2>2, NoWrite
  <1> QED  BY <1>1, <1>2, <1>3, <1>4 DEF FeedNext

LEMMA StoreHolds == FeedSpec => []StoreInv
  <1> QED  BY StoreStarts, StoreStep, PTL DEF FeedSpec

(* Over every interleaving of any number of handlers, with failures and    *)
(* kills between any two statements: a place counts its check-ins, and the *)
(* handlers between the two statements, with those that were stopped there,*)
(* make up the difference.                                                 *)
THEOREM CheckinsAlwaysCounted == FeedSpec => []CheckinsAreCounted
  <1>1. StoreInv => CheckinsAreCounted
    BY DEF StoreInv
  <1> QED  BY <1>1, StoreHolds, PTL

(* A post of a check-in is never without the check-in and the place,       *)
(* wherever a handler was stopped, and whatever places other posts name.   *)
THEOREM PlacedPostsAlwaysHaveCheckins == FeedSpec => []PlacedPostsHaveCheckins
  <1>1. StoreInv => PlacedPostsHaveCheckins
    BY DEF StoreInv
  <1> QED  BY <1>1, StoreHolds, PTL

-----------------------------------------------------------------------------
(* ORDER BY.  The induction theorems of the library cannot be used with a  *)
(* formula of ours; the well-founded order of the finite subsets can.      *)
LEMMA MinimalSet ==
    ASSUME NEW S, NEW F, F \subseteq FiniteSubsetsOf(S), F # {}
    PROVE  \E T \in F : \A U \in F : U \subseteq T => U = T
  <1>1. PICK T \in F : \A U \in F : ~ (<<U, T>> \in StrictSubsetOrdering(S))
    BY FS_StrictSubsetOrderingWellFounded, WFMin
  <1> QED  BY <1>1 DEF StrictSubsetOrdering, FiniteSubsetsOf

(* R orders S. *)
Orders(R, S) ==
    /\ \A x \in S : <<x, x>> \notin R
    /\ \A x, y \in S : x # y => <<x, y>> \in R \/ <<y, x>> \in R
    /\ \A x, y, z \in S : <<x, y>> \in R /\ <<y, z>> \in R => <<x, z>> \in R

InOrder(s, R) == \A i, j \in DOMAIN s : i < j => <<s[i], s[j]>> \in R

LEMMA FirstElement ==
    ASSUME NEW S, IsFiniteSet(S), S # {}, NEW R, Orders(R, S)
    PROVE  \E first \in S : \A x \in S : x # first => <<first, x>> \in R
  <1> DEFINE Ahead(x) == {y \in S : <<y, x>> \in R}
             F == {Ahead(x) : x \in S}
  <1>1. F \subseteq FiniteSubsetsOf(S)
    BY FS_Subset DEF FiniteSubsetsOf
  <1>2. PICK first \in S : \A x \in S : Ahead(x) \subseteq Ahead(first) => Ahead(x) = Ahead(first)
    <2>1. /\ F # {} /\ \A x \in S : Ahead(x) \in F
          /\ \A T \in F : \E x \in S : T = Ahead(x)
      OBVIOUS
    <2> HIDE DEF F, Ahead
    <2>2. PICK T \in F : \A U \in F : U \subseteq T => U = T
      BY <1>1, <2>1, MinimalSet
    <2> QED  BY <2>1, <2>2
  <1>3. ASSUME NEW x \in S, x # first PROVE <<first, x>> \in R
    <2>1. SUFFICES ASSUME <<x, first>> \in R PROVE FALSE
      BY <1>3 DEF Orders
    <2>2. Ahead(x) \subseteq Ahead(first)
      BY <2>1 DEF Orders
    <2>3. x \in Ahead(first) /\ x \notin Ahead(x)
      BY <2>1 DEF Orders
    <2> QED  BY <1>2, <2>2, <2>3
  <1> QED  BY <1>3

LEMMA OrderExists ==
    ASSUME NEW S, IsFiniteSet(S), NEW R, Orders(R, S)
    PROVE  \E s \in SetToSeqs(S) : InOrder(s, R)
  <1> DEFINE Sorted(T) == \E s \in SetToSeqs(T) : InOrder(s, R)
             F == {T \in SUBSET S : ~Sorted(T)}
  <1> HIDE DEF Sorted
  <1>1. SUFFICES ASSUME F # {} PROVE FALSE
    BY DEF Sorted
  <1>2. F \subseteq FiniteSubsetsOf(S)
    BY FS_Subset DEF FiniteSubsetsOf
  <1>3. PICK T \in F : \A U \in F : U \subseteq T => U = T
    <2> HIDE DEF F
    <2> QED  BY <1>1, <1>2, MinimalSet
  <1>4. T \subseteq S /\ ~Sorted(T) /\ IsFiniteSet(T)
    BY <1>2, <1>3 DEF FiniteSubsetsOf
  <1>5. T # {}
    <2>1. Sorted({})
      <3> DEFINE s == [i \in 1 .. 0 |-> 0]
      <3>1. Cardinality({}) = 0 /\ 1 .. 0 = {}
        BY FS_EmptySet
      <3>2. s \in SetToSeqs({})
        BY <3>1 DEF SetToSeqs
      <3>3. InOrder(s, R)
        BY DEF InOrder
      <3> QED  BY <3>2, <3>3 DEF Sorted
    <2> QED  BY <1>4, <2>1
  <1>6. Orders(R, T)
    BY <1>4 DEF Orders
  <1>7. PICK first \in T : \A x \in T : x # first => <<first, x>> \in R
    BY <1>4, <1>5, <1>6, FirstElement
  <1> DEFINE U == T \ {first}
             n == Cardinality(T)
  <1>8. n \in Nat /\ n # 0 /\ Cardinality(U) = n - 1 /\ IsFiniteSet(U)
    BY <1>4, <1>5, FS_CardinalityType, FS_EmptySet, FS_RemoveElement
  <1>9. Sorted(U)
    BY <1>3, <1>4
  <1>10. PICK s \in SetToSeqs(U) : InOrder(s, R)
    BY <1>9 DEF Sorted
  <1> HIDE DEF n, U
  <1>11. /\ s \in [1 .. n - 1 -> U] /\ \A i, j \in 1 .. n - 1 : i # j => s[i] # s[j]
         /\ \A i, j \in 1 .. n - 1 : i < j => <<s[i], s[j]>> \in R
    BY <1>8, <1>10 DEF SetToSeqs, InOrder
  <1> DEFINE t == [i \in 1 .. n |-> IF i = 1 THEN first ELSE s[i - 1]]
  <1>12. \A i \in 1 .. n : /\ i = 1 => t[i] = first
                           /\ i # 1 => i - 1 \in 1 .. n - 1 /\ t[i] = s[i - 1]
    BY <1>8
  <1>13. \A i \in 1 .. n - 1 : s[i] \in T /\ s[i] # first
    BY <1>11 DEF U
  <1>14. t \in [1 .. n -> T] /\ DOMAIN t = 1 .. n
    BY <1>12, <1>13
  <1> HIDE DEF t
  <1>15. \A i, j \in 1 .. n : i # j => t[i] # t[j]
    <2> SUFFICES ASSUME NEW i \in 1 .. n, NEW j \in 1 .. n, i # j PROVE t[i] # t[j]
      OBVIOUS
    <2>1. CASE i = 1 \/ j = 1
      BY <1>12, <1>13, <2>1
    <2>2. CASE i # 1 /\ j # 1
      <3>1. i - 1 # j - 1
        BY <1>8
      <3> QED  BY <1>11, <1>12, <2>2, <3>1
    <2> QED  BY <2>1, <2>2
  <1>16. \A i, j \in 1 .. n : i < j => <<t[i], t[j]>> \in R
    <2> SUFFICES ASSUME NEW i \in 1 .. n, NEW j \in 1 .. n, i < j PROVE <<t[i], t[j]>> \in R
      OBVIOUS
    <2>1. j # 1
      BY <1>8
    <2>2. CASE i = 1
      BY <1>7, <1>12, <1>13, <2>1, <2>2
    <2>3. CASE i # 1
      <3>1. i - 1 < j - 1
        BY <1>8
      <3> QED  BY <1>11, <1>12, <2>1, <2>3, <3>1
    <2> QED  BY <2>2, <2>3
  <1>17. t \in SetToSeqs(T) /\ InOrder(t, R)
    BY <1>14, <1>15, <1>16 DEF SetToSeqs, InOrder, n
  <1> QED  BY <1>4, <1>17 DEF Sorted

(* A sequence of all of S in order: the place of an element is told by how *)
(* many come before it.                                                    *)
LEMMA PlaceInOrder ==
    ASSUME NEW S, IsFiniteSet(S), NEW R, Orders(R, S), NEW s \in SetToSeqs(S), InOrder(s, R)
    PROVE  /\ s \in Seq(S) /\ Len(s) = Cardinality(S) /\ Cardinality(S) \in Nat
           /\ \A x \in S : \E i \in 1 .. Len(s) : s[i] = x
           /\ \A i \in 1 .. Len(s) : Cardinality({x \in S : <<x, s[i]>> \in R}) = i - 1
  <1> DEFINE n == Cardinality(S)
  <1>1. /\ n \in Nat /\ s \in [1 .. n -> S] /\ DOMAIN s = 1 .. n /\ \A i, j \in 1 .. n : i # j => s[i] # s[j]
        /\ \A i, j \in 1 .. n : i < j => <<s[i], s[j]>> \in R
    BY FS_CardinalityType DEF SetToSeqs, InOrder
  <1>2. s \in Seq(S) /\ Len(s) = n
    <2> HIDE DEF n
    <2> QED  BY <1>1
  <1>3. \A x \in S : \E i \in 1 .. n : s[i] = x
    <2>1. s \in Injection(1 .. n, S)
      BY <1>1 DEF Injection, IsInjective
    <2>2. IsFiniteSet(1 .. n) /\ Cardinality(1 .. n) = n
      BY <1>1, FS_Interval
    <2>3. s \in Surjection(1 .. n, S)
      BY <2>1, <2>2, FS_Injection
    <2> QED  BY <2>3 DEF Surjection
  <1>4. ASSUME NEW i \in 1 .. n PROVE Cardinality({x \in S : <<x, s[i]>> \in R}) = i - 1
    <2> DEFINE ahead == {x \in S : <<x, s[i]>> \in R}
               f == [j \in 1 .. i - 1 |-> s[j]]
    <2>1. f \in Bijection(1 .. i - 1, ahead)
      <3>1. \A j \in 1 .. i - 1 : j \in 1 .. n /\ j < i
        BY <1>1
      <3>2. f \in [1 .. i - 1 -> ahead]
        BY <1>1, <3>1
      <3>3. \A j, k \in 1 .. i - 1 : f[j] = f[k] => j = k
        BY <1>1, <3>1
      <3>4. ASSUME NEW x \in ahead PROVE \E j \in 1 .. i - 1 : f[j] = x
        <4>1. PICK j \in 1 .. n : s[j] = x
          BY <1>3
        <4>2. j < i
          <5> SUFFICES ASSUME ~ (j < i) PROVE FALSE
            OBVIOUS
          <5>1. <<s[j], s[i]>> \in R /\ s[j] \in S /\ s[i] \in S
            BY <1>1, <4>1
          <5>2. j # i
            BY <5>1 DEF Orders
          <5>3. <<s[i], s[j]>> \in R
            BY <1>1, <5>2
          <5> QED  BY <5>1, <5>3 DEF Orders
        <4>3. j \in 1 .. i - 1
          BY <1>1, <4>2
        <4> QED  BY <4>1, <4>3
      <3> QED  BY <3>2, <3>3, <3>4 DEF Bijection, Injection, Surjection, IsInjective
    <2> HIDE DEF f, ahead
    <2>2. IsFiniteSet(1 .. i - 1) /\ Cardinality(1 .. i - 1) = i - 1
      <3>1. i \in Nat /\ i >= 1 /\ 1 \in Int /\ i - 1 \in Int
        BY <1>1
      <3> QED  BY <3>1, FS_Interval
    <2>3. Cardinality(ahead) = Cardinality(1 .. i - 1)
      BY <2>1, <2>2, FS_Bijection DEF ExistsBijection
    <2> QED  BY <2>2, <2>3 DEF ahead
  <1> QED  BY <1>1, <1>2, <1>3, <1>4

-----------------------------------------------------------------------------
(* The pages.                                                              *)

SessionType ==
    [mode : {"none", "feed", "wall"}, by : {"below", "from", "offset"}, pages : Nat, end : Nat, start : Nat,
     offset : Nat, shown : Seq(PostType), cuts : SUBSET Nat, awaited : SUBSET PostType, removed : BOOLEAN,
     done : BOOLEAN]

Before(mode, p, q) == IF mode = "wall" THEN LaterFirst(p, q) ELSE NewerFirst(p, q)

(* The rows the next page of a session is cut from, and those before p.    *)
Rows(s) == {p \in Listed(s.mode) : InRange(s.end, s.start, p)}
Ahead(s, p) == {q \in Rows(s) : Before(s.mode, q, p)}

(* The posts that PagesShowTheRest gives up. *)
Excused(s, p) ==
    \/ p.date < s.start
    \/ s.by = "below" /\ p.date \in s.cuts
    \/ s.by = "offset" /\ s.removed

(* From below the last second: what was shown is in order, and the next    *)
(* page begins below the second of the last post.                          *)
OrderInv(s) ==
    s.by = "below" =>
        /\ \A i \in 1 .. Len(s.shown) - 1 : NewerFirst(s.shown[i], s.shown[i + 1])
        /\ \A i \in 1 .. Len(s.shown) : s.shown[i].date >= FirstTime
        /\ ~s.done /\ Len(s.shown) = 0 => s.end = 0
        /\ ~s.done /\ Len(s.shown) # 0 => s.end = s.shown[Len(s.shown)].date - 1

(* What is awaited and not given up is among                               *)
(* the rows of the next page, and behind its offset.                       *)
TurningInv(s) ==
    /\ s.mode = "wall" => s.by = "offset" /\ s.start = 0
    /\ s.by = "offset" => s.end = 0
    /\ s.by # "offset" => s.offset = 0
    /\ ~s.done => s.awaited \subseteq Listed(s.mode)
    /\ \A p \in s.awaited :
          \/ Excused(s, p)
          \/ ~s.done /\ InRange(s.end, s.start, p) /\ s.offset <= Cardinality(Ahead(s, p))
    /\ OrderInv(s)

SessionInv == TurningInv(session)

Sorted(s, mode, S) ==
    /\ s \in Seq(S) /\ Len(s) = Cardinality(S) /\ Cardinality(S) \in Nat
    /\ \A i, j \in 1 .. Len(s) : i < j => Before(mode, s[i], s[j])
    /\ \A x \in S : \E i \in 1 .. Len(s) : s[i] = x
    /\ \A i \in 1 .. Len(s) : Cardinality({x \in S : Before(mode, x, s[i])}) = i - 1

LEMMA BeforeOrders ==
    ASSUME StoreInv, NEW mode
    PROVE  /\ \A x \in posts : ~Before(mode, x, x)
           /\ \A x, y \in posts : x # y => Before(mode, x, y) \/ Before(mode, y, x)
           /\ \A x, y, z \in posts : Before(mode, x, y) /\ Before(mode, y, z) => Before(mode, x, z)
  <1>1. \A x \in posts : x.id \in Nat /\ x.date \in Nat
    BY DEF StoreInv, TablesType, PostType
  <1>2. \A x, y \in posts : x # y => x.id # y.id
    BY DEF StoreInv, PostsInv
  <1> QED  BY <1>1, <1>2 DEF Before, NewerFirst, LaterFirst

LEMMA RowsInOrder ==
    ASSUME StoreInv, NEW S \in SUBSET posts
    PROVE  /\ Sorted(OrderBy(S, NewerFirst), "feed", S)
           /\ Sorted(OrderBy(S, LaterFirst), "wall", S)
  <1>1. IsFiniteSet(S)
    BY FS_Subset DEF StoreInv, PostsInv
  <1>2. ASSUME NEW mode
        PROVE  /\ \E s \in SetToSeqs(S) : \A i, j \in DOMAIN s : i < j => Before(mode, s[i], s[j])
               /\ \A s \in SetToSeqs(S) :
                     (\A i, j \in DOMAIN s : i < j => Before(mode, s[i], s[j])) => Sorted(s, mode, S)
    <2> DEFINE R == {r \in S \X S : Before(mode, r[1], r[2])}
    <2>1. \A x, y : <<x, y>> \in R <=> x \in S /\ y \in S /\ Before(mode, x, y)
      OBVIOUS
    <2> HIDE DEF R
    <2>2. Orders(R, S)
      BY <2>1, BeforeOrders DEF Orders
    <2>3. ASSUME NEW s \in SetToSeqs(S)
          PROVE  InOrder(s, R) <=> \A i, j \in DOMAIN s : i < j => Before(mode, s[i], s[j])
      <3>1. \A i \in DOMAIN s : s[i] \in S
        BY DEF SetToSeqs
      <3> QED  BY <2>1, <3>1 DEF InOrder
    <2>4. ASSUME NEW s \in SetToSeqs(S), InOrder(s, R) PROVE Sorted(s, mode, S)
      <3>1. /\ s \in Seq(S) /\ Len(s) = Cardinality(S) /\ Cardinality(S) \in Nat
            /\ \A x \in S : \E i \in 1 .. Len(s) : s[i] = x
            /\ \A i \in 1 .. Len(s) : Cardinality({x \in S : <<x, s[i]>> \in R}) = i - 1
        BY <1>1, <2>2, <2>4, PlaceInOrder
      <3>2. ASSUME NEW i \in 1 .. Len(s) PROVE Cardinality({x \in S : Before(mode, x, s[i])}) = i - 1
        <4>1. s[i] \in S
          BY <3>1
        <4>2. {x \in S : <<x, s[i]>> \in R} = {x \in S : Before(mode, x, s[i])}
          BY <2>1, <4>1
        <4> QED  BY <3>1, <4>2
      <3>3. \A i, j \in 1 .. Len(s) : i < j => Before(mode, s[i], s[j])
        BY <2>3, <2>4, <3>1
      <3> QED  BY <3>1, <3>2, <3>3 DEF Sorted
    <2> QED  BY <1>1, <2>2, <2>3, <2>4, OrderExists
  <1>3. Sorted(OrderBy(S, NewerFirst), "feed", S)
    <2> DEFINE s == OrderBy(S, NewerFirst)
    <2>1. s \in SetToSeqs(S) /\ \A i, j \in DOMAIN s : i < j => NewerFirst(s[i], s[j])
      <3>1. PICK t \in SetToSeqs(S) : \A i, j \in DOMAIN t : i < j => Before("feed", t[i], t[j])
        BY <1>2
      <3>2. \A i, j \in DOMAIN t : i < j => NewerFirst(t[i], t[j])
        BY <3>1 DEF Before
      <3> QED  BY <3>1, <3>2 DEF OrderBy
    <2> HIDE DEF s
    <2>2. \A i, j \in DOMAIN s : i < j => Before("feed", s[i], s[j])
      BY <2>1 DEF Before
    <2>3. Sorted(s, "feed", S)
      BY <1>2, <2>1, <2>2
    <2> QED  BY <2>3 DEF s
  <1>4. Sorted(OrderBy(S, LaterFirst), "wall", S)
    <2> DEFINE s == OrderBy(S, LaterFirst)
    <2>1. s \in SetToSeqs(S) /\ \A i, j \in DOMAIN s : i < j => LaterFirst(s[i], s[j])
      <3>1. \E t \in SetToSeqs(S) : \A i, j \in DOMAIN t : i < j => LaterFirst(t[i], t[j])
        BY <1>2 DEF Before
      <3> QED  BY <3>1 DEF OrderBy
    <2> HIDE DEF s
    <2>2. \A i, j \in DOMAIN s : i < j => Before("wall", s[i], s[j])
      BY <2>1 DEF Before
    <2>3. Sorted(s, "wall", S)
      BY <1>2, <2>1, <2>2
    <2> QED  BY <2>3 DEF s
  <1> QED  BY <1>3, <1>4

(* LIMIT count OFFSET offset. *)
LEMMA LimitFacts ==
    ASSUME NEW S, NEW s \in Seq(S), NEW offset \in Nat, NEW n \in Nat
    PROVE  /\ Limit(s, offset, n) \in Seq(S) /\ Len(Limit(s, offset, n)) \in Nat /\ Len(Limit(s, offset, n)) <= n
           /\ \A i \in 1 .. Len(Limit(s, offset, n)) :
                 offset + i \in 1 .. Len(s) /\ Limit(s, offset, n)[i] = s[offset + i]
           /\ Len(Limit(s, offset, n)) < n => Len(s) <= offset + Len(Limit(s, offset, n))
  <1> DEFINE m == IF offset + n < Len(s) THEN offset + n ELSE Len(s)
             page == SubSeq(s, offset + 1, m)
  <1>1. /\ Len(s) \in Nat /\ m \in Nat /\ m <= Len(s) /\ m <= offset + n /\ (m < offset + n => m = Len(s))
    OBVIOUS
  <1> HIDE DEF m
  <1>2. CASE offset + 1 <= m
    <2>1. /\ page \in Seq(S) /\ Len(page) = m - offset
          /\ \A i \in 1 .. m - offset : page[i] = s[offset + i]
      <3>1. /\ page \in Seq(S) /\ Len(page) = m - (offset + 1) + 1
            /\ \A i \in 1 .. m - (offset + 1) + 1 : page[i] = s[(offset + 1) + i - 1]
        <4>1. offset + 1 \in Int /\ m \in Int
          BY <1>1
        <4>2. \A i \in offset + 1 .. m : s[i] \in S
          <5>1. SUFFICES ASSUME NEW i \in offset + 1 .. m PROVE s[i] \in S
            OBVIOUS
          <5>2. i \in 1 .. Len(s)
            BY <1>1
          <5> QED  BY <5>2
        <4>3. /\ page \in Seq(S)
              /\ Len(page) = IF offset + 1 <= m THEN m - (offset + 1) + 1 ELSE 0
              /\ \A i \in 1 .. m - (offset + 1) + 1 : page[i] = s[(offset + 1) + i - 1]
          BY <4>1, <4>2, SubSeqProperties
        <4> QED  BY <1>2, <4>3
      <3>2. m - (offset + 1) + 1 = m - offset /\ \A i \in Int : (offset + 1) + i - 1 = offset + i
        BY <1>1
      <3>3. ASSUME NEW i \in 1 .. m - offset PROVE page[i] = s[offset + i]
        <4>1. i \in 1 .. m - (offset + 1) + 1 /\ (offset + 1) + i - 1 = offset + i
          BY <3>2
        <4>2. page[i] = s[(offset + 1) + i - 1]
          BY <3>1, <4>1
        <4> QED  BY <4>1, <4>2
      <3> HIDE DEF page
      <3> QED  BY <3>1, <3>2, <3>3
    <2> HIDE DEF page
    <2>2. /\ page \in Seq(S) /\ Len(page) \in Nat /\ Len(page) <= n
          /\ \A i \in 1 .. Len(page) : offset + i \in 1 .. Len(s) /\ page[i] = s[offset + i]
          /\ Len(page) < n => Len(s) <= offset + Len(page)
      BY <1>1, <1>2, <2>1
    <2> QED  BY <2>2 DEF Limit, m, page
  <1>3. CASE ~ (offset + 1 <= m)
    <2>1. page = <<>>
      BY <1>1, <1>3
    <2> HIDE DEF page
    <2>2. /\ page \in Seq(S) /\ Len(page) = 0
          /\ Len(s) <= offset \/ n = 0
      BY <1>1, <1>3, <2>1
    <2> QED  BY <2>2 DEF Limit, m, page
  <1> QED  BY <1>2, <1>3

(* A page, of the posts listed from an offset on: in order, with what is   *)
(* not on it behind it.                                                    *)
LEMMA PageOfRows ==
    ASSUME StoreInv, NEW S \in SUBSET posts, NEW mode, NEW s, Sorted(s, mode, S), NEW offset \in Nat
    PROVE  LET page == Limit(s, offset, PageSize)
           IN  /\ page \in Seq(S) /\ page \in Seq(PostType) /\ Len(page) \in Nat /\ Len(page) <= PageSize
               /\ \A i, j \in 1 .. Len(page) : i < j => Before(mode, page[i], page[j])
               /\ \A p \in S \ {page[i] : i \in 1 .. Len(page)} :
                     offset <= Cardinality({q \in S : Before(mode, q, p)}) =>
                        /\ Len(page) = PageSize
                        /\ offset + Len(page) <= Cardinality({q \in S : Before(mode, q, p)})
                        /\ Before(mode, page[Len(page)], p)
  <1> DEFINE page == Limit(s, offset, PageSize)
  <1>1. /\ s \in Seq(S) /\ Len(s) \in Nat
        /\ \A i, j \in 1 .. Len(s) : i < j => Before(mode, s[i], s[j])
        /\ \A x \in S : \E i \in 1 .. Len(s) : s[i] = x
        /\ \A i \in 1 .. Len(s) : Cardinality({x \in S : Before(mode, x, s[i])}) = i - 1
    BY DEF Sorted
  <1>2. PageSize \in Nat /\ PageSize > 0
    BY FeedAssumption
  <1>3. /\ page \in Seq(S) /\ Len(page) \in Nat /\ Len(page) <= PageSize
        /\ \A i \in 1 .. Len(page) : offset + i \in 1 .. Len(s) /\ page[i] = s[offset + i]
        /\ Len(page) < PageSize => Len(s) <= offset + Len(page)
    BY <1>1, <1>2, LimitFacts
  <1> HIDE DEF page
  <1>4. page \in Seq(PostType)
    BY <1>3 DEF StoreInv, TablesType
  <1>5. ASSUME NEW i \in 1 .. Len(page), NEW j \in 1 .. Len(page), i < j PROVE Before(mode, page[i], page[j])
    <2>1. offset + i < offset + j
      BY <1>3, <1>5
    <2> QED  BY <1>1, <1>3, <2>1
  <1>6. ASSUME NEW p \in S \ {page[i] : i \in 1 .. Len(page)},
               offset <= Cardinality({q \in S : Before(mode, q, p)})
        PROVE  /\ Len(page) = PageSize
               /\ offset + Len(page) <= Cardinality({q \in S : Before(mode, q, p)})
               /\ Before(mode, page[Len(page)], p)
    <2>1. PICK k \in 1 .. Len(s) : s[k] = p
      BY <1>1
    <2>2. Cardinality({q \in S : Before(mode, q, p)}) = k - 1 /\ k \in Nat
      BY <1>1, <2>1
    <2>3. k > offset
      BY <1>6, <2>2
    <2>4. k > offset + Len(page)
      <3> SUFFICES ASSUME k <= offset + Len(page) PROVE FALSE
        BY <1>3, <2>2
      <3>1. k - offset \in 1 .. Len(page) /\ offset + (k - offset) = k
        BY <1>3, <2>2, <2>3
      <3>2. page[k - offset] = p
        BY <1>3, <2>1, <3>1
      <3> QED  BY <1>6, <3>1, <3>2
    <2>5. Len(page) = PageSize
      BY <1>1, <1>2, <1>3, <2>1, <2>4
    <2>6. Before(mode, page[Len(page)], p)
      <3>1. Len(page) \in 1 .. Len(page) /\ offset + Len(page) < k
        BY <1>2, <1>3, <2>2, <2>4, <2>5
      <3> QED  BY <1>1, <1>3, <2>1, <3>1
    <2> QED  BY <1>3, <2>2, <2>4, <2>5, <2>6
  <1>7. /\ page \in Seq(S) /\ page \in Seq(PostType) /\ Len(page) \in Nat /\ Len(page) <= PageSize
        /\ \A i, j \in 1 .. Len(page) : i < j => Before(mode, page[i], page[j])
        /\ \A p \in S \ {page[i] : i \in 1 .. Len(page)} :
              offset <= Cardinality({q \in S : Before(mode, q, p)}) =>
                 /\ Len(page) = PageSize
                 /\ offset + Len(page) <= Cardinality({q \in S : Before(mode, q, p)})
                 /\ Before(mode, page[Len(page)], p)
    BY <1>3, <1>4, <1>5, <1>6
  <1> QED  BY <1>7 DEF page

(* A page of a session, with what its rows leave for the next one.         *)
PageOf(s, page) ==
    \/ s.mode = "feed" /\ page = FeedRange(s.end, s.start, s.offset, PageSize)
    \/ s.mode = "wall" /\ s.end = 0 /\ s.start = 0 /\ page = Posts(s.offset, PageSize)

LEMMA PageFacts ==
    ASSUME StoreInv, NEW s \in SessionType, NEW page, PageOf(s, page)
    PROVE  /\ page \in Seq(PostType) /\ Len(page) \in Nat /\ Len(page) <= PageSize
           /\ \A i \in 1 .. Len(page) : page[i] \in posts /\ InRange(s.end, s.start, page[i])
           /\ \A i, j \in 1 .. Len(page) : i < j => Before(s.mode, page[i], page[j])
           /\ \A p \in Rows(s) \ {page[i] : i \in 1 .. Len(page)} :
                 s.offset <= Cardinality(Ahead(s, p)) =>
                    /\ Len(page) = PageSize
                    /\ s.offset + Len(page) <= Cardinality(Ahead(s, p))
                    /\ Before(s.mode, page[Len(page)], p)
  <1>1. Rows(s) \in SUBSET posts /\ s.offset \in Nat
    BY DEF Rows, Listed, SessionType
  <1>2. PICK list : Sorted(list, s.mode, Rows(s)) /\ page = Limit(list, s.offset, PageSize)
    <2>1. CASE s.mode = "feed" /\ page = FeedRange(s.end, s.start, s.offset, PageSize)
      <3>1. Sorted(OrderBy(Rows(s), NewerFirst), s.mode, Rows(s))
        BY <1>1, <2>1, RowsInOrder
      <3>2. {p \in Listed("feed") : InRange(s.end, s.start, p)} = Rows(s)
        BY <2>1 DEF Rows
      <3>3. page = Limit(OrderBy(Rows(s), NewerFirst), s.offset, PageSize)
        BY <2>1, <3>2 DEF FeedRange
      <3> QED  BY <3>1, <3>3
    <2>2. CASE s.mode = "wall" /\ s.end = 0 /\ s.start = 0 /\ page = Posts(s.offset, PageSize)
      <3>1. Sorted(OrderBy(Rows(s), LaterFirst), s.mode, Rows(s))
        BY <1>1, <2>2, RowsInOrder
      <3>2. Listed("wall") = Rows(s)
        BY <2>2 DEF Rows, InRange
      <3>3. page = Limit(OrderBy(Rows(s), LaterFirst), s.offset, PageSize)
        BY <2>2, <3>2 DEF Posts
      <3> QED  BY <3>1, <3>3
    <2> QED  BY <2>1, <2>2 DEF PageOf
  <1>3. \A p : Ahead(s, p) = {q \in Rows(s) : Before(s.mode, q, p)}
    BY DEF Ahead
  <1>4. \A p \in Rows(s) : p \in posts /\ InRange(s.end, s.start, p)
    BY <1>1 DEF Rows
  <1>5. /\ page \in Seq(Rows(s)) /\ page \in Seq(PostType) /\ Len(page) \in Nat /\ Len(page) <= PageSize
        /\ \A i, j \in 1 .. Len(page) : i < j => Before(s.mode, page[i], page[j])
        /\ \A p \in Rows(s) \ {page[i] : i \in 1 .. Len(page)} :
              s.offset <= Cardinality({q \in Rows(s) : Before(s.mode, q, p)}) =>
                 /\ Len(page) = PageSize
                 /\ s.offset + Len(page) <= Cardinality({q \in Rows(s) : Before(s.mode, q, p)})
                 /\ Before(s.mode, page[Len(page)], p)
    <2> DEFINE S == Rows(s)
               m == s.mode
               o == s.offset
    <2>1. S \in SUBSET posts /\ o \in Nat /\ Sorted(list, m, S) /\ page = Limit(list, o, PageSize)
      BY <1>1, <1>2
    <2> HIDE DEF S, m, o
    <2>2. LET part == Limit(list, o, PageSize)
          IN  /\ part \in Seq(S) /\ part \in Seq(PostType) /\ Len(part) \in Nat /\ Len(part) <= PageSize
              /\ \A i, j \in 1 .. Len(part) : i < j => Before(m, part[i], part[j])
              /\ \A p \in S \ {part[i] : i \in 1 .. Len(part)} :
                    o <= Cardinality({q \in S : Before(m, q, p)}) =>
                       /\ Len(part) = PageSize
                       /\ o + Len(part) <= Cardinality({q \in S : Before(m, q, p)})
                       /\ Before(m, part[Len(part)], p)
      BY <2>1, PageOfRows
    <2>3. /\ page \in Seq(S) /\ page \in Seq(PostType) /\ Len(page) \in Nat /\ Len(page) <= PageSize
          /\ \A i, j \in 1 .. Len(page) : i < j => Before(m, page[i], page[j])
          /\ \A p \in S \ {page[i] : i \in 1 .. Len(page)} :
                o <= Cardinality({q \in S : Before(m, q, p)}) =>
                   /\ Len(page) = PageSize
                   /\ o + Len(page) <= Cardinality({q \in S : Before(m, q, p)})
                   /\ Before(m, page[Len(page)], p)
      BY <2>1, <2>2
    <2> QED  BY <2>3 DEF S, m, o
  <1>6. \A i \in 1 .. Len(page) : page[i] \in Rows(s)
    BY <1>5
  <1> QED  BY <1>3, <1>4, <1>5, <1>6

(* The session after a page. *)
LEMMA TurnedFacts ==
    ASSUME NEW s \in SessionType, NEW page \in Seq(PostType)
    PROVE  /\ Turned(s, page) \in SessionType
           /\ Turned(s, page).mode = s.mode /\ Turned(s, page).by = s.by
           /\ Turned(s, page).end = s.end /\ Turned(s, page).start = s.start
           /\ Turned(s, page).offset = s.offset /\ Turned(s, page).cuts = s.cuts
           /\ Turned(s, page).awaited = s.awaited \ ToSet(page) /\ Turned(s, page).removed = s.removed
           /\ (Turned(s, page).done <=> Len(page) < PageSize)
           /\ Turned(s, page).shown = s.shown \o page
  <1>1. s.shown \in Seq(PostType) /\ s.pages + 1 \in Nat
    BY DEF SessionType
  <1> DEFINE all == s.shown \o page
  <1>2. all \in Seq(PostType)
    BY <1>1, ConcatProperties, Zenon
  <1> DEFINE over == Len(page) < PageSize
             rest == s.awaited \ ToSet(page)
  <1>3. over \in BOOLEAN
    OBVIOUS
  <1>4. Turned(s, page) = [s EXCEPT !.pages = s.pages + 1, !.shown = all, !.awaited = rest, !.done = over]
    BY DEF Turned
  <1>5. rest \in SUBSET PostType
    BY DEF SessionType
  <1> HIDE DEF all, over, rest
  <1>6. /\ Turned(s, page) \in SessionType
        /\ Turned(s, page).mode = s.mode /\ Turned(s, page).by = s.by
        /\ Turned(s, page).end = s.end /\ Turned(s, page).start = s.start
        /\ Turned(s, page).offset = s.offset /\ Turned(s, page).cuts = s.cuts
        /\ Turned(s, page).awaited = rest /\ Turned(s, page).removed = s.removed
        /\ Turned(s, page).done = over /\ Turned(s, page).shown = all
    BY <1>1, <1>2, <1>3, <1>4, <1>5 DEF SessionType
  <1> QED  BY <1>6 DEF all, over, rest

(* All that was shown, after a page. *)
LEMMA ShownAfter ==
    ASSUME NEW s \in SessionType, NEW page \in Seq(PostType), NEW t \in SessionType, t.shown = s.shown \o page
    PROVE  /\ Len(s.shown) \in Nat /\ Len(t.shown) = Len(s.shown) + Len(page)
           /\ \A i \in 1 .. Len(s.shown) + Len(page) :
                 t.shown[i] = IF i <= Len(s.shown) THEN s.shown[i] ELSE page[i - Len(s.shown)]
  <1>1. /\ s.shown \in Seq(PostType) /\ Len(s.shown) \in Nat /\ Len(page) \in Nat
        /\ DOMAIN s.shown = 1 .. Len(s.shown) /\ t.shown \in Seq(PostType)
    BY DEF SessionType
  <1> DEFINE all == t.shown
             l == Len(s.shown)
  <1>2. /\ DOMAIN all = 1 .. l + Len(page) /\ Len(all) = l + Len(page)
        /\ \A i \in 1 .. l + Len(page) : all[i] = IF i <= l THEN s.shown[i] ELSE page[i - l]
    <2>1. Len(s.shown \o page) = l + Len(page)
      BY <1>1, ConcatProperties, Zenon
    <2>2. \A i \in 1 .. Len(s.shown) + Len(page) :
             (s.shown \o page)[i] = IF i <= Len(s.shown) THEN s.shown[i] ELSE page[i - Len(s.shown)]
      BY <1>1, ConcatProperties
    <2>3. all = s.shown \o page /\ all \in Seq(PostType)
      BY <1>1
    <2> HIDE DEF all
    <2> QED  BY <2>1, <2>2, <2>3
  <1> QED  BY <1>1, <1>2 DEF all, l

(* A page from below the last second goes on in the order of those before. *)
LEMMA OrderGoesOn ==
    ASSUME StoreInv, NEW s \in SessionType, OrderInv(s), ~s.done, s.by = "below", s.mode # "wall",
           NEW page, PageOf(s, page), NEW t \in SessionType, t.shown = s.shown \o page
    PROVE  /\ \A i \in 1 .. Len(t.shown) - 1 : NewerFirst(t.shown[i], t.shown[i + 1])
           /\ \A i \in 1 .. Len(t.shown) : t.shown[i].date >= FirstTime
  <1> DEFINE l == Len(s.shown)
  <1>1. /\ page \in Seq(PostType) /\ Len(page) \in Nat
        /\ \A i \in 1 .. Len(page) : page[i] \in posts /\ InRange(s.end, s.start, page[i])
        /\ \A i, j \in 1 .. Len(page) : i < j => NewerFirst(page[i], page[j])
    BY PageFacts DEF Before
  <1>2. /\ l \in Nat /\ Len(t.shown) = l + Len(page)
        /\ \A i \in 1 .. l + Len(page) : t.shown[i] = IF i <= l THEN s.shown[i] ELSE page[i - l]
    BY <1>1, ShownAfter
  <1>3. /\ \A i \in 1 .. l - 1 : NewerFirst(s.shown[i], s.shown[i + 1])
        /\ \A i \in 1 .. l : s.shown[i].date >= FirstTime
        /\ l # 0 => s.end = s.shown[l].date - 1
    BY DEF OrderInv
  <1>4. /\ FirstTime \in Nat /\ FirstTime > 1
        /\ \A p \in posts : p.date \in Nat /\ p.date >= FirstTime
    BY FeedAssumption, TimeAssumption DEF StoreInv, TablesType, PostType, PostsInv
  <1>5. \A i \in 1 .. l : s.shown[i].date \in Nat
    <2>1. \A i \in 1 .. l : s.shown[i] \in PostType
      BY DEF SessionType
    <2> QED  BY <2>1 DEF PostType
  <1>6. \A i \in 1 .. Len(page) : page[i].date \in Nat /\ page[i].date >= FirstTime
                                  /\ (s.end > 0 => page[i].date <= s.end)
    BY <1>1, <1>4 DEF InRange
  <1> HIDE DEF l
  <1>7. ASSUME NEW i \in 1 .. (l + Len(page)) - 1 PROVE NewerFirst(t.shown[i], t.shown[i + 1])
    <2>1. i \in 1 .. l + Len(page) /\ i + 1 \in 1 .. l + Len(page) /\ i \in Nat
      BY <1>1, <1>2
    <2>2. CASE i + 1 <= l
      <3>1. i \in 1 .. l - 1 /\ i <= l
        BY <1>2, <2>1, <2>2
      <3> QED  BY <1>2, <1>3, <2>1, <2>2, <3>1
    <2>3. CASE i = l
      <3>1. l # 0 /\ ~ (i + 1 <= l) /\ (i + 1) - l = 1 /\ 1 \in 1 .. Len(page) /\ l \in 1 .. l /\ i <= l
        BY <1>1, <1>2, <2>1, <2>3
      <3>2. t.shown[i] = s.shown[l] /\ t.shown[i + 1] = page[1]
        BY <1>2, <2>1, <2>3, <3>1
      <3>3. s.shown[l].date \in Nat /\ s.shown[l].date >= FirstTime /\ page[1].date \in Nat
        BY <1>3, <1>5, <1>6, <3>1
      <3>4. s.end = s.shown[l].date - 1 /\ s.end > 0
        <4>1. s.end = s.shown[l].date - 1
          BY <1>3, <3>1
        <4>2. \A n, k \in Nat : k > 1 /\ n >= k => n - 1 > 0
          OBVIOUS
        <4> QED  BY <1>4, <3>3, <4>1, <4>2
      <3>5. page[1].date <= s.end
        BY <1>6, <3>1, <3>4
      <3>6. s.shown[l].date > page[1].date
        <4>1. \A n, k \in Nat : n <= k - 1 => k > n
          OBVIOUS
        <4>2. page[1].date <= s.shown[l].date - 1
          BY <3>4, <3>5
        <4> QED  BY <3>3, <4>1, <4>2
      <3>7. t.shown[i].date > t.shown[i + 1].date
        BY <3>2, <3>6
      <3> QED  BY <3>7 DEF NewerFirst
    <2>4. CASE i > l
      <3>1. i - l \in 1 .. Len(page) /\ (i + 1) - l \in 1 .. Len(page) /\ i - l < (i + 1) - l
            /\ ~ (i <= l) /\ ~ (i + 1 <= l)
        <4>1. \A n, m, k \in Nat : k \in 1 .. (n + m) - 1 /\ k > n =>
                 /\ k - n \in 1 .. m /\ (k + 1) - n \in 1 .. m /\ k - n < (k + 1) - n
                 /\ ~ (k <= n) /\ ~ (k + 1 <= n)
          OBVIOUS
        <4> QED  BY <1>1, <1>2, <2>1, <2>4, <4>1
      <3> QED  BY <1>1, <1>2, <2>1, <3>1
    <2>5. i + 1 <= l \/ i = l \/ i > l
      BY <1>2, <2>1
    <2> QED  BY <2>2, <2>3, <2>4, <2>5
  <1>8. ASSUME NEW i \in 1 .. l + Len(page) PROVE t.shown[i].date >= FirstTime
    <2>1. CASE i <= l
      <3>1. i \in 1 .. l
        BY <1>2, <2>1
      <3> QED  BY <1>2, <1>3, <2>1, <3>1
    <2>2. CASE ~ (i <= l)
      <3>1. i - l \in 1 .. Len(page)
        BY <1>1, <1>2, <2>2
      <3> QED  BY <1>2, <1>6, <2>2, <3>1
    <2> QED  BY <2>1, <2>2
  <1> QED  BY <1>2, <1>7, <1>8

(* What a page leaves: nothing when it is short; else only what is behind  *)
(* its last post, and the offset.                                          *)
LEMMA PageLeaves ==
    ASSUME StoreInv, NEW s \in SessionType, TurningInv(s), ~s.done, NEW page, PageOf(s, page),
           NEW p \in s.awaited \ ToSet(page), ~Excused(s, p)
    PROVE  /\ Len(page) = PageSize /\ page[Len(page)].date \in Nat /\ p.date \in Nat
           /\ InRange(s.end, s.start, p) /\ Before(s.mode, page[Len(page)], p)
           /\ s.offset + Len(page) <= Cardinality(Ahead(s, p))
  <1>1. /\ page \in Seq(PostType) /\ Len(page) \in Nat
        /\ \A i \in 1 .. Len(page) : page[i] \in posts
        /\ \A q \in Rows(s) \ {page[i] : i \in 1 .. Len(page)} :
              s.offset <= Cardinality(Ahead(s, q)) =>
                 /\ Len(page) = PageSize
                 /\ s.offset + Len(page) <= Cardinality(Ahead(s, q))
                 /\ Before(s.mode, page[Len(page)], q)
    BY PageFacts
  <1>2. p \in s.awaited /\ p \notin {page[i] : i \in 1 .. Len(page)}
    BY <1>1 DEF ToSet
  <1>3. InRange(s.end, s.start, p) /\ s.offset <= Cardinality(Ahead(s, p)) /\ p \in Listed(s.mode)
    BY <1>2 DEF TurningInv
  <1>4. p \in Rows(s)
    BY <1>3 DEF Rows
  <1>5. \A q \in posts : q.date \in Nat
    BY DEF StoreInv, TablesType, PostType
  <1>6. p \in posts
    BY <1>3 DEF Listed
  <1>7. /\ Len(page) = PageSize /\ s.offset + Len(page) <= Cardinality(Ahead(s, p))
        /\ Before(s.mode, page[Len(page)], p)
    BY <1>1, <1>2, <1>3, <1>4
  <1>8. Len(page) \in 1 .. Len(page)
    BY <1>1, <1>7, FeedAssumption
  <1> QED  BY <1>1, <1>3, <1>5, <1>6, <1>7, <1>8

LEMMA AheadIsFinite ==
    ASSUME StoreInv, NEW s, NEW p
    PROVE  Cardinality(Ahead(s, p)) \in Nat
  <1>1. Ahead(s, p) \subseteq posts
    BY DEF Ahead, Rows, Listed
  <1> QED  BY <1>1, FS_Subset, FS_CardinalityType DEF StoreInv, PostsInv

(* The next page is asked for from below the last second, from that second *)
(* or by the offset.                                                       *)
LEMMA BelowTurns ==
    ASSUME StoreInv, NEW s \in SessionType, TurningInv(s), ~s.done, s.by = "below", NEW page, PageOf(s, page)
    PROVE  Below(s, page) \in SessionType /\ TurningInv(Below(s, page))
  <1> DEFINE t == Below(s, page)
             u == Turned(s, page)
             d == page[Len(page)].date
  <1>1. /\ page \in Seq(PostType) /\ Len(page) \in Nat /\ Len(page) <= PageSize /\ s.mode # "wall" /\ s.offset = 0
        /\ PageSize \in Nat /\ PageSize > 0 /\ FirstTime \in Nat /\ FirstTime > 1
        /\ \A i \in 1 .. Len(page) : page[i].date \in Nat /\ page[i].date >= FirstTime
    <2>1. s.mode # "wall" /\ s.offset = 0
      BY DEF TurningInv
    <2>2. PageSize \in Nat /\ PageSize > 0 /\ FirstTime \in Nat /\ FirstTime > 1
      BY FeedAssumption, TimeAssumption
    <2>3. \A p \in posts : p.date \in Nat /\ p.date >= FirstTime
      BY <2>2 DEF StoreInv, TablesType, PostType, PostsInv
    <2> QED  BY <2>1, <2>2, <2>3, PageFacts
  <1>2. /\ u \in SessionType /\ u.mode = s.mode /\ u.by = s.by /\ u.end = s.end /\ u.start = s.start
        /\ u.offset = s.offset /\ u.cuts = s.cuts /\ u.awaited = s.awaited \ ToSet(page) /\ u.removed = s.removed
        /\ (u.done <=> Len(page) < PageSize) /\ u.shown = s.shown \o page
    BY <1>1, TurnedFacts
  <1> HIDE DEF u
  <1>3. Len(page) = PageSize => d \in Nat /\ d - 1 \in Nat
    BY <1>1
  <1>4. /\ t \in SessionType /\ t.mode = s.mode /\ t.by = s.by /\ t.start = s.start /\ t.offset = s.offset
        /\ t.awaited = s.awaited \ ToSet(page) /\ t.removed = s.removed /\ (t.done <=> Len(page) < PageSize)
        /\ t.shown = s.shown \o page /\ s.cuts \subseteq t.cuts
        /\ Len(page) = PageSize => t.end = d - 1 /\ d \in t.cuts
    <2>1. CASE Len(page) < PageSize
      BY <1>1, <1>2, <2>1 DEF Below, u
    <2>2. CASE ~ (Len(page) < PageSize)
      <3>1. Len(page) = PageSize /\ Last(page).date = d
        BY <1>1, <2>2 DEF Last
      <3>2. t = [u EXCEPT !.end = d - 1, !.cuts = u.cuts \cup {d}]
        BY <2>2, <3>1 DEF Below, u
      <3> HIDE DEF t, d
      <3>3. /\ t \in SessionType /\ t.mode = u.mode /\ t.by = u.by /\ t.start = u.start /\ t.offset = u.offset
            /\ t.awaited = u.awaited /\ t.removed = u.removed /\ t.done = u.done /\ t.shown = u.shown
            /\ t.cuts = u.cuts \cup {d} /\ t.end = d - 1
        BY <1>2, <1>3, <3>1, <3>2 DEF SessionType
      <3> QED  BY <1>2, <3>3
    <2> QED  BY <2>1, <2>2
  <1> HIDE DEF t
  <1>5. /\ Len(t.shown) = Len(s.shown) + Len(page) /\ Len(s.shown) \in Nat
        /\ Len(page) = PageSize => t.shown[Len(t.shown)].date = d
    <2>1. /\ Len(t.shown) = Len(s.shown) + Len(page) /\ Len(s.shown) \in Nat
          /\ \A i \in 1 .. Len(s.shown) + Len(page) :
                t.shown[i] = IF i <= Len(s.shown) THEN s.shown[i] ELSE page[i - Len(s.shown)]
      BY <1>1, <1>4, ShownAfter
    <2>2. \A n, m \in Nat : m > 0 => n + m \in 1 .. n + m /\ ~ (n + m <= n) /\ (n + m) - n = m
      OBVIOUS
    <2> QED  BY <1>1, <2>1, <2>2
  <1>6. OrderInv(t)
    <2>1. /\ \A i \in 1 .. Len(t.shown) - 1 : NewerFirst(t.shown[i], t.shown[i + 1])
          /\ \A i \in 1 .. Len(t.shown) : t.shown[i].date >= FirstTime
      BY <1>1, <1>4, OrderGoesOn DEF TurningInv
    <2>2. ~t.done => Len(page) = PageSize /\ Len(t.shown) # 0
      <3>1. Len(page) < PageSize \/ Len(page) = PageSize
        BY <1>1
      <3>2. Len(page) = PageSize => Len(t.shown) # 0
        BY <1>1, <1>5
      <3> QED  BY <1>4, <3>1, <3>2
    <2> QED  BY <1>4, <1>5, <2>1, <2>2 DEF OrderInv
  <1>7. ASSUME NEW p \in t.awaited
        PROVE  \/ Excused(t, p)
               \/ ~t.done /\ InRange(t.end, t.start, p) /\ t.offset <= Cardinality(Ahead(t, p))
    <2>1. CASE Excused(s, p)
      BY <1>4, <2>1 DEF Excused
    <2>2. CASE ~Excused(s, p)
      <3>1. /\ Len(page) = PageSize /\ d \in Nat /\ p.date \in Nat
            /\ InRange(s.end, s.start, p) /\ Before(s.mode, page[Len(page)], p)
        BY <1>4, <1>7, <2>2, PageLeaves
      <3>2. p.date = d \/ p.date <= d - 1
        BY <1>1, <3>1 DEF Before, NewerFirst
      <3>3. CASE p.date = d
        BY <1>4, <3>1, <3>3 DEF Excused
      <3>4. CASE p.date <= d - 1
        <4>1. InRange(t.end, t.start, p) /\ ~t.done
          <5>1. ~ (PageSize < PageSize) /\ t.end = d - 1 /\ t.start = s.start
            BY <1>1, <1>4, <3>1
          <5>2. ~t.done
            BY <1>4, <3>1, <5>1
          <5>3. InRange(t.end, t.start, p)
            BY <3>1, <3>4, <5>1 DEF InRange
          <5> QED  BY <5>2, <5>3
        <4>2. t.offset <= Cardinality(Ahead(t, p))
          BY <1>1, <1>4, AheadIsFinite
        <4> QED  BY <4>1, <4>2
      <3> QED  BY <3>2, <3>3, <3>4
    <2> QED  BY <2>1, <2>2
  <1>8. /\ t.mode = "wall" => t.by = "offset" /\ t.start = 0
        /\ t.by = "offset" => t.end = 0
        /\ t.by # "offset" => t.offset = 0
        /\ ~t.done => t.awaited \subseteq Listed(t.mode)
    BY <1>1, <1>4 DEF TurningInv
  <1> QED  BY <1>4, <1>6, <1>7, <1>8 DEF TurningInv, t

LEMMA FromTurns ==
    ASSUME StoreInv, NEW s \in SessionType, TurningInv(s), ~s.done, s.by = "from", NEW page, PageOf(s, page)
    PROVE  From(s, page) \in SessionType /\ TurningInv(From(s, page))
  <1> DEFINE t == From(s, page)
             u == Turned(s, page)
             d == page[Len(page)].date
  <1>1. /\ page \in Seq(PostType) /\ Len(page) \in Nat /\ Len(page) <= PageSize /\ s.mode # "wall" /\ s.offset = 0
        /\ PageSize \in Nat /\ PageSize > 0
        /\ \A i \in 1 .. Len(page) : page[i].date \in Nat
    <2>1. s.mode # "wall" /\ s.offset = 0
      BY DEF TurningInv
    <2>2. PageSize \in Nat /\ PageSize > 0
      BY FeedAssumption
    <2>3. \A p \in posts : p.date \in Nat
      BY DEF StoreInv, TablesType, PostType
    <2> QED  BY <2>1, <2>2, <2>3, PageFacts
  <1>2. /\ u \in SessionType /\ u.mode = s.mode /\ u.by = s.by /\ u.end = s.end /\ u.start = s.start
        /\ u.offset = s.offset /\ u.cuts = s.cuts /\ u.awaited = s.awaited \ ToSet(page) /\ u.removed = s.removed
        /\ (u.done <=> Len(page) < PageSize) /\ u.shown = s.shown \o page
    BY <1>1, TurnedFacts
  <1> HIDE DEF u
  <1>3. /\ t \in SessionType /\ t.mode = s.mode /\ t.by = s.by /\ t.start = s.start /\ t.offset = s.offset
        /\ t.awaited = s.awaited \ ToSet(page) /\ t.removed = s.removed /\ (t.done <=> Len(page) < PageSize)
        /\ t.shown = s.shown \o page /\ t.cuts = s.cuts
        /\ Len(page) = PageSize => t.end = d
    <2>1. CASE Len(page) < PageSize
      BY <1>1, <1>2, <2>1 DEF From, u
    <2>2. CASE ~ (Len(page) < PageSize)
      <3>1. Len(page) = PageSize /\ Last(page).date = d /\ d \in Nat
        BY <1>1, <2>2 DEF Last
      <3>2. t = [u EXCEPT !.end = d]
        BY <2>2, <3>1 DEF From, u
      <3> HIDE DEF t, d
      <3>3. /\ t \in SessionType /\ t.mode = u.mode /\ t.by = u.by /\ t.start = u.start /\ t.offset = u.offset
            /\ t.awaited = u.awaited /\ t.removed = u.removed /\ t.done = u.done /\ t.shown = u.shown
            /\ t.cuts = u.cuts /\ t.end = d
        BY <1>2, <3>1, <3>2 DEF SessionType
      <3> QED  BY <1>2, <3>3
    <2> QED  BY <2>1, <2>2
  <1> HIDE DEF t
  <1>4. ASSUME NEW p \in t.awaited
        PROVE  \/ Excused(t, p)
               \/ ~t.done /\ InRange(t.end, t.start, p) /\ t.offset <= Cardinality(Ahead(t, p))
    <2>1. CASE Excused(s, p)
      BY <1>3, <2>1 DEF Excused
    <2>2. CASE ~Excused(s, p)
      <3>1. /\ Len(page) = PageSize /\ d \in Nat /\ p.date \in Nat
            /\ InRange(s.end, s.start, p) /\ Before(s.mode, page[Len(page)], p)
        BY <1>3, <1>4, <2>2, PageLeaves
      <3>2. p.date <= d
        BY <1>1, <3>1 DEF Before, NewerFirst
      <3>3. InRange(t.end, t.start, p) /\ ~t.done
        <4>1. ~ (PageSize < PageSize) /\ t.end = d /\ t.start = s.start
          BY <1>1, <1>3, <3>1
        <4>2. ~t.done
          BY <1>3, <3>1, <4>1
        <4>3. InRange(t.end, t.start, p)
          BY <3>1, <3>2, <4>1 DEF InRange
        <4> QED  BY <4>2, <4>3
      <3>4. t.offset <= Cardinality(Ahead(t, p))
        BY <1>1, <1>3, AheadIsFinite
      <3> QED  BY <3>3, <3>4
    <2> QED  BY <2>1, <2>2
  <1>5. /\ t.mode = "wall" => t.by = "offset" /\ t.start = 0
        /\ t.by = "offset" => t.end = 0
        /\ t.by # "offset" => t.offset = 0
        /\ ~t.done => t.awaited \subseteq Listed(t.mode)
        /\ OrderInv(t)
    BY <1>1, <1>3 DEF TurningInv, OrderInv
  <1> QED  BY <1>3, <1>4, <1>5 DEF TurningInv, t

LEMMA FurtherTurns ==
    ASSUME StoreInv, NEW s \in SessionType, TurningInv(s), ~s.done, s.by = "offset", NEW page, PageOf(s, page)
    PROVE  Further(s, page) \in SessionType /\ TurningInv(Further(s, page))
  <1> DEFINE t == Further(s, page)
             u == Turned(s, page)
  <1>1. page \in Seq(PostType) /\ Len(page) \in Nat /\ s.offset \in Nat /\ PageSize \in Nat
    BY PageFacts, FeedAssumption DEF SessionType
  <1>2. /\ u \in SessionType /\ u.mode = s.mode /\ u.by = s.by /\ u.end = s.end /\ u.start = s.start
        /\ u.offset = s.offset /\ u.cuts = s.cuts /\ u.awaited = s.awaited \ ToSet(page) /\ u.removed = s.removed
        /\ (u.done <=> Len(page) < PageSize) /\ u.shown = s.shown \o page
    BY <1>1, TurnedFacts
  <1> DEFINE o == s.offset + Len(page)
  <1>3. /\ t \in SessionType /\ t.mode = s.mode /\ t.by = s.by /\ t.start = s.start /\ t.end = s.end /\ t.offset = o
        /\ t.awaited = s.awaited \ ToSet(page) /\ t.removed = s.removed /\ (t.done <=> Len(page) < PageSize)
        /\ t.shown = s.shown \o page /\ t.cuts = s.cuts
    <2>1. o \in Nat /\ t = [u EXCEPT !.offset = o]
      BY <1>1, <1>2 DEF Further, SessionType
    <2> HIDE DEF t, u, o
    <2>2. /\ t \in SessionType /\ t.mode = u.mode /\ t.by = u.by /\ t.start = u.start /\ t.end = u.end /\ t.offset = o
          /\ t.awaited = u.awaited /\ t.removed = u.removed /\ t.done = u.done /\ t.shown = u.shown
          /\ t.cuts = u.cuts
      BY <1>2, <2>1 DEF SessionType
    <2> QED  BY <1>2, <2>2
  <1> HIDE DEF t, u
  <1>4. ASSUME NEW p \in t.awaited
        PROVE  \/ Excused(t, p)
               \/ ~t.done /\ InRange(t.end, t.start, p) /\ t.offset <= Cardinality(Ahead(t, p))
    <2>1. CASE Excused(s, p)
      BY <1>3, <2>1 DEF Excused
    <2>2. CASE ~Excused(s, p)
      <3>1. /\ Len(page) = PageSize /\ InRange(s.end, s.start, p)
            /\ o <= Cardinality(Ahead(s, p))
        BY <1>3, <1>4, <2>2, PageLeaves
      <3>2. Ahead(t, p) = Ahead(s, p)
        BY <1>3 DEF Ahead, Rows
      <3>3. ~t.done
        BY <1>1, <1>3, <3>1
      <3>4. InRange(t.end, t.start, p)
        BY <1>3, <3>1
      <3> QED  BY <1>3, <3>1, <3>2, <3>3, <3>4
    <2> QED  BY <2>1, <2>2
  <1>5. /\ t.mode = "wall" => t.by = "offset" /\ t.start = 0
        /\ t.by = "offset" => t.end = 0
        /\ t.by # "offset" => t.offset = 0
        /\ ~t.done => t.awaited \subseteq Listed(t.mode)
        /\ OrderInv(t)
    BY <1>3 DEF TurningInv, OrderInv
  <1> QED  BY <1>3, <1>4, <1>5 DEF TurningInv, t

(* The session in which a page is asked for, a new one or that of before.  *)
LEMMA Asked ==
    ASSUME StoreInv, session \in SessionType, SessionInv, NEW mode \in {"feed", "wall"}, NEW s \in Asking(mode)
    PROVE  s \in SessionType /\ TurningInv(s) /\ ~s.done /\ s.mode = mode
  <1>1. CASE session = NoSession
    <2>1. s \in NewSessions(mode)
      BY <1>1 DEF Asking
    <2>2. PICK by \in {"below", "from", "offset"}, start \in StartTimes :
             s = Begun(mode, by, start) /\ (mode = "wall" => by = "offset" /\ start = 0)
      <3>1. 0 \in StartTimes
        BY DEF StartTimes
      <3> QED  BY <2>1, <3>1 DEF NewSessions
    <2>3. /\ start \in Nat /\ by \in {"below", "from", "offset"} /\ (mode = "wall" => by = "offset" /\ start = 0)
          /\ Listed(mode) \subseteq posts /\ <<>> \in Seq(PostType) /\ posts \subseteq PostType
      BY <2>2, FeedAssumption DEF StartTimes, Listed, StoreInv, TablesType
    <2>4. /\ s \in SessionType /\ s.mode = mode /\ s.by = by /\ s.start = start /\ s.awaited = Listed(mode)
          /\ s.end = 0 /\ s.offset = 0 /\ s.shown = <<>> /\ ~s.done
      BY <2>2, <2>3 DEF Begun, NoSession, SessionType
    <2>5. ASSUME NEW p \in s.awaited
          PROVE  Excused(s, p) \/ (InRange(s.end, s.start, p) /\ s.offset <= Cardinality(Ahead(s, p)))
      <3>1. p.date \in Nat
        BY <2>3, <2>4, <2>5 DEF PostType
      <3>2. Cardinality(Ahead(s, p)) \in Nat
        BY AheadIsFinite
      <3> QED  BY <2>3, <2>4, <3>1, <3>2 DEF Excused, InRange
    <2>6. OrderInv(s)
      BY <2>4 DEF OrderInv
    <2> QED  BY <2>3, <2>4, <2>5, <2>6 DEF TurningInv
  <1>2. CASE session # NoSession
    BY <1>2 DEF Asking, SessionInv
  <1> QED  BY <1>1, <1>2

LEMMA SessionBecomes ==
    ASSUME NEW t \in SessionType, TurningInv(t), session' = t, posts' = posts, friends' = friends
    PROVE  session' \in SessionType /\ SessionInv'
  <1>1. \A mode : Listed(mode)' = Listed(mode)
    BY DEF Listed, IsListed
  <1> QED  BY <1>1 DEF SessionInv, TurningInv, OrderInv, Excused, Ahead, Rows, InRange, Before,
                       NewerFirst, LaterFirst

LEMMA ReadTurns ==
    ASSUME StoreInv, session \in SessionType, SessionInv, Read
    PROVE  session' \in SessionType /\ SessionInv'
  <1>1. posts' = posts /\ friends' = friends
    BY DEF Read, handleFeed, newsfeedGet, wallGet, Reads, tables
  <1>2. CASE handleFeed
    <2>1. PICK s \in Asking("feed") :
             /\ s.by = "below" /\ s.start = 0
             /\ session' = Below(s, FeedRange(s.end, 0, 0, PageSize))
      BY <1>2 DEF handleFeed
    <2>2. s \in SessionType /\ TurningInv(s) /\ ~s.done /\ s.mode = "feed" /\ s.offset = 0
      BY <2>1, Asked DEF TurningInv
    <2> DEFINE page == FeedRange(s.end, 0, 0, PageSize)
    <2>3. PageOf(s, page)
      BY <2>1, <2>2 DEF PageOf
    <2> HIDE DEF page
    <2>4. Below(s, page) \in SessionType /\ TurningInv(Below(s, page))
      BY <2>1, <2>2, <2>3, BelowTurns
    <2>5. PICK t \in SessionType : t = Below(s, page) /\ TurningInv(t)
      BY <2>4
    <2> QED  BY <1>1, <2>1, <2>5, SessionBecomes DEF page
  <1>3. CASE newsfeedGet
    <2>1. PICK s \in Asking("feed") :
             \/ s.by = "below" /\ session' = Below(s, FeedRange(s.end, s.start, s.offset, PageSize))
             \/ s.by = "from" /\ session' = From(s, FeedRange(s.end, s.start, s.offset, PageSize))
             \/ s.by = "offset" /\ session' = Further(s, FeedRange(s.end, s.start, s.offset, PageSize))
      BY <1>3 DEF newsfeedGet
    <2>2. s \in SessionType /\ TurningInv(s) /\ ~s.done /\ s.mode = "feed"
      BY <2>1, Asked
    <2> DEFINE page == FeedRange(s.end, s.start, s.offset, PageSize)
    <2>3. PageOf(s, page)
      BY <2>2 DEF PageOf
    <2> HIDE DEF page
    <2>4. PICK t \in SessionType : session' = t /\ TurningInv(t)
      BY <2>1, <2>2, <2>3, BelowTurns, FromTurns, FurtherTurns DEF page
    <2> QED  BY <1>1, <2>4, SessionBecomes
  <1>4. CASE wallGet
    <2>1. PICK s \in Asking("wall") : session' = Further(s, Posts(s.offset, PageSize))
      BY <1>4 DEF wallGet
    <2>2. s \in SessionType /\ TurningInv(s) /\ ~s.done /\ s.mode = "wall"
      BY <2>1, Asked
    <2>3. s.by = "offset" /\ s.start = 0 /\ s.end = 0
      BY <2>2 DEF TurningInv
    <2> DEFINE page == Posts(s.offset, PageSize)
    <2>4. PageOf(s, page)
      BY <2>2, <2>3 DEF PageOf
    <2> HIDE DEF page
    <2>5. PICK t \in SessionType : session' = t /\ TurningInv(t)
      BY <2>1, <2>2, <2>3, <2>4, FurtherTurns DEF page
    <2> QED  BY <1>1, <2>5, SessionBecomes
  <1> QED  BY <1>2, <1>3, <1>4 DEF Read

(* What was listed is taken away or not. *)
LEMMA SessionWatches ==
    ASSUME StoreInv, StoreInv', session \in SessionType, SessionInv, Watch
    PROVE  session' \in SessionType /\ SessionInv'
  <1> DEFINE s == session
             t == session'
  <1>1. PICK m \in {s.mode} :
          t = IF s.done THEN s
              ELSE [s EXCEPT !.awaited = @ \cap Listed(m)',
                      !.removed = @ \/ (s.offset > 0 /\ ~(Listed(m) \subseteq Listed(m)'))]
    BY DEF Watch
  <1>2. CASE s.done
    <2>1. t = s
      BY <1>1, <1>2
    <2> QED  BY <1>2, <2>1 DEF SessionInv, TurningInv, OrderInv, Excused, NewerFirst
  <1>3. CASE ~s.done
    <2>1. /\ t \in SessionType /\ t.mode = s.mode /\ t.by = s.by /\ t.end = s.end /\ t.start = s.start
          /\ t.offset = s.offset /\ t.shown = s.shown /\ t.cuts = s.cuts /\ t.done = s.done
          /\ t.awaited = s.awaited \cap Listed(m)'
          /\ t.removed <=> s.removed \/ (s.offset > 0 /\ ~(Listed(m) \subseteq Listed(m)'))
      BY <1>1, <1>3 DEF SessionType
    <2>2. /\ s.mode = "wall" => s.by = "offset" /\ s.start = 0
          /\ s.by = "offset" => s.end = 0
          /\ s.by # "offset" => s.offset = 0
          /\ s.offset \in Nat
          /\ \A p \in s.awaited :
                Excused(s, p) \/ (InRange(s.end, s.start, p) /\ s.offset <= Cardinality(Ahead(s, p)))
          /\ OrderInv(s)
      BY <1>3 DEF SessionInv, TurningInv, SessionType
    <2>3. ASSUME NEW p \in t.awaited
          PROVE  \/ Excused(session, p)'
                 \/ InRange(t.end, t.start, p) /\ t.offset <= Cardinality(Ahead(session, p)')
      <3>1. CASE Excused(s, p)
        BY <2>1, <3>1 DEF Excused
      <3>2. CASE ~Excused(s, p)
        <4>1. InRange(s.end, s.start, p) /\ s.offset <= Cardinality(Ahead(s, p))
          BY <2>1, <2>2, <2>3, <3>2
        <4>2. IsFiniteSet(Ahead(session, p)') /\ Cardinality(Ahead(session, p)') \in Nat
          <5>1. Ahead(session, p)' \subseteq posts'
            BY DEF Ahead, Rows, Listed
          <5>2. IsFiniteSet(posts')
            BY DEF StoreInv, PostsInv
          <5> HIDE DEF s, t
          <5> QED  BY <5>1, <5>2, FS_Subset, FS_CardinalityType
        <4>3. CASE s.offset = 0
          BY <2>1, <4>1, <4>2, <4>3
        <4>4. CASE s.offset # 0 /\ Listed(m) \subseteq Listed(m)'
          <5>1. Ahead(session, p) \subseteq Ahead(session, p)'
            BY <2>1, <4>4 DEF Ahead, Rows, Listed, IsListed
          <5>2. Cardinality(Ahead(session, p)) <= Cardinality(Ahead(session, p)')
                /\ Cardinality(Ahead(session, p)) \in Nat
            BY <4>2, <5>1, FS_Subset, FS_CardinalityType
          <5> QED  BY <2>1, <2>2, <4>1, <4>2, <5>2
        <4>5. CASE s.offset # 0 /\ ~(Listed(m) \subseteq Listed(m)')
          <5>1. t.removed /\ t.by = "offset"
            BY <2>1, <2>2, <4>5
          <5> QED  BY <5>1 DEF Excused
        <4> QED  BY <4>3, <4>4, <4>5
      <3> QED  BY <3>1, <3>2
    <2>4. t.awaited \subseteq Listed(session.mode)'
      BY <2>1 DEF Listed, IsListed
    <2>5. OrderInv(session)'
      BY <2>1, <2>2 DEF OrderInv, NewerFirst
    <2> QED  BY <1>3, <2>1, <2>2, <2>3, <2>4, <2>5 DEF SessionInv, TurningInv, InRange
  <1> QED  BY <1>2, <1>3

LEMMA SessionKept ==
    ASSUME session \in SessionType, SessionInv, UNCHANGED <<session, posts, friends>>
    PROVE  session' \in SessionType /\ SessionInv'
  BY SessionBecomes DEF SessionInv

PagesInv == StoreInv /\ session \in SessionType /\ SessionInv

LEMMA PagesStart == FeedInit => PagesInv
  <1> SUFFICES ASSUME FeedInit PROVE PagesInv
    OBVIOUS
  <1>1. session = NoSession /\ session \in SessionType
    <2>1. <<>> \in Seq(PostType)
      OBVIOUS
    <2> QED  BY <2>1 DEF FeedInit, NoSession, SessionType
  <1>2. SessionInv
    BY <1>1 DEF NoSession, SessionInv, TurningInv, OrderInv
  <1> QED  BY <1>1, <1>2, StoreStarts DEF PagesInv

LEMMA PagesStep == PagesInv /\ [FeedNext]_feedVars => PagesInv'
  <1> SUFFICES ASSUME PagesInv, [FeedNext]_feedVars PROVE session' \in SessionType /\ SessionInv'
    BY StoreStep DEF PagesInv
  <1>1. StoreInv /\ StoreInv' /\ session \in SessionType /\ SessionInv
    BY StoreStep DEF PagesInv
  <1>2. UNCHANGED <<session, posts, friends>> \/ Watch \/ Read
    BY DEF FeedNext, Request, Post, Checkin, AddsPlace, Starts, Execute, Now, NextPostID, CreatePost, AddPlace,
           InsertCheckin, CountCheckin, GiveUp, DeletePost, SetFriends, Tick, feedVars, tables
  <1> QED  BY <1>1, <1>2, SessionKept, SessionWatches, ReadTurns

LEMMA PagesHold == FeedSpec => []PagesInv
  <1> QED  BY PagesStart, PagesStep, PTL DEF FeedSpec

(* The pages of a reader who asks from below the second of the last post,  *)
(* one after the other, show every post at most once and the newer ones    *)
(* first, whatever is written meanwhile.                                   *)
THEOREM FeedPagesAlwaysInOrder == FeedSpec => []FeedPagesInOrder
  <1>1. PagesInv => FeedPagesInOrder
    BY DEF PagesInv, SessionInv, TurningInv, OrderInv, FeedPagesInOrder
  <1> QED  BY <1>1, PagesHold, PTL

(* A reader who has turned all the pages has seen every post that was      *)
(* there all the time, as far back as start_time, but for those of the     *)
(* seconds below which a page began, and, by an offset, if a post went     *)
(* away meanwhile; who asks from the second of the last post, all.         *)
THEOREM PagesAlwaysShowTheRest == FeedSpec => []PagesShowTheRest
  <1>1. PagesInv => PagesShowTheRest
    BY DEF PagesInv, SessionInv, TurningInv, Excused, PagesShowTheRest
  <1> QED  BY <1>1, PagesHold, PTL
=============================================================================
