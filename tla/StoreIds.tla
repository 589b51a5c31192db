------------------------------ MODULE StoreIds ------------------------------
(***************************************************************************)
(* internal/store/store.go: how Store.nextID gives out the ids of users,   *)
(* posts, comments, messages, photos and everything else, while other      *)
(* goroutines use the store.  Three things protect it: the mutex idsMu, a  *)
(* transaction, and a pool of one connection (SetMaxOpenConns(1)), which   *)
(* whoever runs a statement holds until it is done, and whoever reads rows *)
(* until they are closed.                                                  *)
(*                                                                         *)
(* A caller inserts a row with its id after nextID has returned.  Nobody   *)
(* else writes the table counters (Store.SetCounter is not called).        *)
(***************************************************************************)
EXTENDS Naturals, Sequences, FiniteSets

CONSTANTS
    Names,      \* names of counters
    Callers,    \* goroutines that take ids
    Readers,    \* goroutines that read rows
    MaxId,      \* bound: ids of a name
    Crashes,    \* may the process be killed?
    Failures,   \* may a statement or a commit fail?
    None        \* nobody, no name

ASSUME ConstantsAssumption ==
    /\ None \notin Callers \cup Readers \cup Names
    /\ Callers \cap Readers = {}
    /\ MaxId \in Nat

VARIABLES
    idsMu,      \* the caller that holds Store.idsMu
    conn,       \* who holds the connection
    counters,   \* table counters as committed; 0: no row
    caller,     \* what each caller does next, for which name, with which id
    reader,     \* what each reader does next
    rows,       \* the ids of the rows inserted under each name
    given       \* history: the ids nextID returned under each name, in order

vars == <<idsMu, conn, counters, caller, reader, rows, given>>

Idle == [pc |-> "idle", name |-> None, value |-> 0]

Init ==
    /\ idsMu = None
    /\ conn = None
    /\ counters = [n \in Names |-> 0]
    /\ caller = [c \in Callers |-> Idle]
    /\ reader = [r \in Readers |-> "idle"]
    /\ rows = [n \in Names |-> {}]
    /\ given = [n \in Names |-> <<>>]

At(c, pc) == caller[c].pc = pc
Goes(c, pc) == caller' = [caller EXCEPT ![c].pc = pc]
NameOf(c) == caller[c].name

-----------------------------------------------------------------------------
(* Store.nextID. *)

(* Callers at work on a name, for the bound. *)
Pending(n) == Cardinality({c \in Callers : caller[c].name = n})

Call(c, n) ==
    /\ At(c, "idle")
    /\ counters[n] + Pending(n) < MaxId
    /\ caller' = [caller EXCEPT ![c] = [pc |-> "lock", name |-> n, value |-> 0]]
    /\ UNCHANGED <<idsMu, conn, counters, reader, rows, given>>

Lock(c) ==
    /\ At(c, "lock")
    /\ idsMu = None
    /\ idsMu' = c
    /\ Goes(c, "begin")
    /\ UNCHANGED <<conn, counters, reader, rows, given>>

(* Begin waits for the connection. *)
Begin(c) ==
    /\ At(c, "begin")
    /\ conn = None
    /\ conn' = c
    /\ Goes(c, "select")
    /\ UNCHANGED <<idsMu, counters, reader, rows, given>>

(* Mutants: the counter is read through the pool, not through the          *)
(* transaction; the id returned is the last one given out.                 *)
SelectThroughPool(c) ==
    /\ At(c, "select")
    /\ conn = None
    /\ caller' = [caller EXCEPT ![c].pc = "upsert", ![c].value = counters[NameOf(c)] + 1]
    /\ UNCHANGED <<idsMu, conn, counters, reader, rows, given>>

SelectLast(c) ==
    /\ At(c, "select")
    /\ caller' = [caller EXCEPT ![c].pc = "upsert", ![c].value =
                     IF counters[NameOf(c)] = 0 THEN 1 ELSE counters[NameOf(c)]]
    /\ UNCHANGED <<idsMu, conn, counters, reader, rows, given>>

Select(c) ==
    /\ At(c, "select")
    /\ caller' = [caller EXCEPT ![c].pc = "upsert", ![c].value = counters[NameOf(c)] + 1]
    /\ UNCHANGED <<idsMu, conn, counters, reader, rows, given>>

(* Written within the transaction: nobody sees it before the commit. *)
Upsert(c) ==
    /\ At(c, "upsert")
    /\ Goes(c, "commit")
    /\ UNCHANGED <<idsMu, conn, counters, reader, rows, given>>

(* Mutant: the error of the commit is ignored. *)
CommitUnchecked(c) ==
    /\ At(c, "commit")
    /\ conn' = None
    /\ \/ counters' = [counters EXCEPT ![NameOf(c)] = caller[c].value]
       \/ Failures /\ UNCHANGED counters
    /\ Goes(c, "return")
    /\ UNCHANGED <<idsMu, reader, rows, given>>

Commit(c) ==
    /\ At(c, "commit")
    /\ conn' = None
    /\ counters' = [counters EXCEPT ![NameOf(c)] = caller[c].value]
    /\ Goes(c, "return")
    /\ UNCHANGED <<idsMu, reader, rows, given>>

(* Begin, a statement or the commit fails; a commit that reports an error  *)
(* may have taken effect all the same.  The deferred Rollback gives the    *)
(* connection back, then the deferred Unlock the mutex (Failed).           *)
Fail(c) ==
    /\ Failures
    /\ caller[c].pc \in {"begin", "select", "upsert", "commit"}
    /\ conn' = IF conn = c THEN None ELSE conn
    /\ \/ UNCHANGED counters
       \/ At(c, "commit") /\ counters' = [counters EXCEPT ![NameOf(c)] = caller[c].value]
    /\ Goes(c, "failed")
    /\ UNCHANGED <<idsMu, reader, rows, given>>

Failed(c) ==
    /\ At(c, "failed")
    /\ idsMu' = None
    /\ caller' = [caller EXCEPT ![c] = Idle]
    /\ UNCHANGED <<conn, counters, reader, rows, given>>

Return(c) ==
    /\ At(c, "return")
    /\ idsMu' = None
    /\ given' = [given EXCEPT ![NameOf(c)] = Append(@, caller[c].value)]
    /\ Goes(c, "insert")
    /\ UNCHANGED <<conn, counters, reader, rows>>

-----------------------------------------------------------------------------
(* The rest of the store. *)

(* AddComment, AddMessage, Register, ...: the row with the new id.  The    *)
(* statement takes the connection, runs, and gives it back.                *)
Insert(c) ==
    /\ At(c, "insert")
    /\ conn = None
    /\ rows' = [rows EXCEPT ![NameOf(c)] = @ \cup {caller[c].value}]
    /\ caller' = [caller EXCEPT ![c] = Idle]
    /\ UNCHANGED <<idsMu, conn, counters, reader, given>>

(* Comments, Messages, Friends, ...: no function of the store runs another *)
(* statement while it has rows open.                                       *)
Query(r) ==
    /\ reader[r] = "idle"
    /\ reader' = [reader EXCEPT ![r] = "query"]
    /\ UNCHANGED <<idsMu, conn, counters, caller, rows, given>>

OpenRows(r) ==
    /\ reader[r] = "query"
    /\ conn = None
    /\ conn' = r
    /\ reader' = [reader EXCEPT ![r] = "rows"]
    /\ UNCHANGED <<idsMu, counters, caller, rows, given>>

CloseRows(r) ==
    /\ reader[r] = "rows"
    /\ conn' = None
    /\ reader' = [reader EXCEPT ![r] = "idle"]
    /\ UNCHANGED <<idsMu, counters, caller, rows, given>>

(* The process is killed and starts again; what was committed stays. *)
Crash ==
    /\ Crashes
    /\ idsMu' = None
    /\ conn' = None
    /\ caller' = [c \in Callers |-> Idle]
    /\ reader' = [r \in Readers |-> "idle"]
    /\ UNCHANGED <<counters, rows, given>>

Step(c) ==
    \/ Lock(c) \/ Begin(c) \/ Select(c) \/ Upsert(c) \/ Commit(c)
    \/ Fail(c) \/ Failed(c) \/ Return(c) \/ Insert(c)

Next ==
    \/ \E c \in Callers : (\E n \in Names : Call(c, n)) \/ Step(c)
    \/ \E r \in Readers : Query(r) \/ OpenRows(r) \/ CloseRows(r)
    \/ Crash

Spec == Init /\ [][Next]_vars

(* Goroutines run; sync.Mutex and the queue of the connection pool starve  *)
(* nobody.                                                                 *)
FairSpec ==
    /\ Spec
    /\ \A c \in Callers :
          /\ SF_vars(Lock(c)) /\ SF_vars(Begin(c)) /\ SF_vars(Insert(c))
          /\ WF_vars(Select(c) \/ Upsert(c) \/ Commit(c) \/ Failed(c) \/ Return(c))
    /\ \A r \in Readers : SF_vars(OpenRows(r)) /\ WF_vars(CloseRows(r))

-----------------------------------------------------------------------------
InNextId == {"begin", "select", "upsert", "commit", "return", "failed"}
InTransaction == {"select", "upsert", "commit"}
Pcs == InNextId \cup {"idle", "lock", "insert"}
CallerType == [pc : Pcs, name : Names \cup {None}, value : Nat]

(* Type invariant, with who holds the mutex and the connection. *)
TypeOK ==
    /\ idsMu \in Callers \cup {None}
    /\ conn \in Callers \cup Readers \cup {None}
    /\ counters \in [Names -> Nat]
    /\ caller \in [Callers -> CallerType]
    /\ reader \in [Readers -> {"idle", "query", "rows"}]
    /\ rows \in [Names -> SUBSET Nat]
    /\ given \in [Names -> Seq(Nat)]
    /\ \A c \in Callers :
         /\ caller[c].pc # "idle" => caller[c].name \in Names
         /\ caller[c].pc \in InNextId <=> idsMu = c
         /\ caller[c].pc \in InTransaction <=> conn = c
    /\ \A r \in Readers : reader[r] = "rows" <=> conn = r

(* No insert of a new row meets a row with its id: ids in use and ids on   *)
(* their way to a row differ, over failures, crashes and any interleaving. *)
InsertsAreNew ==
    \A c \in Callers :
        At(c, "insert") =>
            /\ caller[c].value \notin rows[NameOf(c)]
            /\ \A d \in Callers \ {c} :
                 At(d, "insert") /\ NameOf(d) = NameOf(c) => caller[d].value # caller[c].value

(* Nobody waits for ever: the mutex is held while waiting for the          *)
(* connection, the connection is never held while waiting for the mutex or *)
(* for a second connection.                                                *)
CallsReturn ==
    /\ \A c \in Callers : caller[c].pc # "idle" ~> caller[c].pc = "idle"
    /\ \A r \in Readers : reader[r] = "query" ~> reader[r] = "idle"

(* Whose next step could be taken at this moment: not who waits for the    *)
(* mutex or the connection while somebody holds it.                        *)
CanGoOn(x) ==
    \/ /\ x \in Callers
       /\ \/ At(x, "lock") /\ idsMu = None
          \/ caller[x].pc \in {"begin", "insert"} /\ conn = None
          \/ caller[x].pc \in {"select", "upsert", "commit", "failed", "return"}
    \/ /\ x \in Readers
       /\ \/ reader[x] = "query" /\ conn = None
          \/ reader[x] = "rows"

(* What CallsReturn rests on at every moment.  Whoever has to wait waits   *)
(* for one who can go on, or who waits in turn for one who can: the holder *)
(* of the mutex for the holder of the connection, who waits for nobody.    *)
NobodyIsStuck ==
    /\ conn # None => CanGoOn(conn)
    /\ idsMu # None => \/ CanGoOn(idsMu)
                       \/ At(idsMu, "begin") /\ conn \notin {None, idsMu}
    /\ \A c \in Callers :
          ~At(c, "idle") => CanGoOn(c) \/ idsMu \notin {None, c} \/ conn \notin {None, c}
    /\ \A r \in Readers : reader[r] # "idle" => CanGoOn(r) \/ conn \notin {None, r}

(* How many steps a call has before it, if nothing fails; one that fails   *)
(* has one left.                                                           *)
StepsLeft(c) ==
    [lock |-> 7, begin |-> 6, select |-> 5, upsert |-> 4, commit |-> 3, return |-> 2,
     failed |-> 1, insert |-> 1, idle |-> 0][caller[c].pc]

(* Whatever is done, by whomever, brings the calls in progress nearer to   *)
(* their end and none of them back: nothing is tried again.                *)
CallsCountDown ==
    [][\A c \in Callers : ~At(c, "idle") =>
          /\ StepsLeft(c)' <= StepsLeft(c)
          /\ Step(c) => StepsLeft(c)' < StepsLeft(c)]_vars

Ids == INSTANCE IdSequence

(* Store.nextID implements the sequence of ids. *)
ImplementsIds == Ids!IdSpec

-----------------------------------------------------------------------------
(* The inductive invariant behind InsertsAreNew and ImplementsIds. *)

Given(n) == {given[n][i] : i \in DOMAIN given[n]}

(* What was given out is committed, so is what is about to be returned;    *)
(* what was read in the transaction is still the next id.                  *)
Committed ==
    /\ \A n \in Names :
         /\ \A id \in Given(n) : id \in 1..counters[n]
         /\ \A id \in rows[n] : id \in Given(n)
    /\ \A c \in Callers :
         /\ caller[c].pc \in {"upsert", "commit"} => caller[c].value = counters[NameOf(c)] + 1
         /\ At(c, "return") => /\ caller[c].value = counters[NameOf(c)]
                               /\ caller[c].value > 0
                               /\ \A id \in Given(NameOf(c)) : id < caller[c].value
         /\ At(c, "insert") => caller[c].value \in Given(NameOf(c))

IdsInv == TypeOK /\ Committed /\ InsertsAreNew
=============================================================================
