--------------------------- MODULE MessagesProofs ---------------------------
(* Proofs about messages, for every set of users, chats and handlers.      *)
EXTENDS Messages, FiniteSetTheorems, FunctionTheorems, WellFoundedInduction, TLAPS

LEMMA IdleFacts == Idle \in HandlerType /\ Idle.pc = "idle"
  BY ConstantsAssumption DEF Idle, HandlerType

LEMMA NotReadingFacts == NotReading \in ReaderType /\ NotReading.pc = "idle"
  BY DEF NotReading, ReaderType

(* Handlers that hold an id, and messages that have been inserted.         *)
Sending == {h \in Handlers : handler[h].pc \in {"insert", "members", "push", "pushMine", "pushMembers"}}

Served(mid) == \E i \in DOMAIN stored : stored[i].mid = mid

-----------------------------------------------------------------------------
(* Finite sets.  The induction theorems of the library cannot be used with *)
(* a formula of ours; the well-founded order of the finite subsets can.    *)
LEMMA MinimalSet ==
    ASSUME NEW S, NEW F, F \subseteq FiniteSubsetsOf(S), F # {}
    PROVE  \E T \in F : \A U \in F : U \subseteq T => U = T
  <1>1. PICK T \in F : \A U \in F : ~ (<<U, T>> \in StrictSubsetOrdering(S))
    BY FS_StrictSubsetOrderingWellFounded, WFMin
  <1> QED  BY <1>1 DEF StrictSubsetOrdering, FiniteSubsetsOf

(* The element with the smallest set of elements that are not below it.    *)
LEMMA GreatestElement ==
    ASSUME NEW S, S \subseteq Nat, IsFiniteSet(S), S # {}
    PROVE  \E greatest \in S : \A n \in S : n <= greatest
  <1> DEFINE NotBelow(n) == {m \in S : n <= m}
             F == {NotBelow(n) : n \in S}
  <1>1. F \subseteq FiniteSubsetsOf(S)
    BY FS_Subset DEF FiniteSubsetsOf
  <1>2. PICK n \in S : \A m \in S : NotBelow(m) \subseteq NotBelow(n) => NotBelow(m) = NotBelow(n)
    <2>1. /\ F # {} /\ \A m \in S : NotBelow(m) \in F
          /\ \A T \in F : \E m \in S : T = NotBelow(m)
      OBVIOUS
    <2> HIDE DEF F, NotBelow
    <2>2. PICK T \in F : \A U \in F : U \subseteq T => U = T
      BY <1>1, <2>1, MinimalSet
    <2> QED  BY <2>1, <2>2
  <1>3. ASSUME NEW m \in S PROVE m <= n
    <2>1. m \in Nat /\ n \in Nat
      OBVIOUS
    <2>2. SUFFICES ASSUME n < m PROVE FALSE
      BY <2>1
    <2>3. \A x \in S : m <= x => n <= x
      BY <2>1, <2>2
    <2>4. NotBelow(m) \subseteq NotBelow(n)
      BY <2>3
    <2>5. NotBelow(m) = NotBelow(n)
      BY <1>2, <2>4
    <2>6. n \in NotBelow(n)
      BY <2>1
    <2> QED  BY <2>1, <2>2, <2>5, <2>6
  <1> QED  BY <1>3

LEMMA SameSize ==
    ASSUME NEW S, NEW T, IsFiniteSet(S), NEW f \in [S -> T],
           \A x, y \in S : f[x] = f[y] => x = y,
           \A t \in T : \E x \in S : f[x] = t
    PROVE  IsFiniteSet(T) /\ Cardinality(T) = Cardinality(S)
  <1>1. f \in Bijection(S, T)
    BY Fun_IsInj, Fun_IsSurj DEF Bijection
  <1> QED  BY <1>1, FS_Bijection DEF ExistsBijection

-----------------------------------------------------------------------------
(* The dialogs of a user. *)
LEMMA MessagesFinite == ASSUME TypeOK PROVE IsFiniteSet(messages) /\ IsFiniteSet(Mids)
  <1> DEFINE f == [m \in messages |-> m.mid]
  <1>1. f \in [messages -> Mids] /\ \A m, n \in messages : f[m] = f[n] => m = n
    BY DEF TypeOK, MessageType
  <1>2. f \in Injection(messages, Mids)
    BY <1>1, Fun_IsInj
  <1>3. IsFiniteSet(Mids)
    BY FS_Interval, ConstantsAssumption DEF Mids
  <1> QED  BY <1>2, <1>3, FS_Injection

(* Every dialog has a last message.                                        *)
LEMMA LastOfDialog ==
    ASSUME TypeOK, NEW u \in Users, NEW m \in messages, InDialogs(m, u)
    PROVE  \E n \in LastMessages(u) : PeerFor(n, u) = PeerFor(m, u) /\ n.mid >= m.mid
  <1> DEFINE dialog == {n \in messages : InDialogs(n, u) /\ PeerFor(n, u) = PeerFor(m, u)}
             mids == {n.mid : n \in dialog}
  <1>1. mids \subseteq Mids /\ m.mid \in mids
    BY DEF TypeOK, MessageType
  <1>2. IsFiniteSet(mids) /\ mids # {} /\ mids \subseteq Nat
    <2>1. IsFiniteSet(mids)
      BY <1>1, MessagesFinite, FS_Subset
    <2> QED  BY <1>1, <2>1 DEF Mids
  <1>3. PICK last \in mids : \A x \in mids : x <= last
    <2> HIDE DEF mids
    <2> QED  BY <1>2, GreatestElement
  <1>4. PICK n \in dialog : n.mid = last
    BY <1>3
  <1>5. n \in LastMessages(u)
    BY <1>3, <1>4 DEF LastMessages
  <1>6. last >= m.mid
    BY <1>1, <1>2, <1>3
  <1> QED  BY <1>4, <1>5, <1>6

(* As many dialogs are listed as are counted: one for every peer.          *)
LEMMA DialogsCounted ==
    ASSUME TypeOK, NEW u \in Users
    PROVE  /\ IsFiniteSet(LastMessages(u))
           /\ Cardinality(LastMessages(u)) = DialogCount(u)
           /\ DialogCount(u) \in Nat
  <1> DEFINE peers == {PeerFor(m, u) : m \in {n \in messages : InDialogs(n, u)}}
             f == [m \in LastMessages(u) |-> PeerFor(m, u)]
  <1>1. LastMessages(u) \subseteq messages /\ \A m \in LastMessages(u) : InDialogs(m, u)
    BY DEF LastMessages
  <1>2. IsFiniteSet(LastMessages(u))
    BY <1>1, MessagesFinite, FS_Subset
  <1>3. f \in [LastMessages(u) -> peers]
    BY <1>1
  <1>4. ASSUME NEW m \in LastMessages(u), NEW n \in LastMessages(u), f[m] = f[n] PROVE m = n
    <2>1. m.mid <= n.mid /\ n.mid <= m.mid
      BY <1>4 DEF LastMessages
    <2>2. m.mid \in Nat /\ n.mid \in Nat
      BY <1>1 DEF TypeOK, MessageType, Mids
    <2> QED  BY <1>1, <2>1, <2>2 DEF TypeOK
  <1>5. ASSUME NEW t \in peers PROVE \E m \in LastMessages(u) : f[m] = t
    <2>1. PICK m \in messages : InDialogs(m, u) /\ t = PeerFor(m, u)
      OBVIOUS
    <2> QED  BY <2>1, LastOfDialog
  <1>6. Cardinality(peers) = Cardinality(LastMessages(u))
    <2> HIDE DEF f, peers
    <2> QED  BY <1>2, <1>3, <1>4, <1>5, SameSize
  <1> QED  BY <1>2, <1>6, FS_CardinalityType DEF DialogCount

-----------------------------------------------------------------------------
(* The handlers that list dialogs. *)
LEMMA NotListingFacts == NotListing \in ListerType /\ NotListing.pc = "idle"
  BY DEF NotListing, ListerType

LEMMA NoticeFacts ==
    ASSUME ListersOK, Notice, NEW r \in Readers
    PROVE  /\ lister'[r] = [lister[r] EXCEPT !.changed = lister'[r].changed]
           /\ lister'[r] \in ListerType
           /\ lister[r].pc = "listed" \/ lister[r].changed => lister'[r].changed
           /\ lister'[r].pc = lister[r].pc /\ lister'[r].me = lister[r].me
           /\ lister'[r].offset = lister[r].offset /\ lister'[r].count = lister[r].count
           /\ lister'[r].page = lister[r].page
           /\ lister'[r].told = lister[r].told /\ lister'[r].total = lister[r].total
  <1>1. lister[r] \in ListerType
    BY DEF ListersOK
  <1>2. lister'[r] = [lister[r] EXCEPT !.changed = lister[r].changed \/ lister[r].pc = "listed"]
    BY DEF Notice
  <1> QED  BY <1>1, <1>2 DEF ListerType

LEMMA EntryFacts ==
    ASSUME TypeOK, NEW u \in Users, NEW m \in messages
    PROVE  Entry(m, u) \in EntryType /\ Entry(m, u).mid = m.mid /\ Entry(m, u).peer = PeerFor(m, u)
  <1>1. m \in MessageType
    BY DEF TypeOK
  <1>2. PeerFor(m, u) \in Peers /\ m.mid \in Mids
    BY <1>1 DEF PeerFor, MessageType, Peers
  <1> QED  BY <1>2 DEF Entry, EntryType

(* What a handler has that has just read a page. *)
LEMMA PageListed ==
    ASSUME TypeOK, NEW r \in Readers, NEW u \in Users,
           NEW offset \in 0 .. 1, NEW count \in 1 .. Count, ReadDialogs(r, u, offset, count)
    PROVE  \E page \in Dialogs(u, offset, count) :
              /\ lister' = [lister EXCEPT ![r] = lister'[r]] /\ lister'[r] \in ListerType
              /\ lister'[r].pc = "listed" /\ lister'[r].me = u
              /\ lister'[r].offset = offset /\ lister'[r].count = count
              /\ lister'[r].page = {Entry(m, u) : m \in page} /\ lister'[r].told = Known(u)
  <1>1. PICK page \in Dialogs(u, offset, count) :
          lister' = [lister EXCEPT ![r] =
             [pc |-> "listed", me |-> u, offset |-> offset, count |-> count,
              page |-> {Entry(m, u) : m \in page}, told |-> Known(u),
              total |-> 0, changed |-> FALSE]]
    BY DEF ReadDialogs
  <1> DEFINE entries == {Entry(m, u) : m \in page}
             new == [pc |-> "listed", me |-> u, offset |-> offset, count |-> count, page |-> entries,
                     told |-> Known(u), total |-> 0, changed |-> FALSE]
  <1>2. page \subseteq messages
    BY DEF Dialogs, LastMessages
  <1>3. entries \subseteq EntryType
    BY <1>2, EntryFacts
  <1>4. Known(u) \subseteq EntryType
    BY EntryFacts DEF Known
  <1> HIDE DEF entries
  <1>5. /\ new \in ListerType /\ new.pc = "listed" /\ new.me = u
        /\ new.offset = offset /\ new.count = count /\ new.page = entries /\ new.told = Known(u)
    <2>1. /\ u \in Users \cup {None} /\ offset \in Nat /\ count \in Nat /\ entries \in SUBSET EntryType
          /\ Known(u) \in SUBSET EntryType
      BY <1>3, <1>4, ConstantsAssumption
    <2> QED  BY <2>1 DEF ListerType
  <1>6. lister' = [lister EXCEPT ![r] = new]
    BY <1>1 DEF entries
  <1> HIDE DEF new
  <1>7. lister'[r] = new
    BY <1>6 DEF TypeOK, ListersOK
  <1> QED  BY <1>5, <1>6, <1>7 DEF entries

LEMMA CountedFacts ==
    ASSUME TypeOK, NEW r \in Readers, CountDialogs(r)
    PROVE  /\ lister' = [lister EXCEPT ![r] = lister'[r]] /\ lister'[r] \in ListerType
           /\ lister[r].pc = "listed" /\ lister'[r].pc = "answered" /\ lister'[r].me = lister[r].me
           /\ lister'[r].offset = lister[r].offset /\ lister'[r].count = lister[r].count
           /\ lister'[r].page = lister[r].page
           /\ lister'[r].total = DialogCount(lister[r].me) /\ lister'[r].changed = lister[r].changed
  <1> DEFINE c == lister[r]
             total == DialogCount(c.me)
             new == [c EXCEPT !.pc = "answered", !.total = total, !.told = {}]
  <1>1. c \in ListerType /\ c.pc = "listed" /\ c.me \in Users
    BY DEF TypeOK, ListersOK, CountDialogs
  <1>2. total \in Nat
    BY <1>1, DialogsCounted
  <1>3. lister' = [lister EXCEPT ![r] = new]
    BY DEF CountDialogs
  <1>4. lister'[r] = new
    BY <1>3 DEF TypeOK, ListersOK
  <1> HIDE DEF total, c
  <1>5. /\ new \in ListerType /\ new.pc = "answered" /\ new.me = c.me
        /\ new.offset = c.offset /\ new.count = c.count /\ new.page = c.page /\ new.total = total /\ new.changed = c.changed
    BY <1>1, <1>2 DEF ListerType
  <1> HIDE DEF new
  <1> QED  BY <1>1, <1>3, <1>4, <1>5 DEF c, total

(* What a step does to the handlers that list dialogs. *)
LEMMA ListerActions ==
    ASSUME [Next]_vars
    PROVE  \/ Notice /\ \E h \in Handlers : Insert(h)
           \/ Notice /\ \E mid \in 1 .. MaxMid : DeleteMessage(mid)
           \/ \E r \in Readers, u \in Users, offset \in 0 .. 1, count \in 1 .. Count :
                 ReadDialogs(r, u, offset, count) /\ messages' = messages
           \/ \E r \in Readers : CountDialogs(r) /\ messages' = messages
           \/ \E r \in Readers : TakeDialogs(r) /\ messages' = messages
           \/ lister' = [r \in Readers |-> NotListing] /\ messages' = messages
           \/ lister' = lister /\ messages' = messages
           \/ lister' = lister /\ \E v \in Users, mids \in SUBSET (1 .. MaxMid) : MarkMessagesRead(v, mids)
  <1>1. ASSUME NEW h \in Handlers, Send(h)
        PROVE  (Insert(h) /\ Notice) \/ (lister' = lister /\ messages' = messages)
    <2>1. Insert(h) => Insert(h) /\ Notice
      BY DEF Insert
    <2>2. NextID(h) \/ Members(h) => lister' = lister /\ messages' = messages
      BY DEF NextID, Members
    <2>3. PushPeer(h) \/ PushMine(h) => lister' = lister /\ messages' = messages
      BY DEF PushPeer, PushMine
    <2>4. PushMember(h) => lister' = lister /\ messages' = messages
      BY DEF PushMember
    <2> QED  BY <1>1, <2>1, <2>2, <2>3, <2>4 DEF Send
  <1>2. ASSUME NEW h \in Handlers, NEW v \in Users, NEW to \in Peers,
               messagesSend(h, v, to) \/ handleMessageSend(h, v, to)
        PROVE  lister' = lister /\ messages' = messages
    BY <1>2 DEF messagesSend, handleMessageSend, Starts
  <1>3. ASSUME NEW mid \in 1 .. MaxMid, messagesDelete(mid) \/ handleMessageDelete(mid)
        PROVE  DeleteMessage(mid) /\ Notice
    BY <1>3 DEF messagesDelete, handleMessageDelete, DeleteMessage
  <1>4. ASSUME NEW v \in Users, NEW mids \in SUBSET (1 .. MaxMid), messagesMarkAsRead(v, mids)
        PROVE  lister' = lister /\ MarkMessagesRead(v, mids)
    BY <1>4 DEF messagesMarkAsRead, MarkMessagesRead
  <1>5. ASSUME NEW r \in Readers,
               (\E peer \in Peers : OpenHistory(r, peer)) \/ messagesGetHistory(r) \/ CloseHistory(r)
        PROVE  lister' = lister /\ messages' = messages
    BY <1>5 DEF OpenHistory, messagesGetHistory, CloseHistory
  <1>6. ASSUME NEW r \in Readers, ListDialogs(r)
        PROVE  \/ \E u \in Users, offset \in 0 .. 1, count \in 1 .. Count :
                     ReadDialogs(r, u, offset, count) /\ messages' = messages
               \/ (CountDialogs(r) /\ messages' = messages)
               \/ (TakeDialogs(r) /\ messages' = messages)
    BY <1>6 DEF ListDialogs, messagesGetDialogs, messagesGet, ReadDialogs, CountDialogs, TakeDialogs
  <1>7. Crash => lister' = [r \in Readers |-> NotListing] /\ messages' = messages
    BY DEF Crash
  <1> QED  BY <1>1, <1>2, <1>3, <1>4, <1>5, <1>6, <1>7 DEF Next, vars

LEMMA ListersStep == ASSUME TypeOK, [Next]_vars PROVE ListersOK'
  <1>t. ListersOK
    BY DEF TypeOK
  <1>1. CASE Notice
    <2>1. lister' = [r \in Readers |-> lister'[r]]
      BY <1>1 DEF Notice
    <2> QED  BY <1>t, <1>1, <2>1, NoticeFacts DEF ListersOK
  <1>2. ASSUME NEW r \in Readers, NEW u \in Users,
               NEW offset \in 0 .. 1, NEW count \in 1 .. Count, ReadDialogs(r, u, offset, count)
        PROVE  ListersOK'
    BY <1>t, <1>2, PageListed DEF ListersOK
  <1>3. ASSUME NEW r \in Readers, CountDialogs(r) PROVE ListersOK'
    BY <1>t, <1>3, CountedFacts DEF ListersOK
  <1>4. ASSUME NEW r \in Readers, TakeDialogs(r) PROVE ListersOK'
    BY <1>t, <1>4, NotListingFacts DEF TakeDialogs, ListersOK
  <1>5. CASE lister' = [r \in Readers |-> NotListing]
    BY <1>5, NotListingFacts DEF ListersOK
  <1>6. CASE lister' = lister
    BY <1>t, <1>6 DEF ListersOK
  <1> QED  BY <1>1, <1>2, <1>3, <1>4, <1>5, <1>6, ListerActions

-----------------------------------------------------------------------------
(* The inductive invariant for the types: every id is that of one handler, *)
(* before the message is inserted, or of one message.                      *)
WorkInv ==
    /\ \A h \in Handlers : handler[h].pc # "idle" => handler[h].from \in Users /\ handler[h].to \in Peers
    /\ \A h \in Handlers :
          /\ handler[h].pc \in {"push", "pushMine"} => handler[h].to \in Users
          /\ handler[h].pc \in {"members", "pushMembers"} => handler[h].to \in Chats

IdsInv ==
    /\ \A i \in DOMAIN stored : stored[i].mid <= lastMid
    /\ \A i, j \in DOMAIN stored : stored[i].mid = stored[j].mid => i = j
    /\ \A h \in Sending : /\ handler[h].mid \in 1 .. lastMid
                          /\ Served(handler[h].mid) <=> handler[h].pc # "insert"
    /\ \A h, k \in Sending : handler[h].mid = handler[k].mid => h = k

TypeInv == TypeOK /\ lastMid + Cardinality(Pending) <= MaxMid /\ WorkInv /\ IdsInv

(* What a step of a handler does to the handlers.                          *)
LEMMA HandlerStep ==
    ASSUME handler \in [Handlers -> HandlerType], NEW h \in Handlers, NEW new \in HandlerType,
           handler' = [handler EXCEPT ![h] = new]
    PROVE  /\ handler' \in [Handlers -> HandlerType] /\ handler'[h] = new
           /\ \A k \in Handlers : k # h => handler'[k] = handler[k]
  OBVIOUS

LEMMA PendingFacts ==
    /\ IsFiniteSet(Pending) /\ Cardinality(Pending) \in Nat
    /\ (IsFiniteSet(Pending) /\ Cardinality(Pending) \in Nat)'
  <1>1. IsFiniteSet(Pending)
    BY HandlersAssumption, FS_Subset DEF Pending
  <1>2. IsFiniteSet(Pending')
    BY HandlersAssumption, FS_Subset DEF Pending
  <1> QED  BY <1>1, <1>2, FS_CardinalityType

(* A step of a handler that neither takes an id nor is about to.           *)
LEMMA SamePending ==
    ASSUME handler \in [Handlers -> HandlerType], NEW h \in Handlers,
           handler[h].pc # "nextID", handler'[h].pc # "nextID",
           \A k \in Handlers : k # h => handler'[k] = handler[k]
    PROVE  Pending' = Pending
  BY DEF Pending

LEMMA InitTypeInv == Init => TypeInv
  <1> SUFFICES ASSUME Init PROVE TypeInv
    OBVIOUS
  <1>1. Pending = {} /\ Sending = {}
    BY IdleFacts DEF Init, Pending, Sending
  <1>2. TypeOK
    BY IdleFacts, NotReadingFacts, NotListingFacts, ConstantsAssumption DEF Init, TypeOK, ListersOK
  <1>3. lastMid + Cardinality(Pending) <= MaxMid
    BY <1>1, FS_EmptySet, ConstantsAssumption DEF Init
  <1> QED  BY <1>1, <1>2, <1>3, IdleFacts DEF Init, TypeInv, WorkInv, IdsInv

(* Steps that change neither the handlers nor the ids nor what is stored.  *)
LEMMA QuietStep ==
    ASSUME TypeInv, UNCHANGED <<lastMid, handler, told, stored, done>>,
           messages' \subseteq MessageType, reader' \in [Readers -> ReaderType], ListersOK',
           \A m, n \in messages' : m.mid = n.mid => m = n,
           \A m \in messages' : \E n \in messages : m.mid = n.mid /\ m.from = n.from /\ m.to = n.to
    PROVE  TypeInv'
  <1>1. TypeOK'
    <2>1. \A m \in messages' : \E i \in DOMAIN stored :
             stored[i].mid = m.mid /\ stored[i].from = m.from /\ stored[i].to = m.to
      BY DEF TypeInv, TypeOK
    <2> QED  BY <2>1 DEF TypeInv, TypeOK
  <1>2. Pending' = Pending /\ Sending' = Sending
    BY DEF Pending, Sending
  <1>3. WorkInv'
    BY DEF TypeInv, WorkInv
  <1>4. IdsInv'
    BY <1>2 DEF TypeInv, IdsInv, Served
  <1>5. (lastMid + Cardinality(Pending) <= MaxMid)'
    BY <1>2 DEF TypeInv
  <1> QED  BY <1>1, <1>3, <1>4, <1>5 DEF TypeInv

LEMMA PageMids == ASSUME TypeOK, NEW peer, NEW offset PROVE PageOf(peer, offset) \subseteq Mids
  <1>1. \A m \in History(peer) : m.mid \in Mids
    BY DEF TypeOK, History, chatHistory, ChatMessages, MessagesOf, MessageType
  <1> QED  BY <1>1 DEF PageOf

LEMMA QuietActions ==
    ASSUME TypeInv,
           \/ \E mid \in 1 .. MaxMid : messagesDelete(mid) \/ handleMessageDelete(mid)
           \/ \E v \in Users, mids \in SUBSET (1 .. MaxMid) : messagesMarkAsRead(v, mids)
           \/ \E r \in Readers :
                 \/ \E peer \in Peers : OpenHistory(r, peer)
                 \/ messagesGetHistory(r) \/ CloseHistory(r) \/ ListDialogs(r)
           \/ UNCHANGED vars
    PROVE  /\ UNCHANGED <<lastMid, handler, told, stored, done>>
           /\ messages' \subseteq MessageType
           /\ reader' \in [Readers -> ReaderType]
           /\ \A m, n \in messages' : m.mid = n.mid => m = n
           /\ \A m \in messages' : \E n \in messages : m.mid = n.mid /\ m.from = n.from /\ m.to = n.to
  <1>t. /\ messages \subseteq MessageType /\ reader \in [Readers -> ReaderType]
        /\ \A m, n \in messages : m.mid = n.mid => m = n
    BY DEF TypeInv, TypeOK
  <1>1. ASSUME NEW mid \in 1 .. MaxMid, DeleteMessage(mid)
        PROVE  /\ UNCHANGED <<lastMid, handler, told, stored, done>> /\ messages' \subseteq messages
               /\ reader' \in [Readers -> ReaderType]
    <2>1. \A r \in Readers : reader'[r] \in ReaderType
      <3> SUFFICES ASSUME NEW r \in Readers PROVE reader'[r] \in ReaderType
        OBVIOUS
      <3>1. reader[r] \in ReaderType
        BY <1>t
      <3> QED  BY <1>1, <3>1 DEF DeleteMessage, ReaderType
    <2> QED  BY <1>1, <2>1 DEF DeleteMessage
  <1>2. ASSUME NEW v \in Users, NEW mids \in SUBSET (1 .. MaxMid), MarkMessagesRead(v, mids)
        PROVE  /\ UNCHANGED <<lastMid, handler, told, reader, stored, done>>
               /\ messages' \subseteq MessageType
               /\ \A m, n \in messages' : m.mid = n.mid => m = n
               /\ \A m \in messages' : \E n \in messages : m.mid = n.mid /\ m.from = n.from /\ m.to = n.to
    <2> DEFINE Marked(m) == [m EXCEPT !.read = @ \/ (m.mid \in mids /\ m.to = v)]
    <2>1. messages' = {Marked(m) : m \in messages}
      BY <1>2 DEF MarkMessagesRead
    <2>2. ASSUME NEW m \in messages
          PROVE  /\ Marked(m) \in MessageType /\ Marked(m).mid = m.mid
                 /\ Marked(m).from = m.from /\ Marked(m).to = m.to
      <3>1. m \in MessageType
        BY <1>t
      <3> QED  BY <3>1 DEF MessageType
    <2> HIDE DEF Marked
    <2>3. \A m \in messages' : \E n \in messages : m = Marked(n)
      BY <2>1
    <2>4. \A m, n \in messages' : m.mid = n.mid => m = n
      <3> SUFFICES ASSUME NEW m \in messages', NEW n \in messages', m.mid = n.mid PROVE m = n
        OBVIOUS
      <3>1. PICK a \in messages, b \in messages : m = Marked(a) /\ n = Marked(b)
        BY <2>3
      <3> QED  BY <1>t, <2>2, <3>1
    <2> QED  BY <1>2, <2>2, <2>3, <2>4 DEF MarkMessagesRead
  <1>3. ASSUME NEW r \in Readers, NEW peer \in Peers, OpenHistory(r, peer)
        PROVE  reader' \in [Readers -> ReaderType]
    <2> DEFINE seen == {m.mid : m \in History(peer)}
               new == [NotReading EXCEPT !.pc = "reading", !.peer = peer, !.there = seen]
    <2>1. seen \subseteq Mids
      BY <1>t DEF History, chatHistory, ChatMessages, MessagesOf, MessageType
    <2> HIDE DEF seen
    <2>2. new \in ReaderType
      BY <2>1 DEF NotReading, ReaderType
    <2> QED  BY <1>3, <1>t, <2>2 DEF OpenHistory, seen
  <1>4. ASSUME NEW r \in Readers, messagesGetHistory(r) PROVE reader' \in [Readers -> ReaderType]
    <2> DEFINE c == reader[r]
               page == PageOf(c.peer, c.offset)
               pc == IF Cardinality(page) < Page THEN "done" ELSE "reading"
               new == [c EXCEPT !.pc = pc, !.offset = @ + Page, !.seen = @ \cup page,
                                !.repeats = @ \/ page \cap c.seen # {}]
    <2>1. page \subseteq Mids /\ c \in ReaderType
      BY <1>t, PageMids DEF TypeInv
    <2>2. reader' = [reader EXCEPT ![r] = new]
      BY <1>4 DEF messagesGetHistory
    <2>3. pc \in {"done", "reading"} /\ Page \in Nat
      BY ConstantsAssumption
    <2> HIDE DEF page, pc
    <2>4. new \in ReaderType
      <3>1. /\ c.peer \in Peers \cup {None} /\ c.offset + Page \in Nat /\ c.seen \cup page \in SUBSET Mids
            /\ (c.repeats \/ page \cap c.seen # {}) \in BOOLEAN
        BY <2>1, <2>3 DEF ReaderType
      <3>2. new = [c EXCEPT !.pc = pc, !.offset = c.offset + Page, !.seen = c.seen \cup page,
                            !.repeats = (c.repeats \/ page \cap c.seen # {})]
        OBVIOUS
      <3> HIDE DEF c
      <3> QED  BY <2>1, <2>3, <3>1, <3>2 DEF ReaderType
    <2> QED  BY <1>t, <2>2, <2>4
  <1>5. ASSUME NEW r \in Readers, CloseHistory(r) PROVE reader' \in [Readers -> ReaderType]
    BY <1>5, <1>t, NotReadingFacts DEF CloseHistory
  <1>6. CASE \E mid \in 1 .. MaxMid : messagesDelete(mid) \/ handleMessageDelete(mid)
    BY <1>t, <1>1, <1>6 DEF messagesDelete, handleMessageDelete
  <1>7. CASE \E v \in Users, mids \in SUBSET (1 .. MaxMid) : messagesMarkAsRead(v, mids)
    BY <1>t, <1>2, <1>7 DEF messagesMarkAsRead
  <1>8. CASE \E r \in Readers : \/ \E peer \in Peers : OpenHistory(r, peer)
                                \/ messagesGetHistory(r) \/ CloseHistory(r) \/ ListDialogs(r)
    <2>1. UNCHANGED <<messages, lastMid, handler, told, stored, done>>
      BY <1>8 DEF OpenHistory, messagesGetHistory, CloseHistory, ListDialogs, messagesGetDialogs,
                  messagesGet, ReadDialogs, CountDialogs, TakeDialogs
    <2>2. reader' \in [Readers -> ReaderType]
      <3>1. ASSUME NEW r \in Readers, ListDialogs(r) PROVE reader' = reader
        BY <3>1 DEF ListDialogs, messagesGetDialogs, messagesGet, ReadDialogs, CountDialogs, TakeDialogs
      <3> QED  BY <1>t, <1>3, <1>4, <1>5, <1>8, <3>1
    <2> QED  BY <1>t, <2>1, <2>2
  <1>9. CASE UNCHANGED vars
    BY <1>t, <1>9 DEF vars
  <1> QED  BY <1>6, <1>7, <1>8, <1>9

-----------------------------------------------------------------------------
(* What the steps of a handler do.                                         *)
SendingPcs == {"insert", "members", "push", "pushMine", "pushMembers"}

Others(h) == \A k \in Handlers : k # h => handler'[k] = handler[k]

Keeps(h) == /\ handler'[h].mid = handler[h].mid /\ handler'[h].from = handler[h].from
            /\ handler'[h].to = handler[h].to /\ handler'[h].api = handler[h].api
            /\ handler'[h].after = handler[h].after

LEMMA StartsEffect ==
    ASSUME TypeInv, NEW h \in Handlers, NEW v \in Users, NEW to \in Peers, NEW api \in BOOLEAN,
           Starts(h, v, to, api)
    PROVE  /\ handler' \in [Handlers -> HandlerType] /\ Others(h)
           /\ handler[h].pc = "idle" /\ handler'[h].pc = "nextID"
           /\ handler'[h].from = v /\ handler'[h].to = to /\ handler'[h].after = done
           /\ lastMid + Cardinality(Pending) < MaxMid
           /\ UNCHANGED <<messages, lastMid, told, reader, lister, stored, done>>
  <1> DEFINE new == [pc |-> "nextID", mid |-> 0, from |-> v, to |-> to, api |-> api, after |-> done, targets |-> {}]
  <1>1. new \in HandlerType
    BY ConstantsAssumption DEF TypeInv, TypeOK, HandlerType
  <1>2. handler' = [handler EXCEPT ![h] = new]
    BY DEF Starts
  <1>3. new.pc = "nextID" /\ new.from = v /\ new.to = to /\ new.after = done
    OBVIOUS
  <1> HIDE DEF new
  <1> QED  BY <1>1, <1>2, <1>3 DEF Starts, TypeInv, TypeOK, Others

LEMMA NextIDEffect ==
    ASSUME TypeInv, NEW h \in Handlers, NextID(h)
    PROVE  /\ handler' \in [Handlers -> HandlerType] /\ Others(h)
           /\ handler[h].pc = "nextID" /\ handler'[h].pc = "insert"
           /\ handler'[h].mid = lastMid + 1 /\ lastMid' = lastMid + 1 /\ lastMid + 1 \in Mids
           /\ handler'[h].from = handler[h].from /\ handler'[h].to = handler[h].to
           /\ handler'[h].api = handler[h].api /\ handler'[h].after = handler[h].after
           /\ Pending' = Pending \ {h} /\ h \in Pending
           /\ UNCHANGED <<messages, told, reader, lister, stored, done>>
  <1> DEFINE w == handler[h]
             new == [w EXCEPT !.pc = "insert", !.mid = lastMid + 1]
  <1>1. w \in HandlerType /\ w.pc = "nextID"
    BY DEF TypeInv, TypeOK, NextID
  <1>2. handler' = [handler EXCEPT ![h] = new]
    BY DEF NextID
  <1>3. h \in Pending
    BY <1>1 DEF Pending
  <1>4. Cardinality(Pending) \in Nat /\ Cardinality(Pending) # 0
    BY <1>3, PendingFacts, FS_EmptySet
  <1>5. lastMid + 1 \in Mids
    <2>1. lastMid \in 0 .. MaxMid /\ lastMid + Cardinality(Pending) <= MaxMid
      BY DEF TypeInv, TypeOK
    <2> QED  BY <1>4, <2>1, ConstantsAssumption DEF Mids
  <1>6. new \in HandlerType
    <2>1. lastMid + 1 \in 0 .. MaxMid
      BY <1>5, ConstantsAssumption DEF Mids
    <2> QED  BY <1>1, <2>1 DEF HandlerType
  <1>7. /\ new.pc = "insert" /\ new.mid = lastMid + 1 /\ new.from = w.from /\ new.to = w.to
        /\ new.api = w.api /\ new.after = w.after
    BY <1>1 DEF HandlerType
  <1> HIDE DEF new
  <1>8. /\ handler' \in [Handlers -> HandlerType] /\ Others(h) /\ handler'[h] = new
    BY <1>2, <1>6 DEF TypeInv, TypeOK, Others
  <1>9. Pending' = Pending \ {h}
    BY <1>3, <1>7, <1>8 DEF Pending, Others
  <1> QED  BY <1>1, <1>3, <1>5, <1>7, <1>8, <1>9 DEF NextID

LEMMA GoesEffect ==
    ASSUME TypeInv, NEW h \in Handlers, NEW pc \in SendingPcs, NEW targets \in SUBSET Users,
           Goes(h, pc, targets)
    PROVE  /\ handler' \in [Handlers -> HandlerType] /\ Others(h) /\ Keeps(h)
           /\ handler'[h].pc = pc /\ handler'[h].targets = targets /\ done' = done
  <1> DEFINE w == handler[h]
             new == [w EXCEPT !.pc = pc, !.targets = targets]
  <1>1. w \in HandlerType
    BY DEF TypeInv, TypeOK
  <1>2. handler' = [handler EXCEPT ![h] = new]
    BY DEF Goes
  <1>3. /\ new \in HandlerType /\ new.pc = pc /\ new.targets = targets
        /\ new.mid = w.mid /\ new.from = w.from /\ new.to = w.to /\ new.api = w.api /\ new.after = w.after
    BY <1>1 DEF HandlerType, SendingPcs
  <1> HIDE DEF new
  <1>4. handler' \in [Handlers -> HandlerType] /\ Others(h) /\ handler'[h] = new
    BY <1>2, <1>3 DEF TypeInv, TypeOK, Others
  <1> QED  BY <1>3, <1>4 DEF Goes, Keeps

LEMMA AnswersEffect ==
    ASSUME TypeInv, NEW h \in Handlers, Answers(h)
    PROVE  /\ handler' \in [Handlers -> HandlerType] /\ Others(h)
           /\ handler'[h] = Idle /\ done' = done \cup {handler[h].mid}
  BY IdleFacts DEF Answers, TypeInv, TypeOK, Others

LEMMA PushType ==
    ASSUME TypeInv, NEW u \in Users, NEW mid \in Mids, NEW flags \in {Inbox, Outbox}, Push(u, mid, flags)
    PROVE  /\ told' \in [Users -> Seq([mid : Mids, flags : {Inbox, Outbox}])]
           /\ told'[u] = Append(told[u], [mid |-> mid, flags |-> flags])
           /\ \A v \in Users : v # u => told'[v] = told[v]
  <1> DEFINE update == [mid |-> mid, flags |-> flags]
             S == [mid : Mids, flags : {Inbox, Outbox}]
  <1>1. told \in [Users -> Seq(S)] /\ update \in S
    BY DEF TypeInv, TypeOK
  <1>2. told' = [told EXCEPT ![u] = Append(told[u], update)]
    BY DEF Push
  <1> HIDE DEF update, S
  <1>3. Append(told[u], update) \in Seq(S)
    BY <1>1
  <1>4. /\ told' \in [Users -> Seq(S)] /\ told'[u] = Append(told[u], update)
        /\ \A v \in Users : v # u => told'[v] = told[v]
    BY <1>1, <1>2, <1>3
  <1> QED  BY <1>4 DEF update, S

LEMMA AppendFacts ==
    ASSUME NEW S, NEW s \in Seq(S), NEW x \in S, NEW t, t = Append(s, x)
    PROVE  /\ t \in Seq(S)
           /\ DOMAIN t = DOMAIN s \cup {Len(s) + 1} /\ Len(s) + 1 \notin DOMAIN s
           /\ DOMAIN s = 1 .. Len(s) /\ Len(s) \in Nat
           /\ t[Len(s) + 1] = x /\ \A i \in DOMAIN s : t[i] = s[i]
  OBVIOUS

(* What is inserted, and where.                                            *)
Record(h) == [mid |-> handler[h].mid, from |-> handler[h].from, to |-> handler[h].to,
              api |-> handler[h].api, after |-> handler[h].after]

Row(h) == [mid |-> handler[h].mid, from |-> handler[h].from, to |-> handler[h].to, read |-> FALSE]

NextPc(w) == IF w.to \in Chats THEN "members" ELSE "push"

LEMMA InsertEffect ==
    ASSUME TypeInv, NEW h \in Handlers, Insert(h)
    PROVE  /\ handler' \in [Handlers -> HandlerType] /\ Others(h)
           /\ handler[h].pc = "insert" /\ h \in Sending
           /\ messages' = messages \cup {Row(h)} /\ Row(h) \in MessageType
           /\ Record(h) \in StoredType /\ stored' \in Seq(StoredType)
           /\ DOMAIN stored' = DOMAIN stored \cup {Len(stored) + 1} /\ Len(stored) + 1 \notin DOMAIN stored
           /\ DOMAIN stored = 1 .. Len(stored) /\ Len(stored) \in Nat
           /\ stored'[Len(stored) + 1] = Record(h) /\ \A i \in DOMAIN stored : stored'[i] = stored[i]
           /\ reader' \in [Readers -> ReaderType]
           /\ \/ ~handler[h].api /\ handler'[h] = Idle /\ done' = done \cup {handler[h].mid}
              \/ /\ handler[h].api /\ Keeps(h) /\ handler'[h].pc = NextPc(handler[h]) /\ done' = done
           /\ UNCHANGED <<lastMid, told>>
  <1> DEFINE w == handler[h]
  <1>1. w \in HandlerType /\ w.pc = "insert" /\ h \in Sending
    BY DEF TypeInv, TypeOK, Insert, Sending
  <1>2. w.mid \in Mids /\ w.from \in Users /\ w.to \in Peers /\ w.api \in BOOLEAN /\ w.after \in SUBSET Mids
    BY <1>1 DEF TypeInv, TypeOK, WorkInv, IdsInv, HandlerType, Mids
  <1>3. Record(h) \in StoredType /\ Row(h) \in MessageType
    BY <1>2 DEF Record, Row, StoredType, MessageType
  <1>4. stored' = Append(stored, Record(h)) /\ messages' = messages \cup {Row(h)} /\ UNCHANGED <<lastMid, told>>
    BY DEF Insert, Record, Row
  <1>5. stored \in Seq(StoredType)
    BY DEF TypeInv, TypeOK
  <1>6. \A r \in Readers : [reader[r] EXCEPT !.added = @ \/ reader[r].pc = "reading"] \in ReaderType
    <2> SUFFICES ASSUME NEW r \in Readers
                 PROVE  [reader[r] EXCEPT !.added = @ \/ reader[r].pc = "reading"] \in ReaderType
      OBVIOUS
    <2>1. reader[r] \in ReaderType
      BY DEF TypeInv, TypeOK
    <2> QED  BY <2>1 DEF ReaderType
  <1>7. reader' \in [Readers -> ReaderType]
    BY <1>6 DEF Insert
  <1>8. CASE ~w.api
    <2>1. Answers(h)
      BY <1>8 DEF Insert
    <2> QED  BY <1>1, <1>3, <1>4, <1>5, <1>7, <1>8, <2>1, AppendFacts, AnswersEffect
  <1>9. CASE w.api
    <2>1. \E targets \in SUBSET Users : Goes(h, NextPc(w), targets)
      BY <1>2, <1>9 DEF Insert, NextPc, Peers
    <2>2. NextPc(w) \in SendingPcs
      BY DEF NextPc, SendingPcs
    <2> QED  BY <1>1, <1>3, <1>4, <1>5, <1>7, <1>9, <2>1, <2>2, AppendFacts, GoesEffect
  <1> QED  BY <1>2, <1>8, <1>9

(* Members, PushPeer, PushMine and PushMember: a handler goes on with its  *)
(* message, or has answered.                                               *)
LEMMA MoveEffect ==
    ASSUME TypeInv, NEW h \in Handlers, Members(h) \/ PushPeer(h) \/ PushMine(h) \/ PushMember(h)
    PROVE  /\ handler' \in [Handlers -> HandlerType] /\ Others(h)
           /\ h \in Sending /\ handler[h].pc # "insert"
           /\ \/ handler'[h] = Idle /\ done' = done \cup {handler[h].mid}
              \/ /\ Keeps(h) /\ done' = done
                 /\ <<handler[h].pc, handler'[h].pc>> \in
                       {<<"members", "pushMembers">>, <<"push", "pushMine">>, <<"pushMembers", "pushMembers">>}
           /\ \/ told' = told
              \/ \E u \in Users, flags \in {Inbox, Outbox} : Push(u, handler[h].mid, flags)
           /\ told' \in [Users -> Seq([mid : Mids, flags : {Inbox, Outbox}])]
           /\ UNCHANGED <<messages, lastMid, reader, lister, stored>>
  <1> DEFINE w == handler[h]
  <1>1. h \in Sending /\ w.pc # "insert" /\ w \in HandlerType
    BY DEF Members, PushPeer, PushMine, PushMember, Sending, TypeInv, TypeOK
  <1>2. w.mid \in Mids /\ w.from \in Users /\ w.targets \in SUBSET Users
    <2>1. w.mid \in 1 .. lastMid /\ lastMid \in 0 .. MaxMid
      BY <1>1 DEF TypeInv, TypeOK, IdsInv
    <2>2. w.from \in Users
      BY <1>1 DEF TypeInv, WorkInv, Sending
    <2> QED  BY <1>1, <2>1, <2>2, ConstantsAssumption DEF HandlerType, Mids
  <1>3. UNCHANGED <<messages, lastMid, reader, lister, stored>>
    BY DEF Members, PushPeer, PushMine, PushMember
  <1>4. \/ told' = told
        \/ \E u \in Users, flags \in {Inbox, Outbox} : Push(u, w.mid, flags)
    <2>1. CASE Members(h)
      BY <2>1 DEF Members
    <2>2. CASE PushPeer(h)
      <3>1. w.to \in Users
        BY <2>2 DEF PushPeer, TypeInv, WorkInv
      <3> QED  BY <2>2, <3>1 DEF PushPeer
    <2>3. CASE PushMine(h)
      BY <1>2, <2>3 DEF PushMine
    <2>4. CASE PushMember(h)
      <3>1. PICK u \in w.targets : Push(u, w.mid, IF u = w.from THEN Outbox ELSE Inbox)
        BY <2>4 DEF PushMember
      <3> QED  BY <1>2, <3>1
    <2> QED  BY <2>1, <2>2, <2>3, <2>4
  <1>5. told' \in [Users -> Seq([mid : Mids, flags : {Inbox, Outbox}])]
    BY <1>2, <1>4, PushType DEF TypeInv, TypeOK
  <1>6. CASE Answers(h)
    BY <1>1, <1>3, <1>4, <1>5, <1>6, AnswersEffect
  <1>7. ASSUME NEW pc \in SendingPcs, NEW targets \in SUBSET Users, Goes(h, pc, targets),
               <<w.pc, pc>> \in {<<"members", "pushMembers">>, <<"push", "pushMine">>, <<"pushMembers", "pushMembers">>}
        PROVE  /\ handler' \in [Handlers -> HandlerType] /\ Others(h) /\ Keeps(h) /\ done' = done
               /\ <<handler[h].pc, handler'[h].pc>> \in
                    {<<"members", "pushMembers">>, <<"push", "pushMine">>, <<"pushMembers", "pushMembers">>}
    BY <1>7, GoesEffect
  <1>8. \/ Answers(h)
        \/ \E pc \in SendingPcs, targets \in SUBSET Users :
              /\ Goes(h, pc, targets)
              /\ <<w.pc, pc>> \in {<<"members", "pushMembers">>, <<"push", "pushMine">>, <<"pushMembers", "pushMembers">>}
    <2>1. CASE Members(h)
      <3>1. ChatMembers(w.to) \cup {w.from} \in SUBSET Users
        BY <1>2 DEF ChatMembers, ChatMessages, TypeInv, TypeOK, MessageType
      <3> QED  BY <2>1, <3>1 DEF Members, SendingPcs
    <2>2. CASE PushPeer(h)
      BY <2>2 DEF PushPeer, SendingPcs
    <2>3. CASE PushMine(h)
      BY <2>3 DEF PushMine
    <2>4. CASE PushMember(h)
      <3>1. \A u \in w.targets : w.targets \ {u} \in SUBSET Users
        BY <1>2
      <3> QED  BY <2>4, <3>1 DEF PushMember, SendingPcs
    <2> QED  BY <2>1, <2>2, <2>3, <2>4
  <1> QED  BY <1>1, <1>3, <1>4, <1>5, <1>6, <1>7, <1>8

LEMMA TypeInvStep == TypeInv /\ [Next]_vars => TypeInv'
  <1> SUFFICES ASSUME TypeInv, [Next]_vars PROVE TypeInv'
    OBVIOUS
  <1>t. /\ handler \in [Handlers -> HandlerType] /\ stored \in Seq(StoredType) /\ lastMid \in 0 .. MaxMid
        /\ done \subseteq Mids /\ \A h \in Sending : handler[h].mid \in Mids
    <2>1. \A h \in Sending : handler[h].mid \in 1 .. lastMid
      BY DEF TypeInv, IdsInv
    <2>2. lastMid \in 0 .. MaxMid /\ MaxMid \in Nat
      BY ConstantsAssumption DEF TypeInv, TypeOK
    <2> QED  BY <2>1, <2>2 DEF TypeInv, TypeOK, Mids
  <1>l. ListersOK'
    BY ListersStep DEF TypeInv
  <1>c. ASSUME Pending' = Pending, lastMid' = lastMid PROVE lastMid' + Cardinality(Pending') <= MaxMid
    BY <1>c DEF TypeInv
  <1> USE <1>l
  <1>1. ASSUME NEW h \in Handlers, NEW v \in Users, NEW to \in Peers, NEW api \in BOOLEAN, Starts(h, v, to, api)
        PROVE  TypeInv'
    <2>e. /\ handler' \in [Handlers -> HandlerType] /\ Others(h)
          /\ handler[h].pc = "idle" /\ handler'[h].pc = "nextID"
          /\ handler'[h].from = v /\ handler'[h].to = to /\ handler'[h].after = done
          /\ lastMid + Cardinality(Pending) < MaxMid
          /\ UNCHANGED <<messages, lastMid, told, reader, lister, stored, done>>
      BY <1>1, StartsEffect
    <2> USE <2>e
    <2>1. Sending' = Sending /\ Pending' = Pending \cup {h} /\ h \notin Pending
      BY DEF Sending, Pending, Others
    <2>2. TypeOK'
      BY DEF TypeInv, TypeOK
    <2>3. WorkInv' /\ IdsInv'
      <3>1. WorkInv'
        BY DEF TypeInv, WorkInv, Others
      <3>2. \A k \in Sending : handler'[k] = handler[k]
        BY DEF Sending, Others
      <3> QED  BY <2>1, <3>1, <3>2 DEF TypeInv, IdsInv, Served
    <2>4. Cardinality(Pending') = Cardinality(Pending) + 1
      BY <2>1, PendingFacts, FS_AddElement
    <2>5. lastMid' + Cardinality(Pending') <= MaxMid
      BY <1>t, <2>4, PendingFacts, ConstantsAssumption
    <2> QED  BY <2>2, <2>3, <2>5 DEF TypeInv
  <1>2. ASSUME NEW h \in Handlers, NextID(h) PROVE TypeInv'
    <2>e. /\ handler' \in [Handlers -> HandlerType] /\ Others(h)
          /\ handler[h].pc = "nextID" /\ handler'[h].pc = "insert"
          /\ handler'[h].mid = lastMid + 1 /\ lastMid' = lastMid + 1 /\ lastMid + 1 \in Mids
          /\ handler'[h].from = handler[h].from /\ handler'[h].to = handler[h].to
          /\ handler'[h].api = handler[h].api /\ handler'[h].after = handler[h].after
          /\ Pending' = Pending \ {h} /\ h \in Pending
          /\ UNCHANGED <<messages, told, reader, lister, stored, done>>
      BY <1>2, NextIDEffect
    <2> USE <2>e
    <2>1. Sending' = Sending \cup {h} /\ h \notin Sending /\ \A k \in Sending : k # h /\ handler'[k] = handler[k]
      BY DEF Sending, Others
    <2>2. TypeOK'
      <3>1. lastMid' \in 0 .. MaxMid
        BY ConstantsAssumption DEF Mids
      <3> QED  BY <3>1 DEF TypeInv, TypeOK
    <2>3. WorkInv'
      BY DEF TypeInv, WorkInv, Others
    <2>4. IdsInv'
      <3>1. ~Served(lastMid + 1)
        BY <1>t DEF TypeInv, IdsInv, Served
      <3>2. \A k \in Sending : handler[k].mid # lastMid + 1
        BY <1>t DEF TypeInv, IdsInv
      <3>4. \A i \in DOMAIN stored' : stored'[i].mid <= lastMid'
        <4>1. \A i \in DOMAIN stored : stored[i].mid <= lastMid
          BY DEF TypeInv, IdsInv
        <4>2. \A i \in DOMAIN stored : stored[i] \in StoredType
          BY <1>t
        <4>3. \A i \in DOMAIN stored : stored[i].mid \in Nat
          BY <4>2 DEF StoredType, Mids
        <4> QED  BY <1>t, <4>1, <4>3
      <3>5. \A k \in Sending' : /\ handler'[k].mid \in 1 .. lastMid'
                                /\ Served(handler'[k].mid) <=> handler'[k].pc # "insert"
        <4> SUFFICES ASSUME NEW k \in Sending'
                     PROVE  /\ handler'[k].mid \in 1 .. lastMid'
                            /\ Served(handler'[k].mid) <=> handler'[k].pc # "insert"
          OBVIOUS
        <4>1. CASE k = h
          BY <1>t, <3>1, <4>1
        <4>2. CASE k # h
          <5>1. k \in Sending /\ handler'[k] = handler[k]
            BY <2>1, <4>2
          <5> QED  BY <1>t, <5>1 DEF TypeInv, IdsInv
        <4> QED  BY <4>1, <4>2
      <3>6. \A k, l \in Sending' : handler'[k].mid = handler'[l].mid => k = l
        BY <2>1, <3>2 DEF TypeInv, IdsInv
      <3>7. \A i, j \in DOMAIN stored' : stored'[i].mid = stored'[j].mid => i = j
        BY DEF TypeInv, IdsInv
      <3> QED  BY <3>4, <3>5, <3>6, <3>7 DEF IdsInv, Served
    <2>5. Cardinality(Pending') = Cardinality(Pending) - 1
      BY PendingFacts, FS_RemoveElement
    <2>6. lastMid' + Cardinality(Pending') <= MaxMid
      BY <1>t, <2>5, PendingFacts, ConstantsAssumption DEF TypeInv
    <2> QED  BY <2>2, <2>3, <2>4, <2>6 DEF TypeInv
  <1>3. ASSUME NEW h \in Handlers, Insert(h) PROVE TypeInv'
    <2>e. /\ handler' \in [Handlers -> HandlerType] /\ Others(h)
          /\ handler[h].pc = "insert" /\ h \in Sending
          /\ messages' = messages \cup {Row(h)} /\ Row(h) \in MessageType
          /\ Record(h) \in StoredType /\ stored' \in Seq(StoredType)
          /\ DOMAIN stored' = DOMAIN stored \cup {Len(stored) + 1} /\ Len(stored) + 1 \notin DOMAIN stored
          /\ DOMAIN stored = 1 .. Len(stored) /\ Len(stored) \in Nat
          /\ stored'[Len(stored) + 1] = Record(h) /\ \A i \in DOMAIN stored : stored'[i] = stored[i]
          /\ reader' \in [Readers -> ReaderType]
          /\ \/ ~handler[h].api /\ handler'[h] = Idle /\ done' = done \cup {handler[h].mid}
             \/ /\ handler[h].api /\ Keeps(h) /\ handler'[h].pc = NextPc(handler[h]) /\ done' = done
          /\ UNCHANGED <<lastMid, told>>
      BY <1>3, InsertEffect
    <2> USE <2>e
    <2> DEFINE w == handler[h]
               n == Len(stored) + 1
    <2>1. w.mid \in 1 .. lastMid /\ ~Served(w.mid) /\ \A k \in Sending : handler[k].mid = w.mid => k = h
      BY DEF TypeInv, IdsInv
    <2>2. Pending' = Pending
      BY IdleFacts, SamePending, <1>t DEF Others, NextPc
    <2>3. TypeOK'
      <3>1. \A m \in messages : m.mid # w.mid
        BY <2>1 DEF TypeInv, TypeOK, Served
      <3>2. \A m \in messages' : \E i \in DOMAIN stored' :
               stored'[i].mid = m.mid /\ stored'[i].from = m.from /\ stored'[i].to = m.to
        <4>1. \E i \in DOMAIN stored' : /\ stored'[i].mid = Row(h).mid /\ stored'[i].from = Row(h).from
                                        /\ stored'[i].to = Row(h).to
          BY DEF Row, Record
        <4>2. \A m \in messages : \E i \in DOMAIN stored' :
                 stored'[i].mid = m.mid /\ stored'[i].from = m.from /\ stored'[i].to = m.to
          <5>1. \A m \in messages : \E i \in DOMAIN stored :
                   stored[i].mid = m.mid /\ stored[i].from = m.from /\ stored[i].to = m.to
            BY DEF TypeInv, TypeOK
          <5>2. \A i \in DOMAIN stored : i \in DOMAIN stored' /\ stored'[i] = stored[i]
            BY <2>e
          <5> QED  BY ONLY <5>1, <5>2
        <4> QED  BY <4>1, <4>2
      <3>3. \A m, k \in messages' : m.mid = k.mid => m = k
        <4>1. \A m, k \in messages : m.mid = k.mid => m = k
          BY DEF TypeInv, TypeOK
        <4>2. Row(h).mid = w.mid
          BY DEF Row
        <4> QED  BY <3>1, <4>1, <4>2, ZenonT(30)
      <3>4. done' \subseteq Mids
        BY <1>t
      <3> QED  BY <3>2, <3>3, <3>4 DEF TypeInv, TypeOK
    <2>4. WorkInv'
      BY IdleFacts DEF TypeInv, WorkInv, Others, Keeps, NextPc, Peers
    <2>5. \A k \in Sending' : /\ k \in Sending /\ handler'[k].mid = handler[k].mid
                              /\ k # h => handler'[k].pc = handler[k].pc
                              /\ k = h => handler'[k].pc # "insert"
      BY IdleFacts DEF Sending, Others, Keeps, NextPc
    <2>6. IdsInv'
      <3>1. \A i \in DOMAIN stored' : stored'[i].mid <= lastMid'
        BY <2>1, <1>t DEF TypeInv, IdsInv, Record
      <3>2. \A i, j \in DOMAIN stored' : stored'[i].mid = stored'[j].mid => i = j
        BY <2>1 DEF TypeInv, IdsInv, Record, Served
      <3>3. \A k \in Sending' : /\ handler'[k].mid \in 1 .. lastMid'
                                /\ (\E i \in DOMAIN stored' : stored'[i].mid = handler'[k].mid)
                                      <=> handler'[k].pc # "insert"
        <4> SUFFICES ASSUME NEW k \in Sending'
                     PROVE  /\ handler'[k].mid \in 1 .. lastMid'
                            /\ (\E i \in DOMAIN stored' : stored'[i].mid = handler'[k].mid)
                                  <=> handler'[k].pc # "insert"
          OBVIOUS
        <4>1. handler[k].mid \in 1 .. lastMid /\ (Served(handler[k].mid) <=> handler[k].pc # "insert")
          BY <2>5 DEF TypeInv, IdsInv
        <4>2. CASE k = h
          BY <2>5, <4>1, <4>2 DEF Record
        <4>3. CASE k # h
          <5>1. (\E i \in DOMAIN stored' : stored'[i].mid = handler[k].mid) <=> Served(handler[k].mid)
            BY <2>1, <2>5, <4>3 DEF Served, Record
          <5> QED  BY <2>5, <4>1, <4>3, <5>1
        <4> QED  BY <4>2, <4>3
      <3>4. \A k, l \in Sending' : handler'[k].mid = handler'[l].mid => k = l
        BY <2>5 DEF TypeInv, IdsInv
      <3> QED  BY <3>1, <3>2, <3>3, <3>4 DEF IdsInv, Served
    <2> QED  BY <1>c, <2>2, <2>3, <2>4, <2>6 DEF TypeInv
  <1>4. ASSUME NEW h \in Handlers, Members(h) \/ PushPeer(h) \/ PushMine(h) \/ PushMember(h)
        PROVE  TypeInv'
    <2>e. /\ handler' \in [Handlers -> HandlerType] /\ Others(h)
          /\ h \in Sending /\ handler[h].pc # "insert"
          /\ \/ handler'[h] = Idle /\ done' = done \cup {handler[h].mid}
             \/ /\ Keeps(h) /\ done' = done
                /\ <<handler[h].pc, handler'[h].pc>> \in
                      {<<"members", "pushMembers">>, <<"push", "pushMine">>, <<"pushMembers", "pushMembers">>}
          /\ \/ told' = told
             \/ \E u \in Users, flags \in {Inbox, Outbox} : Push(u, handler[h].mid, flags)
          /\ told' \in [Users -> Seq([mid : Mids, flags : {Inbox, Outbox}])]
          /\ UNCHANGED <<messages, lastMid, reader, lister, stored>>
      BY <1>4, MoveEffect
    <2> USE <2>e
    <2>1. Pending' = Pending
      BY IdleFacts, SamePending, <1>t DEF Sending, Others
    <2>2. TypeOK'
      BY <1>t DEF TypeInv, TypeOK
    <2>3. WorkInv'
      BY IdleFacts DEF TypeInv, WorkInv, Others, Keeps, Sending
    <2>4. \A k \in Sending' : /\ k \in Sending /\ handler'[k].mid = handler[k].mid
                              /\ handler'[k].pc = "insert" <=> handler[k].pc = "insert"
      BY IdleFacts DEF Sending, Others, Keeps
    <2>5. IdsInv'
      BY <2>4 DEF TypeInv, IdsInv, Served
    <2> QED  BY <1>c, <2>1, <2>2, <2>3, <2>5 DEF TypeInv
  <1>5. CASE Crash
    <2>1. Sending' = {} /\ Pending' = {}
      BY <1>5, IdleFacts DEF Crash, Sending, Pending
    <2>2. TypeOK' /\ WorkInv' /\ IdsInv'
      BY <1>l, <1>5, <2>1, IdleFacts DEF Crash, TypeInv, TypeOK, WorkInv, IdsInv
    <2>3. lastMid' + Cardinality(Pending') <= MaxMid
      BY <1>5, <1>t, <2>1, FS_EmptySet, ConstantsAssumption DEF Crash
    <2> QED  BY <2>2, <2>3 DEF TypeInv
  <1>6. CASE \/ \E mid \in 1 .. MaxMid : messagesDelete(mid) \/ handleMessageDelete(mid)
             \/ \E v \in Users, mids \in SUBSET (1 .. MaxMid) : messagesMarkAsRead(v, mids)
             \/ \E r \in Readers :
                   \/ \E peer \in Peers : OpenHistory(r, peer)
                   \/ messagesGetHistory(r) \/ CloseHistory(r) \/ ListDialogs(r)
             \/ UNCHANGED vars
    BY <1>6, <1>l, QuietActions, QuietStep
  <1> QED  BY <1>1, <1>2, <1>3, <1>4, <1>5, <1>6 DEF Next, Send, messagesSend, handleMessageSend

(* There is one row to a message id, and it is that of a message that was  *)
(* sent, whatever is deleted and whenever the process is killed: AddMessage*)
(* takes the id from the counter, which no crash turns back.               *)
THEOREM TypeCorrect == Spec => []TypeOK
  <1>1. TypeInv => TypeOK
    BY DEF TypeInv
  <1> QED  BY <1>1, InitTypeInv, TypeInvStep, PTL DEF Spec

-----------------------------------------------------------------------------
(* The order of messages: what was answered when a message was sent has a  *)
(* smaller id, and no handler is left that could still tell of it.         *)
AnsweredInv ==
    /\ done \subseteq 1 .. lastMid
    /\ \A h \in Handlers : handler[h].after \subseteq done
    /\ \A h \in Sending : /\ handler[h].mid \notin done
                          /\ \A x \in handler[h].after : x < handler[h].mid

StoredInv ==
    /\ \A i \in DOMAIN stored : /\ stored[i].after \subseteq done
                                /\ \A x \in stored[i].after : x < stored[i].mid
    /\ \A u \in Users : \A j \in DOMAIN told[u] : Served(told[u][j].mid)

OrderInv == AnsweredInv /\ StoredInv /\ RealTimeOrder

LEMMA InitOrderInv == Init => OrderInv
  <1> SUFFICES ASSUME Init PROVE OrderInv
    OBVIOUS
  <1>1. AnsweredInv
    BY DEF Init, AnsweredInv, Sending, Idle
  <1>2. StoredInv /\ RealTimeOrder
    BY DEF Init, StoredInv, RealTimeOrder
  <1> QED  BY <1>1, <1>2 DEF OrderInv

(* Steps that tell nobody, insert nothing and answer nobody.               *)
LEMMA SilentOrder ==
    ASSUME OrderInv, UNCHANGED <<told, stored, done>>, AnsweredInv' PROVE OrderInv'
  <1>1. StoredInv'
    BY DEF OrderInv, StoredInv, Served
  <1>2. RealTimeOrder'
    BY DEF OrderInv, RealTimeOrder, Updates
  <1> QED  BY <1>1, <1>2 DEF OrderInv

LEMMA StartsOrder ==
    ASSUME TypeInv, OrderInv, NEW h \in Handlers, NEW v \in Users, NEW to \in Peers, NEW api \in BOOLEAN,
           Starts(h, v, to, api)
    PROVE  OrderInv'
  <1>1. /\ Others(h) /\ handler'[h].pc = "nextID" /\ handler'[h].after = done
        /\ UNCHANGED <<messages, lastMid, told, reader, lister, stored, done>>
    BY StartsEffect
  <1>2. AnsweredInv'
    BY <1>1 DEF OrderInv, AnsweredInv, Others, Sending
  <1> QED  BY <1>1, <1>2, SilentOrder

LEMMA NextIDOrder == ASSUME TypeInv, OrderInv, NEW h \in Handlers, NextID(h) PROVE OrderInv'
  <1>1. /\ Others(h) /\ handler[h].pc = "nextID" /\ handler'[h].mid = lastMid + 1 /\ lastMid' = lastMid + 1
        /\ handler'[h].after = handler[h].after /\ UNCHANGED <<messages, told, reader, lister, stored, done>>
    BY NextIDEffect
  <1>2. lastMid \in Nat
    BY ConstantsAssumption DEF TypeInv, TypeOK
  <1>3. \A x \in done : x \in Nat /\ x <= lastMid
    BY <1>2 DEF OrderInv, AnsweredInv
  <1>4. done' \subseteq 1 .. lastMid'
    BY <1>1, <1>2 DEF OrderInv, AnsweredInv
  <1>5. \A k \in Handlers : handler'[k].after \subseteq done'
    BY <1>1 DEF OrderInv, AnsweredInv, Others
  <1>6. ASSUME NEW k \in Sending'
        PROVE  handler'[k].mid \notin done' /\ \A x \in handler'[k].after : x < handler'[k].mid
    <2>1. CASE k = h
      <3>1. \A x \in done : x < lastMid + 1
        BY <1>2, <1>3
      <3>2. handler'[k].after \subseteq done /\ handler'[k].mid = lastMid + 1
        BY <1>1, <2>1 DEF OrderInv, AnsweredInv
      <3>3. lastMid + 1 \notin done
        BY <1>2, <1>3
      <3> QED  BY <1>1, <3>1, <3>2, <3>3
    <2>2. CASE k # h
      <3>1. k \in Sending /\ handler'[k] = handler[k]
        BY <1>1, <2>2 DEF Sending, Others
      <3> QED  BY <1>1, <3>1 DEF OrderInv, AnsweredInv
    <2> QED  BY <2>1, <2>2
  <1>7. AnsweredInv'
    BY <1>4, <1>5, <1>6 DEF AnsweredInv
  <1> QED  BY <1>1, <1>7, SilentOrder

(* A handler that goes on with its message, or has answered.               *)
LEMMA GoesOnOrder ==
    ASSUME TypeInv, OrderInv, NEW h \in Sending, Others(h), lastMid' = lastMid,
           \/ handler'[h] = Idle /\ done' = done \cup {handler[h].mid}
           \/ Keeps(h) /\ done' = done
    PROVE  AnsweredInv'
  <1>1. handler[h].mid \in 1 .. lastMid /\ \A k \in Sending : handler[k].mid = handler[h].mid => k = h
    BY DEF TypeInv, IdsInv
  <1>2. done' \subseteq 1 .. lastMid'
    BY <1>1 DEF OrderInv, AnsweredInv
  <1>3. \A k \in Handlers : handler'[k].after \subseteq done'
    BY DEF OrderInv, AnsweredInv, Others, Keeps, Idle, Sending
  <1>4. ASSUME NEW k \in Sending'
        PROVE  handler'[k].mid \notin done' /\ \A x \in handler'[k].after : x < handler'[k].mid
    <2>1. CASE k = h
      <3>1. Keeps(h) /\ done' = done
        BY <2>1, IdleFacts DEF Sending
      <3> QED  BY <2>1, <3>1 DEF OrderInv, AnsweredInv, Keeps
    <2>2. CASE k # h
      <3>1. k \in Sending /\ handler'[k] = handler[k]
        BY <2>2 DEF Sending, Others
      <3>2. handler[k].mid # handler[h].mid
        BY <1>1, <2>2, <3>1
      <3>3. handler[k].mid \notin done /\ \A x \in handler[k].after : x < handler[k].mid
        BY <3>1 DEF OrderInv, AnsweredInv
      <3> QED  BY <3>1, <3>2, <3>3
    <2> QED  BY <2>1, <2>2
  <1> QED  BY <1>2, <1>3, <1>4 DEF AnsweredInv

LEMMA InsertOrder == ASSUME TypeInv, OrderInv, NEW h \in Handlers, Insert(h) PROVE OrderInv'
  <1> DEFINE w == handler[h]
             n == Len(stored) + 1
  <1>1. /\ Others(h) /\ w.pc = "insert" /\ h \in Sending
        /\ DOMAIN stored' = DOMAIN stored \cup {n} /\ n \notin DOMAIN stored
        /\ stored'[n] = Record(h) /\ \A i \in DOMAIN stored : stored'[i] = stored[i]
        /\ \/ handler'[h] = Idle /\ done' = done \cup {w.mid}
           \/ Keeps(h) /\ done' = done
        /\ UNCHANGED <<lastMid, told>>
    BY InsertEffect
  <1>2. AnsweredInv'
    BY <1>1, GoesOnOrder
  <1>3. ~Served(w.mid) /\ w.after \subseteq done /\ \A x \in w.after : x < w.mid
    BY <1>1 DEF TypeInv, IdsInv, OrderInv, AnsweredInv
  <1>4. Record(h).mid = w.mid /\ Record(h).after = w.after
    BY DEF Record
  <1> HIDE DEF n
  <1>5. StoredInv'
    <2>1. \A i \in DOMAIN stored' : /\ stored'[i].after \subseteq done'
                                    /\ \A x \in stored'[i].after : x < stored'[i].mid
      BY <1>1, <1>3, <1>4 DEF OrderInv, StoredInv
    <2>2. \A u \in Users : \A j \in DOMAIN told[u] : \E i \in DOMAIN stored' : stored'[i].mid = told[u][j].mid
      BY <1>1 DEF OrderInv, StoredInv, Served
    <2> QED  BY <1>1, <2>1, <2>2 DEF StoredInv, Served
  <1>6. RealTimeOrder'
    <2>1. \A u \in Users : Updates(u, w.mid) = {}
      BY <1>3 DEF OrderInv, StoredInv, Updates, Served
    <2>2. \A u, mid : Updates(u, mid)' = Updates(u, mid)
      BY <1>1 DEF Updates
    <2> SUFFICES ASSUME NEW i \in DOMAIN stored', NEW mid \in stored'[i].after
                 PROVE  /\ mid < stored'[i].mid
                        /\ \A u \in Users : \A j \in Updates(u, mid), k \in Updates(u, stored'[i].mid) : j < k
      BY <1>1 DEF RealTimeOrder, Updates
    <2>3. CASE i = n
      BY <1>1, <1>3, <1>4, <2>1, <2>3
    <2>4. CASE i # n
      BY <1>1, <2>4 DEF OrderInv, RealTimeOrder
    <2> QED  BY <2>3, <2>4
  <1> QED  BY <1>2, <1>5, <1>6 DEF OrderInv

LEMMA PushOrder ==
    ASSUME TypeInv, OrderInv, NEW mid \in Mids, Served(mid), mid \notin done, UNCHANGED stored,
           NEW u \in Users, NEW flags \in {Inbox, Outbox}, Push(u, mid, flags), done \subseteq done'
    PROVE  StoredInv' /\ RealTimeOrder'
  <1> DEFINE update == [mid |-> mid, flags |-> flags]
             n == Len(told[u]) + 1
  <1>1. told'[u] = Append(told[u], update) /\ \A v \in Users : v # u => told'[v] = told[v]
    BY PushType
  <1>2. told[u] \in Seq([mid : Mids, flags : {Inbox, Outbox}]) /\ update \in [mid : Mids, flags : {Inbox, Outbox}]
    BY DEF TypeInv, TypeOK
  <1>3. update.mid = mid
    OBVIOUS
  <1> HIDE DEF update
  <1>4. /\ DOMAIN told'[u] = DOMAIN told[u] \cup {n} /\ n \notin DOMAIN told[u]
        /\ DOMAIN told[u] = 1 .. Len(told[u]) /\ Len(told[u]) \in Nat
        /\ told'[u][n] = update /\ \A i \in DOMAIN told[u] : told'[u][i] = told[u][i]
    BY <1>1, <1>2, AppendFacts
  <1>5. \A i \in DOMAIN told[u] : i < n
    BY <1>4
  <1> HIDE DEF n
  <1>6. StoredInv'
    <2>1. \A v \in Users : \A j \in DOMAIN told'[v] : Served(told'[v][j].mid)
      BY <1>1, <1>3, <1>4 DEF OrderInv, StoredInv
    <2>2. \A x : Served(x)' <=> Served(x)
      BY DEF Served
    <2> QED  BY <2>1, <2>2 DEF OrderInv, StoredInv
  <1>7. \A v \in Users : \A x : Updates(v, x)' \subseteq Updates(v, x) \cup (IF v = u /\ x = mid THEN {n} ELSE {})
    BY <1>1, <1>3, <1>4 DEF Updates
  <1>8. ASSUME NEW i \in DOMAIN stored, NEW x \in stored[i].after, NEW v \in Users,
               NEW j \in Updates(v, x)', NEW k \in Updates(v, stored[i].mid)'
        PROVE  j < k
    <2>1. x # mid
      BY DEF OrderInv, StoredInv
    <2>2. j \in Updates(v, x)
      BY <1>7, <2>1
    <2>3. CASE k \in Updates(v, stored[i].mid)
      BY <2>2, <2>3 DEF OrderInv, RealTimeOrder
    <2>4. CASE v = u /\ k = n
      BY <1>5, <2>2, <2>4 DEF Updates
    <2> QED  BY <1>7, <2>3, <2>4
  <1>9. RealTimeOrder'
    BY <1>8 DEF OrderInv, RealTimeOrder
  <1> QED  BY <1>6, <1>9

LEMMA MoveOrder ==
    ASSUME TypeInv, OrderInv, NEW h \in Handlers, Members(h) \/ PushPeer(h) \/ PushMine(h) \/ PushMember(h)
    PROVE  OrderInv'
  <1> DEFINE w == handler[h]
  <1>1. /\ Others(h) /\ h \in Sending /\ w.pc # "insert"
        /\ \/ handler'[h] = Idle /\ done' = done \cup {w.mid}
           \/ Keeps(h) /\ done' = done
        /\ \/ told' = told
           \/ \E u \in Users, flags \in {Inbox, Outbox} : Push(u, w.mid, flags)
        /\ UNCHANGED <<messages, lastMid, reader, lister, stored>>
    BY MoveEffect
  <1>2. AnsweredInv'
    BY <1>1, GoesOnOrder
  <1>3. Served(w.mid) /\ w.mid \notin done /\ w.mid \in Mids
    <2>1. w.mid \in 1 .. lastMid /\ lastMid \in 0 .. MaxMid
      BY <1>1 DEF TypeInv, TypeOK, IdsInv
    <2>2. w.mid \in Mids
      BY <2>1, ConstantsAssumption DEF Mids
    <2> QED  BY <1>1, <2>2 DEF TypeInv, IdsInv, OrderInv, AnsweredInv
  <1>4. CASE told' = told
    <2>1. StoredInv'
      BY <1>1, <1>4 DEF OrderInv, StoredInv, Served
    <2>2. RealTimeOrder'
      BY <1>1, <1>4 DEF OrderInv, RealTimeOrder, Updates
    <2> QED  BY <1>2, <2>1, <2>2 DEF OrderInv
  <1>5. ASSUME NEW u \in Users, NEW flags \in {Inbox, Outbox}, Push(u, w.mid, flags) PROVE OrderInv'
    BY <1>1, <1>2, <1>3, <1>5, PushOrder DEF OrderInv
  <1> QED  BY <1>1, <1>4, <1>5

LEMMA OrderInvStep == TypeInv /\ OrderInv /\ [Next]_vars => OrderInv'
  <1> SUFFICES ASSUME TypeInv, OrderInv, [Next]_vars PROVE OrderInv'
    OBVIOUS
  <1>1. CASE Crash
    <2>1. AnsweredInv'
      BY <1>1, IdleFacts DEF Crash, OrderInv, AnsweredInv, Sending, Idle
    <2> QED  BY <1>1, <2>1, SilentOrder DEF Crash
  <1>2. CASE \/ \E mid \in 1 .. MaxMid : messagesDelete(mid) \/ handleMessageDelete(mid)
             \/ \E v \in Users, mids \in SUBSET (1 .. MaxMid) : messagesMarkAsRead(v, mids)
             \/ \E r \in Readers :
                   \/ \E peer \in Peers : OpenHistory(r, peer)
                   \/ messagesGetHistory(r) \/ CloseHistory(r) \/ ListDialogs(r)
             \/ UNCHANGED vars
    <2>1. UNCHANGED <<lastMid, handler, told, stored, done>>
      BY <1>2, QuietActions
    <2>2. AnsweredInv'
      BY <2>1 DEF OrderInv, AnsweredInv, Sending
    <2> QED  BY <2>1, <2>2, SilentOrder
  <1> QED  BY <1>1, <1>2, StartsOrder, NextIDOrder, InsertOrder, MoveOrder
           DEF Next, Send, messagesSend, handleMessageSend

(* Messages are ordered as their senders saw them, in their ids and in the *)
(* updates of everybody: messages.send answers when all have been told.    *)
THEOREM MessagesInOrder == Spec => []RealTimeOrder
  <1>1. Init => TypeInv /\ OrderInv
    BY InitTypeInv, InitOrderInv
  <1>2. TypeInv /\ OrderInv /\ [Next]_vars => (TypeInv /\ OrderInv)'
    BY TypeInvStep, OrderInvStep
  <1>3. OrderInv => RealTimeOrder
    BY DEF OrderInv
  <1> QED  BY <1>1, <1>2, <1>3, PTL DEF Spec

-----------------------------------------------------------------------------
(* Who has been told, and who is still to be.                              *)
Update(mid, flags) == [mid |-> mid, flags |-> flags]

Flags == {Inbox, Outbox}

Untold(u, mid, flags) == \A j \in DOMAIN told[u] : told[u][j] # Update(mid, flags)

Once(u, mid, flags) ==
    \E i \in DOMAIN told[u] : /\ told[u][i] = Update(mid, flags)
                              /\ \A j \in DOMAIN told[u] : told[u][j] = Update(mid, flags) => j = i

Before(first, mid) ==
    \E i, j \in DOMAIN stored : stored[i].mid = mid /\ stored[j].mid = first /\ j <= i

(* Those whose messages were there before are told, or will be.            *)
Covered(mid, from, to, targets) ==
    \A k \in messages :
        k.to = to /\ k.from # from /\ Before(k.mid, mid) => k.from \in targets \/ Once(k.from, mid, Inbox)

ToldAll(mid, from, to) ==
    /\ Once(from, mid, Outbox)
    /\ to \in Users => Once(to, mid, Inbox)
    /\ to \in Chats => Covered(mid, from, to, {})

FlagsOf(u, from) == IF u = from THEN Outbox ELSE Inbox

HandlerTold(h) ==
    LET w == handler[h]
    IN  /\ w.pc \in {"members", "push"} => \A u \in Users, flags \in Flags : Untold(u, w.mid, flags)
        /\ w.pc = "pushMine" => Once(w.to, w.mid, Inbox) /\ Untold(w.from, w.mid, Outbox)
        /\ w.pc = "pushMembers" =>
              /\ \A u \in w.targets : Untold(u, w.mid, FlagsOf(u, w.from))
              /\ w.from \in w.targets \/ Once(w.from, w.mid, Outbox)
              /\ Covered(w.mid, w.from, w.to, w.targets)

StoredFor(h) ==
    \A i \in DOMAIN stored :
        stored[i].mid = handler[h].mid => stored[i].from = handler[h].from /\ stored[i].to = handler[h].to

AnsweredTold ==
    \A i \in DOMAIN stored :
        stored[i].api /\ stored[i].mid \in done => ToldAll(stored[i].mid, stored[i].from, stored[i].to)

ToldInv ==
    /\ \A h \in Handlers : HandlerTold(h)
    /\ \A h \in Sending : handler[h].pc # "insert" => StoredFor(h)
    /\ AnsweredTold

LEMMA InitToldInv == Init => ToldInv
  BY IdleFacts DEF Init, ToldInv, HandlerTold, AnsweredTold, Sending

LEMMA UpdateFacts ==
    /\ \A x, y, f, g : Update(x, f) = Update(y, g) => x = y /\ f = g
    /\ \A x, f : Update(x, f).mid = x
    /\ Inbox # Outbox
  BY DEF Update, Inbox, Outbox

(* Steps that tell nobody of a message, or nobody new.                     *)
SameTold(mid) ==
    \A u \in Users, flags \in Flags :
        /\ Once(u, mid, flags) => Once(u, mid, flags)'
        /\ Untold(u, mid, flags) => Untold(u, mid, flags)'

NoneToCover(mid) ==
    \A k \in messages' :
        Before(k.mid, mid)' =>
            /\ Before(k.mid, mid)
            /\ \E n \in messages : n.mid = k.mid /\ n.from = k.from /\ n.to = k.to

LEMMA CoveredStays ==
    ASSUME TypeInv, NEW mid, NEW from, NEW to, NEW targets,
           SameTold(mid), NoneToCover(mid), Covered(mid, from, to, targets)
    PROVE  Covered(mid, from, to, targets)'
  <1>1. \A n \in messages : n.from \in Users
    BY DEF TypeInv, TypeOK, MessageType
  <1> SUFFICES ASSUME NEW k \in messages', k.to = to, k.from # from, Before(k.mid, mid)'
               PROVE  k.from \in targets \/ Once(k.from, mid, Inbox)'
    BY DEF Covered
  <1>2. PICK n \in messages : n.mid = k.mid /\ n.from = k.from /\ n.to = k.to
    BY DEF NoneToCover
  <1>3. Before(n.mid, mid)
    BY <1>2 DEF NoneToCover
  <1>4. k.from \in targets \/ Once(k.from, mid, Inbox)
    BY <1>2, <1>3 DEF Covered
  <1>5. k.from \in Users /\ Inbox \in Flags
    BY <1>1, <1>2 DEF Flags
  <1> QED  BY <1>4, <1>5 DEF SameTold

LEMMA ToldAllStays ==
    ASSUME TypeInv, NEW mid, NEW from \in Users, NEW to,
           SameTold(mid), NoneToCover(mid), ToldAll(mid, from, to)
    PROVE  ToldAll(mid, from, to)'
  <1>1. Inbox \in Flags /\ Outbox \in Flags
    BY DEF Flags
  <1>2. to \in Chats => Covered(mid, from, to, {})'
    BY CoveredStays DEF ToldAll
  <1> QED  BY <1>1, <1>2 DEF ToldAll, SameTold

LEMMA HandlerToldStays ==
    ASSUME TypeInv, NEW h \in Handlers, handler'[h] = handler[h], HandlerTold(h),
           h \in Sending /\ handler[h].pc # "insert" => SameTold(handler[h].mid) /\ NoneToCover(handler[h].mid)
    PROVE  HandlerTold(h)'
  <1> DEFINE w == handler[h]
  <1>1. Inbox \in Flags /\ Outbox \in Flags /\ \A u, v : FlagsOf(u, v) \in Flags
    BY DEF Flags, FlagsOf
  <1>2. w.pc # "idle" => w.from \in Users
    BY DEF TypeInv, WorkInv
  <1>3. w.pc \in {"members", "push", "pushMine", "pushMembers"} => SameTold(w.mid) /\ NoneToCover(w.mid)
    BY DEF Sending
  <1>4. w.pc \in {"members", "push"} => \A u \in Users, flags \in Flags : Untold(u, w.mid, flags)'
    BY <1>3 DEF HandlerTold, SameTold
  <1>5. w.pc = "pushMine" => Once(w.to, w.mid, Inbox)' /\ Untold(w.from, w.mid, Outbox)'
    <2>1. w.pc = "pushMine" => w.to \in Users
      BY DEF TypeInv, WorkInv
    <2> QED  BY <1>1, <1>2, <1>3, <2>1 DEF HandlerTold, SameTold
  <1>6. ASSUME w.pc = "pushMembers"
        PROVE  /\ \A u \in w.targets : Untold(u, w.mid, FlagsOf(u, w.from))'
               /\ w.from \in w.targets \/ Once(w.from, w.mid, Outbox)'
               /\ Covered(w.mid, w.from, w.to, w.targets)'
    <2>1. w.targets \subseteq Users
      BY DEF TypeInv, TypeOK, HandlerType
    <2>2. Covered(w.mid, w.from, w.to, w.targets)'
      BY <1>3, <1>6, CoveredStays DEF HandlerTold
    <2> QED  BY <1>1, <1>2, <1>3, <1>6, <2>1, <2>2 DEF HandlerTold, SameTold
  <1> QED  BY <1>4, <1>5, <1>6 DEF HandlerTold

(* Steps of h after which the others have as much to tell as before: the   *)
(* other handlers have other messages, and so have those already answered. *)
LEMMA OthersTold ==
    ASSUME TypeInv, OrderInv, ToldInv, NEW h \in Handlers, Others(h),
           \A k \in Sending : handler[k].pc # "insert" /\ k # h =>
               SameTold(handler[k].mid) /\ NoneToCover(handler[k].mid)
    PROVE  \A k \in Handlers : k # h => HandlerTold(k)'
  <1> SUFFICES ASSUME NEW k \in Handlers, k # h PROVE HandlerTold(k)'
    OBVIOUS
  <1>1. handler'[k] = handler[k] /\ HandlerTold(k)
    BY DEF Others, ToldInv
  <1> QED  BY <1>1, HandlerToldStays

LEMMA SameStored ==
    ASSUME UNCHANGED stored, \A m \in messages' : \E n \in messages : m.mid = n.mid /\ m.from = n.from /\ m.to = n.to
    PROVE  \A mid : NoneToCover(mid)
  <1>1. \A first, mid : Before(first, mid)' <=> Before(first, mid)
    BY DEF Before
  <1> QED  BY <1>1 DEF NoneToCover

LEMMA ToldSame == ASSUME UNCHANGED told PROVE \A mid : SameTold(mid)
  BY DEF SameTold, Once, Untold

(* Nobody is told, nothing is inserted, nobody is answered.                *)
LEMMA SilentTold ==
    ASSUME TypeInv, OrderInv, ToldInv, UNCHANGED <<told, stored, done>>,
           \A m \in messages' : \E n \in messages : m.mid = n.mid /\ m.from = n.from /\ m.to = n.to,
           \A k \in Handlers : handler'[k] # handler[k] => HandlerTold(k)',
           \A k \in Sending' : handler'[k].pc # "insert" => StoredFor(k)'
    PROVE  ToldInv'
  <1>1. \A mid : NoneToCover(mid) /\ SameTold(mid)
    BY SameStored, ToldSame
  <1>2. \A k \in Handlers : HandlerTold(k)'
    <2> SUFFICES ASSUME NEW k \in Handlers, handler'[k] = handler[k] PROVE HandlerTold(k)'
      OBVIOUS
    <2>1. HandlerTold(k)
      BY DEF ToldInv
    <2> QED  BY <1>1, <2>1, HandlerToldStays
  <1>3. AnsweredTold'
    <2> SUFFICES ASSUME NEW i \in DOMAIN stored, stored[i].api, stored[i].mid \in done
                 PROVE  ToldAll(stored[i].mid, stored[i].from, stored[i].to)'
      BY DEF AnsweredTold
    <2>1. ToldAll(stored[i].mid, stored[i].from, stored[i].to)
      BY DEF ToldInv, AnsweredTold
    <2>2. stored[i] \in StoredType
      BY DEF TypeInv, TypeOK
    <2>3. stored[i].from \in Users
      BY <2>2 DEF StoredType
    <2> QED  BY <1>1, <2>1, <2>3, ToldAllStays
  <1> QED  BY <1>2, <1>3 DEF ToldInv

(* A handler that comes to hold a message: nothing has been told of it.    *)
LEMMA StartsTold ==
    ASSUME TypeInv, OrderInv, ToldInv, NEW h \in Handlers, NEW v \in Users, NEW to \in Peers, NEW api \in BOOLEAN,
           Starts(h, v, to, api)
    PROVE  ToldInv'
  <1>1. /\ Others(h) /\ handler'[h].pc = "nextID" /\ handler[h].pc = "idle"
        /\ UNCHANGED <<messages, lastMid, told, reader, lister, stored, done>>
    BY StartsEffect
  <1>2. \A k \in Handlers : handler'[k] # handler[k] => HandlerTold(k)'
    BY <1>1 DEF Others, HandlerTold
  <1>3. \A k \in Sending' : k \in Sending /\ handler'[k] = handler[k]
    BY <1>1 DEF Others, Sending
  <1>4. \A k \in Sending' : handler'[k].pc # "insert" => StoredFor(k)'
    BY <1>1, <1>3 DEF ToldInv, StoredFor
  <1> QED  BY <1>1, <1>2, <1>4, SilentTold

LEMMA NextIDTold == ASSUME TypeInv, OrderInv, ToldInv, NEW h \in Handlers, NextID(h) PROVE ToldInv'
  <1>1. /\ Others(h) /\ handler'[h].pc = "insert" /\ handler[h].pc = "nextID"
        /\ UNCHANGED <<messages, told, reader, lister, stored, done>>
    BY NextIDEffect
  <1>2. \A k \in Handlers : handler'[k] # handler[k] => HandlerTold(k)'
    BY <1>1 DEF Others, HandlerTold
  <1>3. \A k \in Sending' : handler'[k].pc # "insert" => k \in Sending /\ handler'[k] = handler[k]
    BY <1>1 DEF Others, Sending
  <1>4. \A k \in Sending' : handler'[k].pc # "insert" => StoredFor(k)'
    BY <1>1, <1>3 DEF ToldInv, StoredFor
  <1> QED  BY <1>1, <1>2, <1>4, SilentTold

(* The members are those who are there when they are read: all who were    *)
(* there before.                                                           *)
LEMMA MembersTold == ASSUME TypeInv, OrderInv, ToldInv, NEW h \in Handlers, Members(h) PROVE ToldInv'
  <1> DEFINE w == handler[h]
             targets == ChatMembers(w.to) \cup {w.from}
  <1>1. /\ w.pc = "members" /\ h \in Sending /\ w.from \in Users
        /\ Goes(h, "pushMembers", targets) /\ UNCHANGED <<messages, lastMid, told, reader, lister, stored>>
    BY DEF Members, Sending, TypeInv, WorkInv
  <1>2. targets \in SUBSET Users
    BY <1>1 DEF ChatMembers, ChatMessages, TypeInv, TypeOK, MessageType
  <1>3. /\ Others(h) /\ Keeps(h) /\ done' = done
        /\ handler'[h].pc = "pushMembers" /\ handler'[h].targets = targets
    BY <1>1, <1>2, GoesEffect DEF SendingPcs
  <1>4. HandlerTold(h)'
    <2>1. \A u \in Users, flags \in Flags : Untold(u, w.mid, flags)
      BY <1>1 DEF ToldInv, HandlerTold
    <2>2. w.from \in targets /\ \A k \in messages : k.to = w.to => k.from \in targets
      BY DEF ChatMembers, ChatMessages
    <2> HIDE DEF targets
    <2>3. /\ handler'[h].mid = w.mid /\ handler'[h].from = w.from /\ handler'[h].to = w.to
          /\ handler'[h].targets = targets /\ handler'[h].pc = "pushMembers"
      BY <1>3 DEF Keeps
    <2>4. \A u \in targets : Untold(u, handler[h].mid, FlagsOf(u, handler[h].from))'
      <3>1. \A u \in targets : Untold(u, w.mid, FlagsOf(u, w.from))
        BY <1>2, <2>1 DEF FlagsOf, Flags
      <3> QED  BY <1>1, <2>3, <3>1 DEF Untold, FlagsOf
    <2>5. Covered(handler[h].mid, handler[h].from, handler[h].to, handler[h].targets)'
      BY <1>1, <2>2, <2>3 DEF Covered
    <2> QED  BY <2>2, <2>3, <2>4, <2>5 DEF HandlerTold
  <1>5. \A k \in Handlers : handler'[k] # handler[k] => HandlerTold(k)'
    BY <1>3, <1>4 DEF Others
  <1>6. \A k \in Sending' : handler'[k].pc # "insert" => StoredFor(k)'
    <2>1. \A k \in Sending' : /\ k \in Sending
                              /\ handler'[k].pc # "insert" => handler[k].pc # "insert"
                              /\ handler'[k].mid = handler[k].mid /\ handler'[k].from = handler[k].from
                              /\ handler'[k].to = handler[k].to
      BY <1>1, <1>3 DEF Others, Sending, Keeps
    <2> QED  BY <1>1, <2>1 DEF ToldInv, StoredFor
  <1> QED  BY <1>1, <1>3, <1>5, <1>6, SilentTold

LEMMA InsertTold == ASSUME TypeInv, OrderInv, ToldInv, NEW h \in Handlers, Insert(h) PROVE ToldInv'
  <1> DEFINE w == handler[h]
             n == Len(stored) + 1
  <1>1. /\ Others(h) /\ w.pc = "insert" /\ h \in Sending
        /\ messages' = messages \cup {Row(h)}
        /\ DOMAIN stored' = DOMAIN stored \cup {n} /\ n \notin DOMAIN stored
        /\ DOMAIN stored = 1 .. Len(stored) /\ Len(stored) \in Nat
        /\ stored'[n] = Record(h) /\ \A i \in DOMAIN stored : stored'[i] = stored[i]
        /\ \/ ~w.api /\ handler'[h] = Idle /\ done' = done \cup {w.mid}
           \/ w.api /\ Keeps(h) /\ handler'[h].pc = NextPc(w) /\ done' = done
        /\ UNCHANGED told
    BY InsertEffect
  <1>2. /\ Record(h).mid = w.mid /\ Record(h).from = w.from /\ Record(h).to = w.to /\ Record(h).api = w.api
        /\ Row(h).mid = w.mid
    BY DEF Record, Row
  <1>3. ~Served(w.mid) /\ w.mid \notin done
    BY <1>1 DEF TypeInv, IdsInv, OrderInv, AnsweredInv
  <1>4. \A i \in DOMAIN stored : i < n
    BY <1>1
  <1> HIDE DEF n
  <1>5. \A mid : SameTold(mid)
    BY <1>1, ToldSame
  <1>6. ASSUME NEW mid, Served(mid) PROVE NoneToCover(mid)
    <2> SUFFICES ASSUME NEW k \in messages', Before(k.mid, mid)' PROVE Before(k.mid, mid) /\ k \in messages
      BY DEF NoneToCover
    <2>1. PICK i \in DOMAIN stored', j \in DOMAIN stored' :
             stored'[i].mid = mid /\ stored'[j].mid = k.mid /\ j <= i
      BY DEF Before
    <2>2. i \in DOMAIN stored
      BY <1>1, <1>2, <1>3, <1>6, <2>1
    <2>3. j \in DOMAIN stored
      <3>1. i < n /\ n \in Nat /\ i \in Nat
        BY <1>1, <1>4, <2>2 DEF n
      <3>2. j # n
        BY <2>1, <3>1
      <3> QED  BY <1>1, <3>2
    <2>4. stored[i].mid = mid /\ stored[j].mid = k.mid
      BY <1>1, <2>1, <2>2, <2>3
    <2>5. k # Row(h)
      BY <1>2, <1>3, <2>3, <2>4 DEF Served
    <2> QED  BY <1>1, <2>1, <2>2, <2>3, <2>4, <2>5 DEF Before
  <1>7. \A k \in Sending : handler[k].pc # "insert" => Served(handler[k].mid)
    BY DEF TypeInv, IdsInv
  <1>8. \A k \in Handlers : HandlerTold(k)'
    <2>1. \A k \in Handlers : k # h => HandlerTold(k)'
      BY <1>1, <1>5, <1>6, <1>7, OthersTold
    <2>2. CASE handler'[h] = Idle
      BY <2>1, <2>2, IdleFacts DEF HandlerTold
    <2>3. CASE Keeps(h) /\ handler'[h].pc = NextPc(w)
      <3>1. \A u \in Users, flags \in Flags : Untold(u, w.mid, flags)
        BY <1>3, UpdateFacts DEF OrderInv, StoredInv, Untold
      <3>2. \A u \in Users, flags \in Flags : Untold(u, handler[h].mid, flags)'
        BY <1>1, <2>3, <3>1 DEF Untold, Keeps
      <3>3. handler'[h].pc \in {"members", "push"}
        BY <2>3 DEF NextPc
      <3> QED  BY <2>1, <3>2, <3>3 DEF HandlerTold
    <2> QED  BY <1>1, <2>2, <2>3
  <1>9. ASSUME NEW k \in Sending', handler'[k].pc # "insert" PROVE StoredFor(k)'
    <2>1. CASE k = h
      <3>1. Keeps(h)
        BY <1>1, <2>1, IdleFacts DEF Sending
      <3> QED  BY <1>1, <1>2, <1>3, <2>1, <3>1 DEF StoredFor, Keeps, Served
    <2>2. CASE k # h
      <3>1. k \in Sending /\ handler'[k] = handler[k]
        BY <1>1, <2>2 DEF Others, Sending
      <3>2. StoredFor(k) /\ handler[k].mid # w.mid
        BY <1>1, <1>9, <2>2, <3>1 DEF ToldInv, TypeInv, IdsInv
      <3> QED  BY <1>1, <1>2, <3>1, <3>2 DEF StoredFor
    <2> QED  BY <2>1, <2>2
  <1>10. AnsweredTold'
    <2> SUFFICES ASSUME NEW i \in DOMAIN stored', stored'[i].api, stored'[i].mid \in done'
                 PROVE  ToldAll(stored[i].mid, stored[i].from, stored[i].to)'
      BY DEF AnsweredTold
    <2>1. i \in DOMAIN stored
      BY <1>1, <1>2, <1>3
    <2>2. stored'[i] = stored[i] /\ stored[i].mid # w.mid
      BY <1>1, <1>3, <2>1 DEF Served
    <2>3. ToldAll(stored[i].mid, stored[i].from, stored[i].to)
      BY <1>1, <2>1, <2>2 DEF ToldInv, AnsweredTold
    <2>4. stored[i] \in StoredType /\ Served(stored[i].mid)
      BY <2>1 DEF TypeInv, TypeOK, Served
    <2>5. stored[i].from \in Users
      BY <2>4 DEF StoredType
    <2> QED  BY <1>5, <1>6, <2>2, <2>3, <2>4, <2>5, ToldAllStays
  <1> QED  BY <1>8, <1>9, <1>10 DEF ToldInv

(* A push tells one user of the handler's message, and nobody of others.   *)
LEMMA PushOnce ==
    ASSUME TypeInv, NEW u \in Users, NEW mid \in Mids, NEW flags \in Flags, Push(u, mid, flags)
    PROVE  /\ Untold(u, mid, flags) => Once(u, mid, flags)'
           /\ \A v \in Users, f \in Flags : \A x : <<v, x, f>> # <<u, mid, flags>> =>
                 /\ Once(v, x, f) => Once(v, x, f)'
                 /\ Untold(v, x, f) => Untold(v, x, f)'
  <1> DEFINE n == Len(told[u]) + 1
  <1>1. told'[u] = Append(told[u], Update(mid, flags)) /\ \A v \in Users : v # u => told'[v] = told[v]
    BY PushType DEF Update, Flags
  <1>2. told[u] \in Seq([mid : Mids, flags : {Inbox, Outbox}]) /\ Update(mid, flags) \in [mid : Mids, flags : {Inbox, Outbox}]
    BY DEF TypeInv, TypeOK, Update, Flags
  <1>3. /\ DOMAIN told'[u] = DOMAIN told[u] \cup {n} /\ n \notin DOMAIN told[u]
        /\ told'[u][n] = Update(mid, flags) /\ \A i \in DOMAIN told[u] : told'[u][i] = told[u][i]
    BY <1>1, <1>2, AppendFacts
  <1> HIDE DEF n
  <1>4. Untold(u, mid, flags) => Once(u, mid, flags)'
    BY <1>3 DEF Untold, Once
  <1>5. ASSUME NEW v \in Users, NEW f \in Flags, NEW x, <<v, x, f>> # <<u, mid, flags>>
        PROVE  /\ Once(v, x, f) => Once(v, x, f)'
               /\ Untold(v, x, f) => Untold(v, x, f)'
    <2>1. CASE v # u
      BY <1>1, <2>1 DEF Once, Untold
    <2>2. CASE v = u
      <3>1. Update(x, f) # Update(mid, flags)
        BY <1>5, <2>2, UpdateFacts
      <3> QED  BY <1>3, <2>2, <3>1 DEF Once, Untold
    <2> QED  BY <2>1, <2>2
  <1> QED  BY <1>4, <1>5

LEMMA PushTold ==
    ASSUME TypeInv, OrderInv, ToldInv, NEW h \in Sending, handler[h].pc # "insert",
           NEW mid \in Mids, NEW from \in Users, NEW to,
           mid = handler[h].mid, from = handler[h].from, to = handler[h].to,
           NEW u \in Users, NEW flags \in Flags, Push(u, mid, flags), Others(h),
           UNCHANGED <<messages, lastMid, stored>>,
           \/ handler'[h] = Idle /\ done' = done \cup {mid} /\ ToldAll(mid, from, to)'
           \/ Keeps(h) /\ done' = done /\ HandlerTold(h)'
    PROVE  ToldInv'
  <1>1. \A x : x # mid => SameTold(x)
    BY PushOnce DEF SameTold
  <1>2. \A x : NoneToCover(x)
    BY SameStored
  <1>3. \A k \in Sending : k # h => handler[k].mid # mid
    BY DEF TypeInv, IdsInv
  <1>4. h \in Handlers
    BY DEF Sending
  <1>5. \A k \in Handlers : k # h => HandlerTold(k)'
    BY <1>1, <1>2, <1>3, <1>4, OthersTold
  <1>6. HandlerTold(h)'
    BY <1>4, IdleFacts DEF HandlerTold
  <1>7. ASSUME NEW k \in Sending', handler'[k].pc # "insert" PROVE StoredFor(k)'
    <2>1. CASE k = h
      <3>1. Keeps(h) /\ StoredFor(h)
        BY <2>1, IdleFacts DEF Sending, ToldInv
      <3> QED  BY <2>1, <3>1 DEF StoredFor, Keeps
    <2>2. CASE k # h
      <3>1. k \in Sending /\ handler'[k] = handler[k]
        BY <2>2 DEF Others, Sending
      <3>2. StoredFor(k)
        BY <1>7, <3>1 DEF ToldInv
      <3> QED  BY <3>1, <3>2 DEF StoredFor
    <2> QED  BY <2>1, <2>2
  <1>8. AnsweredTold'
    <2> SUFFICES ASSUME NEW i \in DOMAIN stored, stored[i].api, stored[i].mid \in done'
                 PROVE  ToldAll(stored[i].mid, stored[i].from, stored[i].to)'
      BY DEF AnsweredTold
    <2>1. CASE stored[i].mid \in done
      <3>1. ToldAll(stored[i].mid, stored[i].from, stored[i].to)
        BY <2>1 DEF ToldInv, AnsweredTold
      <3>2. stored[i].mid # mid
        BY <2>1 DEF OrderInv, AnsweredInv
      <3>3. stored[i] \in StoredType
        BY DEF TypeInv, TypeOK
      <3>4. stored[i].from \in Users
        BY <3>3 DEF StoredType
      <3> QED  BY <1>1, <1>2, <3>1, <3>2, <3>4, ToldAllStays
    <2>2. CASE stored[i].mid \notin done
      <3>1. stored[i].mid = mid /\ ToldAll(mid, from, to)'
        BY <2>2
      <3>2. stored[i].from = from /\ stored[i].to = to
        BY <3>1 DEF ToldInv, StoredFor
      <3> QED  BY <3>1, <3>2
    <2> QED  BY <2>1, <2>2
  <1> QED  BY <1>4, <1>5, <1>6, <1>7, <1>8 DEF ToldInv

(* What a handler holds when it pushes.                                    *)
LEMMA PushingFacts ==
    ASSUME TypeInv, NEW h \in Handlers, handler[h].pc \in {"push", "pushMine", "pushMembers"}
    PROVE  /\ h \in Sending /\ handler[h].mid \in Mids /\ handler[h].from \in Users
           /\ handler[h].pc # "pushMembers" => handler[h].to \in Users
           /\ handler[h].pc = "pushMembers" => handler[h].to \in Chats
           /\ handler[h].targets \subseteq Users
  <1>1. h \in Sending
    BY DEF Sending
  <1>2. handler[h].mid \in 1 .. lastMid /\ lastMid \in 0 .. MaxMid
    BY <1>1 DEF TypeInv, TypeOK, IdsInv
  <1>3. handler[h].mid \in Mids
    BY <1>2, ConstantsAssumption DEF Mids
  <1>4. handler[h].targets \subseteq Users
    BY DEF TypeInv, TypeOK, HandlerType
  <1> QED  BY <1>1, <1>3, <1>4 DEF TypeInv, WorkInv

LEMMA PushPeerTold == ASSUME TypeInv, OrderInv, ToldInv, NEW h \in Handlers, PushPeer(h) PROVE ToldInv'
  <1>1. PICK mid, from, to : mid = handler[h].mid /\ from = handler[h].from /\ to = handler[h].to
    OBVIOUS
  <1>2. handler[h].pc = "push" /\ Push(to, mid, Inbox) /\ Goes(h, "pushMine", {})
    BY <1>1 DEF PushPeer
  <1>3. h \in Sending /\ mid \in Mids /\ from \in Users /\ to \in Users
    BY <1>1, <1>2, PushingFacts
  <1>4. Inbox \in Flags /\ Outbox \in Flags /\ Inbox # Outbox
    BY UpdateFacts DEF Flags
  <1>5. Others(h) /\ Keeps(h) /\ handler'[h].pc = "pushMine" /\ done' = done
    BY <1>2, GoesEffect DEF SendingPcs
  <1>6. \A u \in Users, flags \in Flags : Untold(u, mid, flags)
    BY <1>1, <1>2 DEF ToldInv, HandlerTold
  <1>7. Once(to, mid, Inbox)' /\ Untold(from, mid, Outbox)'
    BY <1>2, <1>3, <1>4, <1>6, PushOnce
  <1>8. HandlerTold(h)'
    BY <1>1, <1>5, <1>7 DEF HandlerTold, Keeps
  <1>9. UNCHANGED <<messages, lastMid, stored>>
    BY DEF PushPeer
  <1> QED  BY <1>1, <1>2, <1>3, <1>4, <1>5, <1>8, <1>9, PushTold

LEMMA PushMineTold == ASSUME TypeInv, OrderInv, ToldInv, NEW h \in Handlers, PushMine(h) PROVE ToldInv'
  <1>1. PICK mid, from, to : mid = handler[h].mid /\ from = handler[h].from /\ to = handler[h].to
    OBVIOUS
  <1>2. handler[h].pc = "pushMine" /\ Push(from, mid, Outbox) /\ Answers(h)
    BY <1>1 DEF PushMine
  <1>3. h \in Sending /\ mid \in Mids /\ from \in Users /\ to \in Users /\ to \notin Chats
    BY <1>1, <1>2, PushingFacts, ConstantsAssumption
  <1>4. Inbox \in Flags /\ Outbox \in Flags /\ Inbox # Outbox
    BY UpdateFacts DEF Flags
  <1>5. Others(h) /\ handler'[h] = Idle /\ done' = done \cup {mid}
    BY <1>1, <1>2, AnswersEffect
  <1>6. Once(to, mid, Inbox) /\ Untold(from, mid, Outbox)
    BY <1>1, <1>2 DEF ToldInv, HandlerTold
  <1>7. Once(to, mid, Inbox)' /\ Once(from, mid, Outbox)'
    BY <1>2, <1>3, <1>4, <1>6, PushOnce
  <1>8. ToldAll(mid, from, to)'
    BY <1>3, <1>7 DEF ToldAll
  <1>9. UNCHANGED <<messages, lastMid, stored>>
    BY DEF PushMine
  <1> QED  BY <1>1, <1>2, <1>3, <1>4, <1>5, <1>8, <1>9, PushTold

LEMMA PushMemberTold == ASSUME TypeInv, OrderInv, ToldInv, NEW h \in Handlers, PushMember(h) PROVE ToldInv'
  <1>1. PICK mid, from, to, targets : /\ mid = handler[h].mid /\ from = handler[h].from
                                      /\ to = handler[h].to /\ targets = handler[h].targets
    OBVIOUS
  <1>2. PICK u \in targets : /\ handler[h].pc = "pushMembers" /\ Push(u, mid, FlagsOf(u, from))
                             /\ IF targets = {u} THEN Answers(h) ELSE Goes(h, "pushMembers", targets \ {u})
    BY <1>1 DEF PushMember, FlagsOf
  <1>3. /\ h \in Sending /\ mid \in Mids /\ from \in Users /\ to \in Chats /\ to \notin Users
        /\ targets \subseteq Users /\ u \in Users
    BY <1>1, <1>2, PushingFacts, ConstantsAssumption
  <1>4. Inbox \in Flags /\ Outbox \in Flags /\ Inbox # Outbox /\ \A v : FlagsOf(v, from) \in Flags
    BY UpdateFacts DEF Flags, FlagsOf
  <1>5. /\ \A v \in targets : Untold(v, mid, FlagsOf(v, from))
        /\ from \in targets \/ Once(from, mid, Outbox)
        /\ Covered(mid, from, to, targets)
    BY <1>1, <1>2 DEF ToldInv, HandlerTold
  <1>6. UNCHANGED <<messages, lastMid, stored>>
    BY DEF PushMember
  <1>7. \A v \in targets \ {u} : Untold(v, mid, FlagsOf(v, from))'
    BY <1>2, <1>3, <1>4, <1>5, PushOnce
  <1>8. from \in targets \ {u} \/ Once(from, mid, Outbox)'
    <2>1. CASE from = u
      BY <1>2, <1>3, <1>4, <1>5, <2>1, PushOnce DEF FlagsOf
    <2>2. CASE from # u
      BY <1>2, <1>3, <1>4, <1>5, <2>2, PushOnce
    <2> QED  BY <2>1, <2>2
  <1>9. Covered(mid, from, to, targets \ {u})'
    <2> SUFFICES ASSUME NEW k \in messages, k.to = to, k.from # from, Before(k.mid, mid)'
                 PROVE  k.from \in targets \ {u} \/ Once(k.from, mid, Inbox)'
      BY <1>6 DEF Covered
    <2>1. k.from \in targets \/ Once(k.from, mid, Inbox)
      BY <1>5, <1>6 DEF Covered, Before
    <2>2. k.from \in Users
      BY DEF TypeInv, TypeOK, MessageType
    <2>3. CASE k.from = u
      <3>1. FlagsOf(u, from) = Inbox
        BY <2>3 DEF FlagsOf
      <3> QED  BY <1>2, <1>3, <1>4, <1>5, <2>3, <3>1, PushOnce
    <2>4. CASE k.from # u
      BY <1>2, <1>3, <1>4, <2>1, <2>2, <2>4, PushOnce
    <2> QED  BY <2>3, <2>4
  <1>10. CASE targets = {u}
    <2>1. Others(h) /\ handler'[h] = Idle /\ done' = done \cup {mid}
      BY <1>1, <1>2, <1>10, AnswersEffect
    <2>2. ToldAll(mid, from, to)'
      <3>1. targets \ {u} = {}
        BY <1>10
      <3> QED  BY <1>3, <1>8, <1>9, <3>1 DEF ToldAll
    <2> QED  BY <1>1, <1>2, <1>3, <1>4, <1>6, <2>1, <2>2, PushTold
  <1>11. CASE targets # {u}
    <2>1. /\ Others(h) /\ Keeps(h) /\ done' = done
          /\ handler'[h].pc = "pushMembers" /\ handler'[h].targets = targets \ {u}
      BY <1>2, <1>3, <1>11, GoesEffect DEF SendingPcs
    <2>2. handler'[h].mid = mid /\ handler'[h].from = from /\ handler'[h].to = to
      BY <1>1, <2>1 DEF Keeps
    <2>3. HandlerTold(h)'
      BY <1>7, <1>8, <1>9, <2>1, <2>2 DEF HandlerTold
    <2> QED  BY <1>1, <1>2, <1>3, <1>4, <1>6, <2>1, <2>3, PushTold
  <1> QED  BY <1>10, <1>11

LEMMA ToldInvStep == TypeInv /\ OrderInv /\ ToldInv /\ [Next]_vars => ToldInv'
  <1> SUFFICES ASSUME TypeInv, OrderInv, ToldInv, [Next]_vars PROVE ToldInv'
    OBVIOUS
  <1>1. CASE Crash
    <2>1. \A k \in Handlers : handler'[k].pc = "idle"
      BY <1>1, IdleFacts DEF Crash
    <2>2. \A k \in Handlers : HandlerTold(k)'
      BY <2>1 DEF HandlerTold
    <2>3. Sending' = {}
      BY <2>1 DEF Sending
    <2> QED  BY <1>1, <2>2, <2>3, SilentTold DEF Crash
  <1>2. CASE \/ \E mid \in 1 .. MaxMid : messagesDelete(mid) \/ handleMessageDelete(mid)
             \/ \E v \in Users, mids \in SUBSET (1 .. MaxMid) : messagesMarkAsRead(v, mids)
             \/ \E r \in Readers :
                   \/ \E peer \in Peers : OpenHistory(r, peer)
                   \/ messagesGetHistory(r) \/ CloseHistory(r) \/ ListDialogs(r)
             \/ UNCHANGED vars
    <2>1. /\ UNCHANGED <<lastMid, handler, told, stored, done>>
          /\ \A m \in messages' : \E n \in messages : m.mid = n.mid /\ m.from = n.from /\ m.to = n.to
      BY <1>2, QuietActions
    <2>2. \A k \in Sending' : handler'[k].pc # "insert" => StoredFor(k)'
      BY <2>1 DEF ToldInv, Sending, StoredFor
    <2> QED  BY <2>1, <2>2, SilentTold
  <1> QED  BY <1>1, <1>2, StartsTold, NextIDTold, InsertTold, MembersTold, PushPeerTold, PushMineTold, PushMemberTold
           DEF Next, Send, messagesSend, handleMessageSend

LEMMA OnceIsOneTime == ASSUME NEW u, NEW mid, NEW flags, Once(u, mid, flags) PROVE Times(u, mid, flags) = 1
  <1>1. PICK i \in DOMAIN told[u] : /\ told[u][i] = Update(mid, flags)
                                    /\ \A j \in DOMAIN told[u] : told[u][j] = Update(mid, flags) => j = i
    BY DEF Once
  <1>2. {j \in DOMAIN told[u] : told[u][j] = Update(mid, flags)} = {i}
    BY <1>1
  <1> QED  BY <1>2, FS_Singleton DEF Times, Update

(* Whoever messages.send should tell has been told once when it answers.   *)
THEOREM RecipientsTold == Spec => []RecipientsAreTold
  <1>1. Init => TypeInv /\ OrderInv /\ ToldInv
    BY InitTypeInv, InitOrderInv, InitToldInv
  <1>2. TypeInv /\ OrderInv /\ ToldInv /\ [Next]_vars => (TypeInv /\ OrderInv /\ ToldInv)'
    BY TypeInvStep, OrderInvStep, ToldInvStep
  <1>3. TypeInv /\ ToldInv => RecipientsAreTold
    <2> SUFFICES ASSUME TypeInv, ToldInv, NEW i \in DOMAIN stored, stored[i].api, stored[i].mid \in done
                 PROVE  /\ Times(stored[i].from, stored[i].mid, Outbox) = 1
                        /\ stored[i].to \in Users => Times(stored[i].to, stored[i].mid, Inbox) = 1
                        /\ stored[i].to \in Chats =>
                              \A k \in messages :
                                 /\ k.to = stored[i].to /\ k.from # stored[i].from
                                 /\ \E j \in 1 .. i : stored[j].mid = k.mid
                                 => Times(k.from, stored[i].mid, Inbox) = 1
      BY DEF RecipientsAreTold
    <2>1. ToldAll(stored[i].mid, stored[i].from, stored[i].to)
      BY DEF ToldInv, AnsweredTold
    <2>2. \A k : (\E j \in 1 .. i : stored[j].mid = k.mid) => Before(k.mid, stored[i].mid)
      <3>1. DOMAIN stored = 1 .. Len(stored) /\ Len(stored) \in Nat
        BY DEF TypeInv, TypeOK
      <3>2. \A j \in 1 .. i : j \in DOMAIN stored /\ j <= i
        BY <3>1
      <3> QED  BY <3>2 DEF Before
    <2> QED  BY <2>1, <2>2, OnceIsOneTime DEF ToldAll, Covered
  <1> QED  BY <1>1, <1>2, <1>3, PTL DEF Spec

-----------------------------------------------------------------------------
(* The lists of dialogs. *)
(* A dialog opens with the message it is listed with as its last.          *)
LEMMA DialogOpens ==
    ASSUME TypeOK, NEW u \in Users, NEW m \in LastMessages(u)
    PROVE  /\ m \in conversationBlock(u, PeerFor(m, u))
           /\ \A n \in conversationBlock(u, PeerFor(m, u)) : n.mid <= m.mid
  <1>1. /\ m \in messages /\ InDialogs(m, u)
        /\ \A n \in messages : InDialogs(n, u) /\ PeerFor(n, u) = PeerFor(m, u) => n.mid <= m.mid
    BY DEF LastMessages
  <1>2. \A n \in messages : n.from \in Users /\ n.to \in Peers
    BY DEF TypeOK, MessageType
  <1>3. CASE m.to \in Chats
    <2>1. PeerFor(m, u) = m.to /\ conversationBlock(u, m.to) = ChatMessages(m.to)
      BY <1>3 DEF PeerFor, conversationBlock
    <2>2. \A n \in ChatMessages(m.to) : n \in messages /\ InDialogs(n, u) /\ PeerFor(n, u) = m.to
      BY <1>1, <1>3 DEF ChatMessages, InDialogs, PeerFor
    <2> QED  BY <1>1, <2>1, <2>2 DEF ChatMessages
  <1>4. CASE m.to \notin Chats
    <2> DEFINE peer == PeerFor(m, u)
    <2>1. u \in {m.from, m.to} /\ m.to \in Users /\ peer \in Users /\ peer \notin Chats
      BY <1>1, <1>2, <1>4, ConstantsAssumption DEF InDialogs, PeerFor, Peers
    <2>2. conversationBlock(u, peer) = Conversation(u, peer)
      BY <2>1 DEF conversationBlock
    <2>3. <<m.from, m.to>> \in {<<u, peer>>, <<peer, u>>}
      BY <2>1, <1>4 DEF PeerFor
    <2>4. ASSUME NEW n \in Conversation(u, peer)
          PROVE  n \in messages /\ InDialogs(n, u) /\ PeerFor(n, u) = peer
      <3>1. n \in messages /\ ((n.from = u /\ n.to = peer) \/ (n.from = peer /\ n.to = u))
        BY DEF Conversation
      <3>2. n.to \notin Chats
        BY <2>1, <3>1, ConstantsAssumption
      <3> QED  BY <3>1, <3>2 DEF InDialogs, PeerFor
    <2> QED  BY <1>1, <2>2, <2>3, <2>4 DEF Conversation
  <1> QED  BY <1>3, <1>4

(* The invariant of the handlers that list dialogs: a page without a gap  *)
(* shows what its client was told of, and it fits the number of dialogs as *)
(* long as no message came or went.                                        *)
ListedInv(r) ==
    LET c == lister[r]
    IN  /\ c.pc = "listed" /\ c.offset = 0 /\ Cardinality(c.page) < c.count =>
              \A t \in c.told : \E e \in c.page : e.peer = t.peer /\ e.mid >= t.mid
        /\ c.pc = "listed" /\ ~c.changed =>
              Cardinality(c.page) = Limited(DialogCount(c.me), c.offset, c.count)
        /\ c.pc = "answered" /\ ~c.changed => Cardinality(c.page) = Limited(c.total, c.offset, c.count)

(* A page has as many entries as there are messages on it. *)
LEMMA EntriesCounted ==
    ASSUME TypeOK, NEW u \in Users, NEW page, page \subseteq LastMessages(u)
    PROVE  Cardinality({Entry(m, u) : m \in page}) = Cardinality(page)
  <1> DEFINE entries == {Entry(m, u) : m \in page}
             f == [m \in page |-> Entry(m, u)]
  <1>1. page \subseteq messages
    BY DEF LastMessages
  <1>2. IsFiniteSet(page)
    BY DialogsCounted, FS_Subset
  <1>3. f \in [page -> entries] /\ \A t \in entries : \E m \in page : f[m] = t
    OBVIOUS
  <1>4. ASSUME NEW m \in page, NEW n \in page, f[m] = f[n] PROVE m = n
    <2>1. m.mid = n.mid
      BY <1>1, <1>4, EntryFacts
    <2> QED  BY <1>1, <2>1 DEF TypeOK
  <1> HIDE DEF f, entries
  <1>5. Cardinality(entries) = Cardinality(page)
    BY <1>2, <1>3, <1>4, SameSize
  <1> QED  BY <1>5 DEF entries

(* Marking messages as read makes and ends no dialog. *)
LEMMA MarkedDialogs ==
    ASSUME TypeOK, NEW v, NEW mids, MarkMessagesRead(v, mids), NEW u \in Users
    PROVE  DialogCount(u)' = DialogCount(u)
  <1> DEFINE Marked(m) == [m EXCEPT !.read = @ \/ (m.mid \in mids /\ m.to = v)]
  <1>1. messages' = {Marked(m) : m \in messages}
    BY DEF MarkMessagesRead
  <1>2. ASSUME NEW m \in messages
        PROVE  Marked(m).mid = m.mid /\ Marked(m).from = m.from /\ Marked(m).to = m.to
    <2>1. m \in MessageType
      BY DEF TypeOK
    <2> QED  BY <2>1 DEF MessageType
  <1> HIDE DEF Marked
  <1>3. \A m \in messages' : \E n \in messages : m.from = n.from /\ m.to = n.to
    BY <1>1, <1>2
  <1>4. \A n \in messages : \E m \in messages' : m.from = n.from /\ m.to = n.to
    BY <1>1, <1>2
  <1> DEFINE In(m, rows) ==
                IF m.to \in Chats THEN \E n \in rows : n.to = m.to /\ n.from = u
                                  ELSE u \in {m.from, m.to}
             Peer(m) == IF m.to \in Chats \/ m.from = u THEN m.to ELSE m.from
  <1>5. /\ \A m \in messages : InDialogs(m, u) <=> In(m, messages)
        /\ \A m \in messages' : InDialogs(m, u)' <=> In(m, messages')
    BY DEF InDialogs, ChatMembers, ChatMessages
  <1>6. \A m : PeerFor(m, u) = Peer(m)
    BY DEF PeerFor
  <1>7. {PeerFor(m, u) : m \in {n \in messages : InDialogs(n, u)}} =
            {Peer(m) : m \in {n \in messages : In(n, messages)}}
    BY <1>5, <1>6
  <1>8. {PeerFor(m, u)' : m \in {n \in messages' : InDialogs(n, u)'}} =
            {Peer(m) : m \in {n \in messages' : In(n, messages')}}
    BY <1>5, <1>6 DEF PeerFor
  <1>9. ASSUME NEW m \in messages, NEW n \in messages', m.from = n.from, m.to = n.to
        PROVE  Peer(m) = Peer(n) /\ (In(m, messages) <=> In(n, messages'))
    <2>1. \A c : (\E k \in messages : k.to = c /\ k.from = u) <=> (\E k \in messages' : k.to = c /\ k.from = u)
      BY <1>3, <1>4
    <2> QED  BY <1>9, <2>1
  <1> HIDE DEF In, Peer
  <1>10. {Peer(m) : m \in {n \in messages : In(n, messages)}} =
            {Peer(m) : m \in {n \in messages' : In(n, messages')}}
    <2>1. \A m \in {n \in messages : In(n, messages)} :
             \E k \in {n \in messages' : In(n, messages')} : Peer(m) = Peer(k)
      BY <1>4, <1>9
    <2>2. \A k \in {n \in messages' : In(n, messages')} :
             \E m \in {n \in messages : In(n, messages)} : Peer(m) = Peer(k)
      BY <1>3, <1>9
    <2> QED  BY <2>1, <2>2
  <1> QED  BY <1>7, <1>8, <1>10 DEF DialogCount

LEMMA PageFits ==
    ASSUME TypeOK, NEW r \in Readers, NEW u \in Users, NEW offset \in 0 .. 1, NEW count \in 1 .. Count,
           ReadDialogs(r, u, offset, count), messages' = messages
    PROVE  ListedInv(r)'
  <1>1. PICK page \in Dialogs(u, offset, count) :
              /\ lister'[r].pc = "listed" /\ lister'[r].me = u
              /\ lister'[r].offset = offset /\ lister'[r].count = count
              /\ lister'[r].page = {Entry(m, u) : m \in page} /\ lister'[r].told = Known(u)
    BY PageListed
  <1> DEFINE entries == {Entry(m, u) : m \in page}
             n == Cardinality(LastMessages(u))
  <1>2. /\ page \subseteq LastMessages(u) /\ Cardinality(page) = Limited(n, offset, count)
        /\ LastMessages(u) \subseteq messages
    BY DEF Dialogs, LastMessages
  <1>3. /\ Cardinality(entries) = Limited(n, offset, count) /\ n = DialogCount(u) /\ n \in Nat
        /\ IsFiniteSet(LastMessages(u))
    BY <1>2, EntriesCounted, DialogsCounted
  <1>4. DialogCount(u)' = DialogCount(u)
    BY DEF DialogCount, InDialogs, PeerFor, ChatMembers, ChatMessages
  <1>5. ASSUME offset = 0, Cardinality(entries) < count, NEW t \in Known(u)
        PROVE  \E e \in entries : e.peer = t.peer /\ e.mid >= t.mid
    <2>1. Limited(n, offset, count) = n
      BY <1>3, <1>5, ConstantsAssumption DEF Limited
    <2>2. page = LastMessages(u)
      BY <1>2, <1>3, <2>1, FS_Subset
    <2>3. PICK m \in messages : InDialogs(m, u) /\ t = Entry(m, u)
      BY <1>5 DEF Known
    <2>4. PICK k \in LastMessages(u) : PeerFor(k, u) = PeerFor(m, u) /\ k.mid >= m.mid
      BY <2>3, LastOfDialog
    <2>5. Entry(k, u) \in entries /\ k \in messages
      BY <1>2, <2>2, <2>4
    <2> QED  BY <2>3, <2>4, <2>5, EntryFacts
  <1> HIDE DEF entries, n
  <1>6. lister'[r].page = entries
    BY <1>1 DEF entries
  <1> QED  BY <1>1, <1>3, <1>4, <1>5, <1>6 DEF ListedInv

LEMMA ListedRests ==
    ASSUME TypeOK, NEW r \in Readers, ListedInv(r), lister'[r] = lister[r],
           \A u \in Users : DialogCount(u)' = DialogCount(u)
    PROVE  ListedInv(r)'
  <1>1. lister[r].pc = "listed" => lister[r].me \in Users
    BY DEF TypeOK, ListersOK
  <1> QED  BY <1>1 DEF ListedInv, Limited

LEMMA ListedStep ==
    ASSUME TypeOK, [Next]_vars, NEW r \in Readers, ListedInv(r) PROVE ListedInv(r)'
  <1>t. ListersOK /\ lister \in [Readers -> ListerType]
    BY DEF TypeOK, ListersOK
  <1>s. ASSUME messages' = messages PROVE \A u \in Users : DialogCount(u)' = DialogCount(u)
    BY <1>s DEF DialogCount, InDialogs, PeerFor, ChatMembers, ChatMessages
  <1>1. CASE Notice
    <2>1. /\ lister[r].pc = "listed" \/ lister[r].changed => lister'[r].changed
          /\ lister'[r].pc = lister[r].pc /\ lister'[r].me = lister[r].me
          /\ lister'[r].offset = lister[r].offset /\ lister'[r].count = lister[r].count /\ lister'[r].page = lister[r].page
          /\ lister'[r].told = lister[r].told /\ lister'[r].total = lister[r].total
      BY <1>1, <1>t, NoticeFacts
    <2> QED  BY <2>1 DEF ListedInv, Limited
  <1>2. ASSUME NEW q \in Readers, NEW u \in Users, NEW offset \in 0 .. 1, NEW count \in 1 .. Count, ReadDialogs(q, u, offset, count),
               messages' = messages
        PROVE  ListedInv(r)'
    <2>1. CASE q = r
      BY <1>2, <2>1, PageFits
    <2>2. CASE q # r
      <3>1. lister'[r] = lister[r]
        BY <1>t, <1>2, <2>2, PageListed
      <3> QED  BY <1>2, <1>s, <3>1, ListedRests
    <2> QED  BY <2>1, <2>2
  <1>3. ASSUME NEW q \in Readers, CountDialogs(q), messages' = messages PROVE ListedInv(r)'
    <2>1. CASE q = r
      <3>1. /\ lister[r].pc = "listed" /\ lister'[r].pc = "answered"
            /\ lister'[r].offset = lister[r].offset /\ lister'[r].count = lister[r].count
           /\ lister'[r].page = lister[r].page
            /\ lister'[r].total = DialogCount(lister[r].me) /\ lister'[r].changed = lister[r].changed
        BY <1>3, <2>1, CountedFacts
      <3> QED  BY <3>1 DEF ListedInv, Limited
    <2>2. CASE q # r
      <3>1. lister'[r] = lister[r]
        BY <1>t, <1>3, <2>2 DEF CountDialogs
      <3> QED  BY <1>3, <1>s, <3>1, ListedRests
    <2> QED  BY <2>1, <2>2
  <1>4. ASSUME NEW q \in Readers, TakeDialogs(q), messages' = messages PROVE ListedInv(r)'
    <2>1. CASE q = r
      BY <1>t, <1>4, <2>1, NotListingFacts DEF TakeDialogs, ListedInv
    <2>2. CASE q # r
      <3>1. lister'[r] = lister[r]
        BY <1>t, <1>4, <2>2 DEF TakeDialogs
      <3> QED  BY <1>4, <1>s, <3>1, ListedRests
    <2> QED  BY <2>1, <2>2
  <1>5. CASE lister' = [q \in Readers |-> NotListing]
    BY <1>5, NotListingFacts DEF ListedInv
  <1>6. CASE lister' = lister /\ messages' = messages
    BY <1>6, <1>s, ListedRests
  <1>7. ASSUME NEW v \in Users, NEW mids \in SUBSET (1 .. MaxMid), MarkMessagesRead(v, mids), lister' = lister
        PROVE  ListedInv(r)'
    BY <1>7, MarkedDialogs, ListedRests
  <1> QED  BY <1>1, <1>2, <1>3, <1>4, <1>5, <1>6, <1>7, ListerActions

(* The list of dialogs shows what its reader was told of: AddMessage has   *)
(* stored a message before anybody is told, and each dialog is listed with *)
(* its last message, once.  Only what comes or goes between the two        *)
(* statements makes the number of dialogs a wrong one for the page.        *)
THEOREM DialogsAlwaysShowUpdates == Spec => []DialogsShowUpdates
  <1> DEFINE AllListed == \A r \in Readers : ListedInv(r)
  <1>1. Init => TypeInv /\ OrderInv /\ AllListed
    <2>1. Init => AllListed
      BY NotListingFacts DEF Init, ListedInv
    <2> QED  BY <2>1, InitTypeInv, InitOrderInv
  <1>2. TypeInv /\ OrderInv /\ AllListed /\ [Next]_vars => (TypeInv /\ OrderInv /\ AllListed)'
    <2>1. ASSUME TypeInv, AllListed, [Next]_vars PROVE AllListed'
      BY <2>1, ListedStep DEF TypeInv
    <2> QED  BY <2>1, TypeInvStep, OrderInvStep
  <1>3. TypeInv /\ OrderInv /\ AllListed => DialogsShowUpdates
    <2> SUFFICES ASSUME TypeOK, OrderInv, AllListed PROVE DialogsShowUpdates
      BY DEF TypeInv
    <2>1. ASSUME NEW u \in Users, NEW d \in dialogsBlock(u)
          PROVE  LET opened == conversationBlock(u, d.opens)
                 IN  d.last \in opened /\ \A n \in opened : n.mid <= d.last.mid
      <3>1. d.last \in LastMessages(u) /\ d.opens = PeerFor(d.last, u)
        BY DEF dialogsBlock
      <3> QED  BY <3>1, DialogOpens
    <2>2. ASSUME NEW u \in Users
          PROVE  \A i \in DOMAIN told[u] : \E j \in DOMAIN stored : stored[j].mid = told[u][i].mid
      BY DEF OrderInv, StoredInv, Served
    <2> QED  BY <2>1, <2>2 DEF DialogsShowUpdates, ListedInv
  <1> HIDE DEF AllListed
  <1> QED  BY <1>1, <1>2, <1>3, PTL DEF Spec

-----------------------------------------------------------------------------
(* The pages of a history.  What decides whether a message is on a page is *)
(* its position: the number of later messages of the same history.         *)
HistMids(peer) == {m.mid : m \in History(peer)}

Later(peer, x) == {y \in HistMids(peer) : y > x}

Pos(peer, x) == Cardinality(Later(peer, x))

LEMMA HistoryFacts ==
    ASSUME TypeOK, NEW peer
    PROVE  /\ History(peer) \subseteq messages /\ IsFiniteSet(History(peer))
           /\ HistMids(peer) \subseteq Mids /\ HistMids(peer) \subseteq Nat
           /\ IsFiniteSet(HistMids(peer)) /\ Cardinality(HistMids(peer)) \in Nat
           /\ \A x : IsFiniteSet(Later(peer, x)) /\ Pos(peer, x) \in Nat
  <1>1. History(peer) \subseteq messages
    BY DEF History, chatHistory, ChatMessages, MessagesOf
  <1>2. HistMids(peer) \subseteq Mids /\ Mids \subseteq Nat
    BY <1>1 DEF HistMids, TypeOK, MessageType, Mids
  <1>3. IsFiniteSet(History(peer)) /\ IsFiniteSet(HistMids(peer))
    BY <1>1, <1>2, MessagesFinite, FS_Subset
  <1>4. ASSUME NEW x PROVE IsFiniteSet(Later(peer, x)) /\ Pos(peer, x) \in Nat
    <2>1. Later(peer, x) \subseteq HistMids(peer)
      BY DEF Later
    <2>2. IsFiniteSet(Later(peer, x))
      BY <1>3, <2>1, FS_Subset
    <2> QED  BY <2>2, FS_CardinalityType DEF Pos
  <1> QED  BY <1>1, <1>2, <1>3, <1>4, FS_CardinalityType

(* The page, by the positions of mids: there is one message to a mid.      *)
LEMMA PageFacts ==
    ASSUME TypeOK, NEW peer, NEW offset
    PROVE  PageOf(peer, offset) = {x \in HistMids(peer) : Pos(peer, x) \in offset .. offset + Page - 1}
  <1>1. ASSUME NEW n \in History(peer)
        PROVE  Cardinality({k \in History(peer) : k.mid > n.mid}) = Pos(peer, n.mid)
    <2> DEFINE S == {k \in History(peer) : k.mid > n.mid}
               T == Later(peer, n.mid)
               f == [k \in S |-> k.mid]
    <2>1. S \subseteq History(peer) /\ IsFiniteSet(S)
      BY HistoryFacts, FS_Subset
    <2>2. f \in [S -> T]
      BY DEF Later, HistMids
    <2>3. \A x, y \in S : f[x] = f[y] => x = y
      BY HistoryFacts DEF TypeOK
    <2>4. \A t \in T : \E x \in S : f[x] = t
      BY DEF Later, HistMids
    <2>5. Cardinality(T) = Cardinality(S)
      <3> HIDE DEF f, S, T
      <3> QED  BY <2>1, <2>2, <2>3, <2>4, SameSize
    <2> QED  BY <2>5 DEF Pos
  <1> QED  BY <1>1 DEF PageOf, HistMids

(* Of two messages the later one has the smaller position.                 *)
LEMMA PosOrder ==
    ASSUME TypeOK, NEW peer, NEW x \in HistMids(peer), NEW y \in HistMids(peer), x < y
    PROVE  Pos(peer, y) < Pos(peer, x)
  <1>1. x \in Nat /\ y \in Nat /\ \A z \in HistMids(peer) : z \in Nat
    <2>1. HistMids(peer) \subseteq Nat
      BY HistoryFacts
    <2> QED  BY <2>1
  <1>2. ASSUME NEW z \in Later(peer, y) PROVE z \in Later(peer, x)
    <2>1. z \in HistMids(peer) /\ z > y
      BY DEF Later
    <2>2. z \in Nat /\ z > x
      BY <1>1, <2>1
    <2> QED  BY <2>1, <2>2 DEF Later
  <1>3. y \in Later(peer, x) /\ y \notin Later(peer, y)
    BY <1>1 DEF Later
  <1>4. /\ IsFiniteSet(Later(peer, x)) /\ Pos(peer, x) \in Nat /\ Pos(peer, y) \in Nat
    BY HistoryFacts
  <1>5. /\ Pos(peer, y) <= Pos(peer, x)
        /\ Pos(peer, x) = Pos(peer, y) => Later(peer, x) = Later(peer, y)
    BY <1>2, <1>4, FS_Subset DEF Pos
  <1> QED  BY <1>3, <1>4, <1>5

(* Every position below the number of messages is taken.                   *)
LEMMA PosTaken ==
    ASSUME TypeOK, NEW peer, NEW i \in Nat, NEW x \in HistMids(peer), i <= Pos(peer, x)
    PROVE  \E y \in HistMids(peer) : Pos(peer, y) = i
  <1> DEFINE S == HistMids(peer)
             N == Cardinality(S)
             f == [y \in S |-> Pos(peer, y)]
  <1>1. IsFiniteSet(S) /\ N \in Nat
    BY HistoryFacts
  <1>2. ASSUME NEW y \in S PROVE Pos(peer, y) \in 0 .. N - 1
    <2>1. Later(peer, y) \subseteq S \ {y}
      <3>1. y \in Nat
        BY HistoryFacts
      <3> QED  BY <3>1 DEF Later
    <2>2. IsFiniteSet(S \ {y}) /\ Cardinality(S \ {y}) = N - 1
      BY <1>1, FS_RemoveElement
    <2>3. Pos(peer, y) <= N - 1
      BY <2>1, <2>2, FS_Subset DEF Pos
    <2>4. Pos(peer, y) \in Nat
      BY HistoryFacts
    <2> HIDE DEF N, S
    <2> QED  BY <1>1, <2>3, <2>4
  <1>3. f \in [S -> 0 .. N - 1]
    BY <1>2
  <1>4. ASSUME NEW y \in S, NEW z \in S, f[y] = f[z] PROVE y = z
    <2>1. y \in Nat /\ z \in Nat /\ Pos(peer, y) \in Nat /\ Pos(peer, z) \in Nat
      BY HistoryFacts
    <2>2. ~ (y < z) /\ ~ (z < y)
      BY <1>4, <2>1, PosOrder
    <2> QED  BY <2>1, <2>2
  <1>5. f \in Injection(S, 0 .. N - 1)
    <2> HIDE DEF f, S, N
    <2> QED  BY <1>3, <1>4, Fun_IsInj
  <1>6. IsFiniteSet(0 .. N - 1) /\ Cardinality(0 .. N - 1) = N
    <2> HIDE DEF N
    <2>1. N - 1 \in Int
      BY <1>1
    <2>2. Cardinality(0 .. N - 1) = IF 0 > N - 1 THEN 0 ELSE ((N - 1) - 0) + 1
      BY <2>1, FS_Interval
    <2> QED  BY <1>1, <2>1, <2>2, FS_Interval
  <1>7. f \in Surjection(S, 0 .. N - 1)
    <2> HIDE DEF f
    <2> QED  BY <1>5, <1>6, FS_Injection
  <1>8. i \in 0 .. N - 1
    <2>1. Pos(peer, x) \in 0 .. N - 1
      BY <1>2
    <2> HIDE DEF N
    <2> QED  BY <1>1, <2>1
  <1> QED  BY <1>7, <1>8 DEF Surjection

(* A page that is short is the last one: nothing is at a later position.   *)
LEMMA ShortPage ==
    ASSUME TypeOK, NEW peer, NEW offset \in Nat, Cardinality(PageOf(peer, offset)) < Page,
           NEW x \in HistMids(peer), Pos(peer, x) >= offset
    PROVE  x \in PageOf(peer, offset)
  <1> DEFINE page == PageOf(peer, offset)
             last == offset + Page - 1
             f == [y \in page |-> Pos(peer, y)]
  <1>p. Page \in Nat /\ Page > 0 /\ Pos(peer, x) \in Nat
    BY HistoryFacts, ConstantsAssumption
  <1>1. SUFFICES ASSUME Pos(peer, x) > last PROVE FALSE
    BY <1>p, PageFacts
  <1>2. page = {y \in HistMids(peer) : Pos(peer, y) \in offset .. last}
    BY PageFacts
  <1>3. f \in [page -> offset .. last] /\ IsFiniteSet(page)
    BY <1>2, HistoryFacts, FS_Subset
  <1>4. ASSUME NEW y \in page, NEW z \in page, f[y] = f[z] PROVE y = z
    <2>1. y \in HistMids(peer) /\ z \in HistMids(peer) /\ Pos(peer, y) = Pos(peer, z)
      BY <1>2, <1>4
    <2>2. y \in Nat /\ z \in Nat /\ Pos(peer, y) \in Nat /\ Pos(peer, z) \in Nat
      BY <2>1, HistoryFacts
    <2>3. ~ (y < z) /\ ~ (z < y)
      BY <2>1, <2>2, PosOrder
    <2> QED  BY <2>2, <2>3
  <1>5. ASSUME NEW i \in offset .. last PROVE \E y \in page : f[y] = i
    <2>1. i \in Nat /\ i <= Pos(peer, x)
      BY <1>p, <1>1
    <2>2. PICK y \in HistMids(peer) : Pos(peer, y) = i
      BY <2>1, PosTaken
    <2> QED  BY <1>2, <2>2
  <1>6. Cardinality(offset .. last) = Cardinality(page)
    <2> HIDE DEF f, page, last
    <2> QED  BY <1>3, <1>4, <1>5, SameSize
  <1>7. Cardinality(offset .. last) = Page
    <2>1. offset \in Int /\ last \in Int
      BY <1>p
    <2>2. Cardinality(offset .. last) = IF offset > last THEN 0 ELSE (last - offset) + 1
      BY <2>1, FS_Interval
    <2> QED  BY <1>p, <2>2
  <1> QED  BY <1>6, <1>7, <1>p

(* Messages that come move others to later positions, messages that go to  *)
(* earlier ones.                                                           *)
LEMMA LaterFinite ==
    ASSUME TypeOK', NEW peer, NEW x
    PROVE  IsFiniteSet(Later(peer, x)') /\ Pos(peer, x)' \in Nat
  <1>1. HistMids(peer)' \subseteq Mids
    BY DEF HistMids, History, chatHistory, ChatMessages, MessagesOf, TypeOK, MessageType
  <1>2. Later(peer, x)' \subseteq Mids
    BY <1>1 DEF Later
  <1>3. IsFiniteSet(Mids)
    BY FS_Interval, ConstantsAssumption DEF Mids
  <1>4. IsFiniteSet(Later(peer, x)')
    BY <1>2, <1>3, FS_Subset
  <1> QED  BY <1>4, FS_CardinalityType DEF Pos

LEMMA PosGrows ==
    ASSUME TypeOK', NEW peer, NEW x, HistMids(peer) \subseteq HistMids(peer)'
    PROVE  Pos(peer, x) <= Pos(peer, x)'
  <1>1. Later(peer, x) \subseteq Later(peer, x)'
    BY DEF Later
  <1> QED  BY <1>1, LaterFinite, FS_Subset DEF Pos

LEMMA PosShrinks ==
    ASSUME TypeOK, NEW peer, NEW x, HistMids(peer)' \subseteq HistMids(peer)
    PROVE  Pos(peer, x)' <= Pos(peer, x)
  <1>1. Later(peer, x)' \subseteq Later(peer, x)
    BY DEF Later
  <1> QED  BY <1>1, HistoryFacts, FS_Subset DEF Pos

-----------------------------------------------------------------------------
(* What a client that pages through a history has seen: unless a message   *)
(* was deleted, each one that was there is seen or at a position not read  *)
(* yet; unless one was added, what is seen is at positions already read.   *)
Unread(r, peer) ==
    \A x \in reader[r].there :
       x \in reader[r].seen \/ (x \in HistMids(peer) /\ Pos(peer, x) >= reader[r].offset)

AlreadyRead(r, peer) ==
    \A x \in reader[r].seen : x \in HistMids(peer) => Pos(peer, x) < reader[r].offset

OneReader(r) ==
    LET c == reader[r]
    IN  /\ c.pc = "reading" => c.peer \in Peers
        /\ \A peer \in Peers :
              c.pc = "reading" /\ c.peer = peer =>
                  (~c.removed => Unread(r, peer)) /\ (~c.added => AlreadyRead(r, peer))
        /\ c.pc = "done" /\ ~c.removed => c.there \subseteq c.seen
        /\ c.repeats => c.added

ReaderInv == \A r \in Readers : OneReader(r)

(* Steps that leave a reader alone, and take from its history or add to it *)
(* only what they mark.                                                    *)
LEMMA HistoryMoves ==
    ASSUME TypeOK, TypeOK', NEW r \in Readers, OneReader(r),
           LET c == reader[r]
               d == reader'[r]
           IN  /\ d.pc = c.pc /\ d.peer = c.peer /\ d.offset = c.offset /\ d.seen = c.seen
               /\ d.there = c.there /\ d.repeats = c.repeats
               /\ c.added => d.added
               /\ c.removed => d.removed,
           \A peer \in Peers :
              reader[r].pc = "reading" =>
                  /\ ~reader'[r].removed => HistMids(peer) \subseteq HistMids(peer)'
                  /\ ~reader'[r].added => HistMids(peer)' \subseteq HistMids(peer)
    PROVE  OneReader(r)'
  <1>0. reader[r].offset \in Nat /\ reader'[r].offset \in Nat
    BY DEF TypeOK, ReaderType
  <1>1. \A peer, x : Pos(peer, x) \in Nat
    BY HistoryFacts
  <1>2. \A peer, x : Pos(peer, x)' \in Nat
    BY LaterFinite
  <1>3. ASSUME NEW peer \in Peers, reader[r].pc = "reading", reader[r].peer = peer, ~ reader'[r].removed
        PROVE  Unread(r, peer)'
    <2>1. Unread(r, peer) /\ HistMids(peer) \subseteq HistMids(peer)'
      BY <1>3 DEF OneReader
    <2>2. \A x : Pos(peer, x) <= Pos(peer, x)'
      BY <2>1, PosGrows
    <2> QED  BY <1>0, <1>1, <1>2, <2>1, <2>2 DEF Unread
  <1>4. ASSUME NEW peer \in Peers, reader[r].pc = "reading", reader[r].peer = peer, ~ reader'[r].added
        PROVE  AlreadyRead(r, peer)'
    <2>1. AlreadyRead(r, peer) /\ HistMids(peer)' \subseteq HistMids(peer)
      BY <1>4 DEF OneReader
    <2>2. \A x : Pos(peer, x)' <= Pos(peer, x)
      BY <2>1, PosShrinks
    <2> QED  BY <1>0, <1>1, <1>2, <2>1, <2>2 DEF AlreadyRead
  <1> QED  BY <1>3, <1>4 DEF OneReader

(* What a step does to histories.                                          *)
LEMMA HistoryChanges ==
    ASSUME NEW peer
    PROVE  /\ messages \subseteq messages' => HistMids(peer) \subseteq HistMids(peer)'
           /\ messages' \subseteq messages => HistMids(peer)' \subseteq HistMids(peer)
  BY DEF HistMids, History, chatHistory, ChatMessages, MessagesOf

LEMMA MarkedHistory ==
    ASSUME TypeOK, NEW v, NEW mids, MarkMessagesRead(v, mids), NEW peer
    PROVE  HistMids(peer)' = HistMids(peer)
  <1> DEFINE Marked(m) == [m EXCEPT !.read = @ \/ (m.mid \in mids /\ m.to = v)]
  <1>1. messages' = {Marked(m) : m \in messages}
    BY DEF MarkMessagesRead
  <1>2. ASSUME NEW m \in messages
        PROVE  Marked(m).mid = m.mid /\ Marked(m).from = m.from /\ Marked(m).to = m.to
    <2>1. m \in MessageType
      BY DEF TypeOK
    <2> QED  BY <2>1 DEF MessageType
  <1> HIDE DEF Marked
  <1>3. \A m \in messages' : \E n \in messages : m.mid = n.mid /\ m.from = n.from /\ m.to = n.to
    BY <1>1, <1>2
  <1>4. \A n \in messages : \E m \in messages' : m.mid = n.mid /\ m.from = n.from /\ m.to = n.to
    BY <1>1, <1>2
  <1>5. CASE peer \in Chats
    <2>1. \A x : x \in HistMids(peer) <=> \E m \in messages : m.to = peer /\ m.mid = x
      BY <1>5 DEF HistMids, History, chatHistory, ChatMessages
    <2>2. \A x : x \in HistMids(peer)' <=> \E m \in messages' : m.to = peer /\ m.mid = x
      BY <1>5 DEF HistMids, History, chatHistory, ChatMessages
    <2>3. \A x : x \in HistMids(peer) <=> x \in HistMids(peer)'
      BY <1>3, <1>4, <2>1, <2>2
    <2> QED  BY <2>3
  <1>6. CASE peer \notin Chats
    <2>1. \A x : x \in HistMids(peer) <=> \E m \in messages : peer \in {m.from, m.to} /\ m.mid = x
      BY <1>6 DEF HistMids, History, MessagesOf
    <2>2. \A x : x \in HistMids(peer)' <=> \E m \in messages' : peer \in {m.from, m.to} /\ m.mid = x
      BY <1>6 DEF HistMids, History, MessagesOf
    <2>3. \A x : x \in HistMids(peer) <=> x \in HistMids(peer)'
      BY <1>3, <1>4, <2>1, <2>2
    <2> QED  BY <2>3
  <1> QED  BY <1>5, <1>6

(* A client reads a page: what it had not seen is on the page or further   *)
(* on, and on no page if this one is the last.                             *)
LEMMA PageRead ==
    ASSUME TypeOK, ReaderInv, NEW r \in Readers, messagesGetHistory(r)
    PROVE  OneReader(r)'
  <1> DEFINE c == reader[r]
             d == reader'[r]
             peer == c.peer
             page == PageOf(c.peer, c.offset)
  <1>1. /\ c.pc = "reading" /\ peer \in Peers /\ c \in ReaderType
        /\ ~c.removed => Unread(r, peer)
        /\ ~c.added => AlreadyRead(r, peer)
        /\ c.repeats => c.added
    BY DEF ReaderInv, OneReader, messagesGetHistory, TypeOK
  <1>2. /\ d.pc = (IF Cardinality(page) < Page THEN "done" ELSE "reading")
        /\ d.peer = c.peer /\ d.offset = c.offset + Page /\ d.seen = c.seen \cup page
        /\ d.there = c.there /\ d.added = c.added /\ d.removed = c.removed
        /\ d.repeats = (c.repeats \/ page \cap c.seen # {})
        /\ messages' = messages
    BY <1>1 DEF messagesGetHistory, TypeOK, ReaderType
  <1>3. /\ c.offset \in Nat /\ Page \in Nat /\ Page > 0
        /\ HistMids(peer) \subseteq Nat /\ \A x : Pos(peer, x) \in Nat
    BY <1>1, HistoryFacts, ConstantsAssumption DEF ReaderType
  <1>4. page = {x \in HistMids(peer) : Pos(peer, x) \in c.offset .. c.offset + Page - 1}
    BY PageFacts
  <1>5. /\ HistMids(peer)' = HistMids(peer)
        /\ \A x : Pos(peer, x)' = Pos(peer, x)
    BY <1>2 DEF HistMids, Pos, Later, History, chatHistory, ChatMessages, MessagesOf
  <1> HIDE DEF page
  <1>6. ASSUME ~c.removed, NEW x \in c.there
        PROVE  x \in d.seen \/ (x \in HistMids(peer) /\ Pos(peer, x) >= d.offset)
    <2>1. x \in c.seen \/ (x \in HistMids(peer) /\ Pos(peer, x) >= c.offset)
      BY <1>1, <1>6 DEF Unread
    <2> QED  BY <1>2, <1>3, <1>4, <2>1
  <1>7. ASSUME ~c.added, NEW x \in d.seen, x \in HistMids(peer)
        PROVE  Pos(peer, x) < d.offset
    <2>1. x \in c.seen => Pos(peer, x) < c.offset
      BY <1>1, <1>7 DEF AlreadyRead
    <2> QED  BY <1>2, <1>3, <1>4, <1>7, <2>1
  <1>8. ASSUME ~c.removed, d.pc = "done", NEW x \in c.there PROVE x \in d.seen
    <2>1. x \in c.seen \/ (x \in HistMids(peer) /\ Pos(peer, x) >= c.offset)
      BY <1>1, <1>8 DEF Unread
    <2>2. Cardinality(page) < Page
      BY <1>2, <1>8
    <2>3. x \in HistMids(peer) /\ Pos(peer, x) >= c.offset => x \in page
      BY <1>3, <2>2, ShortPage DEF page
    <2> QED  BY <1>2, <2>1, <2>3
  <1>9. ASSUME d.repeats PROVE d.added
    <2>1. SUFFICES ASSUME ~c.added, NEW x \in page, x \in c.seen PROVE FALSE
      BY <1>1, <1>2, <1>9
    <2>2. x \in HistMids(peer) /\ Pos(peer, x) >= c.offset
      BY <1>3, <1>4, <2>1
    <2>3. Pos(peer, x) < c.offset
      BY <1>1, <2>1, <2>2 DEF AlreadyRead
    <2> QED  BY <1>3, <2>2, <2>3
  <1> QED
    <2>1. d.peer \in Peers
      BY <1>1, <1>2
    <2>2. ASSUME NEW p \in Peers, d.peer = p, ~d.removed PROVE Unread(r, p)'
      <3>1. p = peer
        BY <1>2, <2>2
      <3> QED  BY <1>2, <1>5, <1>6, <2>2, <3>1 DEF Unread
    <2>3. ASSUME NEW p \in Peers, d.peer = p, ~d.added PROVE AlreadyRead(r, p)'
      <3>1. p = peer
        BY <1>2, <2>3
      <3> QED  BY <1>2, <1>5, <1>7, <2>3, <3>1 DEF AlreadyRead
    <2>4. d.pc = "done" /\ ~d.removed => d.there \subseteq d.seen
      BY <1>2, <1>8
    <2> QED  BY <1>9, <2>1, <2>2, <2>3, <2>4 DEF OneReader

LEMMA OpenedHistory ==
    ASSUME TypeOK, NEW r \in Readers, NEW peer \in Peers, OpenHistory(r, peer)
    PROVE  OneReader(r)'
  <1> DEFINE d == reader'[r]
  <1>1. /\ d.pc = "reading" /\ d.peer = peer /\ d.offset = 0 /\ d.seen = {}
        /\ d.there = HistMids(peer) /\ d.repeats = FALSE /\ messages' = messages
    BY DEF OpenHistory, TypeOK, NotReading, HistMids
  <1>2. HistMids(peer)' = HistMids(peer) /\ \A x : Pos(peer, x)' = Pos(peer, x)
    BY <1>1 DEF HistMids, Pos, Later, History, chatHistory, ChatMessages, MessagesOf
  <1>3. \A x : Pos(peer, x) >= 0
    BY HistoryFacts
  <1>4. Unread(r, peer)' /\ AlreadyRead(r, peer)'
    BY <1>1, <1>2, <1>3 DEF Unread, AlreadyRead
  <1> QED  BY <1>1, <1>4 DEF OneReader

(* Steps that change neither messages nor this reader.                     *)
LEMMA ReaderRests ==
    ASSUME TypeOK, TypeOK', NEW r \in Readers, OneReader(r),
           reader'[r] = reader[r], messages' = messages
    PROVE  OneReader(r)'
  BY HistoryChanges, HistoryMoves

LEMMA ReaderInvStep == TypeInv /\ ReaderInv /\ [Next]_vars => ReaderInv'
  <1> SUFFICES ASSUME TypeInv, ReaderInv, [Next]_vars, NEW r \in Readers PROVE OneReader(r)'
    BY DEF ReaderInv
  <1>t. TypeOK /\ TypeOK' /\ OneReader(r) /\ reader \in [Readers -> ReaderType]
    BY TypeInvStep DEF TypeInv, TypeOK, ReaderInv
  <1>1. ASSUME NEW h \in Handlers, Insert(h) PROVE OneReader(r)'
    <2>1. reader'[r] = [reader[r] EXCEPT !.added = @ \/ reader[r].pc = "reading"]
      BY <1>1 DEF Insert
    <2>2. messages \subseteq messages'
      BY <1>1 DEF Insert
    <2>3. reader[r] \in ReaderType
      BY <1>t
    <2>4. LET c == reader[r]
              d == reader'[r]
          IN  /\ d.pc = c.pc /\ d.peer = c.peer /\ d.offset = c.offset /\ d.seen = c.seen
              /\ d.there = c.there /\ d.repeats = c.repeats
              /\ c.added => d.added
              /\ c.removed => d.removed
      BY <2>1, <2>3 DEF ReaderType
    <2>5. reader[r].pc = "reading" => reader'[r].added
      BY <2>1, <2>3 DEF ReaderType
    <2> QED  BY <1>t, <2>2, <2>4, <2>5, HistoryChanges, HistoryMoves
  <1>2. ASSUME NEW mid \in 1 .. MaxMid, DeleteMessage(mid) PROVE OneReader(r)'
    <2>1. reader'[r] = [reader[r] EXCEPT !.removed = @ \/ reader[r].pc = "reading"]
      BY <1>2 DEF DeleteMessage
    <2>2. messages' \subseteq messages
      BY <1>2 DEF DeleteMessage
    <2>3. reader[r] \in ReaderType
      BY <1>t
    <2>4. LET c == reader[r]
              d == reader'[r]
          IN  /\ d.pc = c.pc /\ d.peer = c.peer /\ d.offset = c.offset /\ d.seen = c.seen
              /\ d.there = c.there /\ d.repeats = c.repeats
              /\ c.added => d.added
              /\ c.removed => d.removed
      BY <2>1, <2>3 DEF ReaderType
    <2>5. reader[r].pc = "reading" => reader'[r].removed
      BY <2>1, <2>3 DEF ReaderType
    <2> QED  BY <1>t, <2>2, <2>4, <2>5, HistoryChanges, HistoryMoves
  <1>3. ASSUME NEW v \in Users, NEW mids \in SUBSET (1 .. MaxMid), MarkMessagesRead(v, mids)
        PROVE  OneReader(r)'
    <2>1. reader' = reader
      BY <1>3 DEF MarkMessagesRead
    <2>2. \A peer \in Peers : HistMids(peer)' = HistMids(peer)
      BY <1>t, <1>3, MarkedHistory
    <2> QED  BY <1>t, <2>1, <2>2, HistoryMoves
  <1>4. ASSUME NEW q \in Readers, NEW peer \in Peers, OpenHistory(q, peer) PROVE OneReader(r)'
    <2>1. CASE q = r
      BY <1>t, <1>4, <2>1, OpenedHistory
    <2>2. CASE q # r
      BY <1>t, <1>4, <2>2, ReaderRests DEF OpenHistory
    <2> QED  BY <2>1, <2>2
  <1>5. ASSUME NEW q \in Readers, messagesGetHistory(q) PROVE OneReader(r)'
    <2>1. CASE q = r
      BY <1>t, <1>5, <2>1, PageRead
    <2>2. CASE q # r
      BY <1>t, <1>5, <2>2, ReaderRests DEF messagesGetHistory
    <2> QED  BY <2>1, <2>2
  <1>6. ASSUME NEW q \in Readers, CloseHistory(q) PROVE OneReader(r)'
    <2>1. CASE q = r
      <3>1. reader'[r] = NotReading
        BY <1>t, <1>6, <2>1 DEF CloseHistory
      <3> QED  BY <3>1 DEF OneReader, NotReading
    <2>2. CASE q # r
      BY <1>t, <1>6, <2>2, ReaderRests DEF CloseHistory
    <2> QED  BY <2>1, <2>2
  <1>7. ASSUME NEW h \in Handlers,
               \/ \E v \in Users, to \in Peers : messagesSend(h, v, to) \/ handleMessageSend(h, v, to)
               \/ NextID(h) \/ Members(h) \/ PushPeer(h) \/ PushMine(h) \/ PushMember(h)
        PROVE  OneReader(r)'
    <2>1. reader' = reader /\ messages' = messages
      BY <1>7 DEF messagesSend, handleMessageSend, Starts, NextID, Members, PushPeer, PushMine, PushMember
    <2> QED  BY <1>t, <2>1, ReaderRests
  <1>8. CASE Crash
    BY <1>t, <1>8, ReaderRests DEF Crash
  <1>10. ASSUME NEW q \in Readers, ListDialogs(q) PROVE OneReader(r)'
    <2>1. reader' = reader /\ messages' = messages
      BY <1>10 DEF ListDialogs, messagesGetDialogs, messagesGet, ReadDialogs, CountDialogs, TakeDialogs
    <2> QED  BY <1>t, <2>1, ReaderRests
  <1>9. CASE UNCHANGED vars
    BY <1>t, <1>9, ReaderRests DEF vars
  <1> QED
    BY <1>1, <1>2, <1>3, <1>4, <1>5, <1>6, <1>7, <1>8, <1>9, <1>10
    DEF Next, Send, messagesDelete, handleMessageDelete, messagesMarkAsRead

(* Paging by offset misses a message only if one was deleted meanwhile,    *)
(* and shows one twice only if one was added: what is before a message in  *)
(* the history, and so its page, changes in no other way.                  *)
THEOREM HistoryAlwaysComplete == Spec => []HistoryComplete
  <1>1. Init => TypeInv /\ ReaderInv
    BY InitTypeInv DEF Init, ReaderInv, OneReader, NotReading
  <1>2. TypeInv /\ ReaderInv /\ [Next]_vars => (TypeInv /\ ReaderInv)'
    BY TypeInvStep, ReaderInvStep
  <1>3. TypeInv /\ ReaderInv => HistoryComplete
    BY DEF ReaderInv, OneReader, HistoryComplete
  <1> QED  BY <1>1, <1>2, <1>3, PTL DEF Spec
=============================================================================
