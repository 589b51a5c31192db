------------------------------ MODULE Messages ------------------------------
(***************************************************************************)
(* Messages between users and in chats: internal/store/messages.go and the *)
(* handlers of internal/api/messages.go and internal/web/messages.go.      *)
(*                                                                         *)
(* A chat is nothing but the messages with its id: its members are those   *)
(* who wrote them.  messages.send stores the message and then pushes an    *)
(* update to every recipient; the web version only stores.  Statements and *)
(* pushes are steps: handlers interleave between them and may be killed.   *)
(*                                                                         *)
(* nextID is one step here (see StoreIds), and Push appends to what the    *)
(* hub was given for a user (LongPollHub and UpdateFeed say what becomes   *)
(* of it).  A statement that fails is not modelled.                        *)
(***************************************************************************)
EXTENDS Naturals, Sequences, FiniteSets

CONSTANTS
    Users,
    Chats,      \* to_id of a chat's message is 2000000000 + its id: no user's
    Handlers,   \* goroutines that serve messages.send and /messages/send
    Readers,    \* clients that page through a history or list their dialogs
    Page,       \* messages on a page
    Count,      \* bound: dialogs a client asks for at once
    MaxMid,     \* bound: messages sent
    Crashes,    \* may the process be killed?
    None        \* nobody

ASSUME ConstantsAssumption ==
    /\ None \notin Users \cup Chats
    /\ Users \cap Chats = {}
    /\ Page \in Nat \ {0}
    /\ Count \in Nat \ {0}
    /\ MaxMid \in Nat
    /\ Crashes \in BOOLEAN

ASSUME HandlersAssumption == IsFiniteSet(Handlers)

VARIABLES
    messages,   \* table messages: records [mid, from, to, read]
    lastMid,    \* the counter of nextID("message")
    handler,    \* what each handler does next, with which message
    told,       \* told[u]: the updates pushed for u, in order: [mid, flags]
    reader,     \* what each reading client has seen
    lister,     \* what the handler that lists dialogs for each has read
    stored,     \* history: the messages inserted, in order
    done        \* history: the mids answered to their senders

vars == <<messages, lastMid, handler, told, reader, lister, stored, done>>

Peers == Users \cup Chats

Inbox == 1      \* the flags of an update for a recipient ...
Outbox == 2     \* ... and for the sender

Idle == [pc |-> "idle", mid |-> 0, from |-> None, to |-> None,
         api |-> FALSE, after |-> {}, targets |-> {}]

NotReading == [pc |-> "idle", peer |-> None, offset |-> 0, seen |-> {}, there |-> {},
               repeats |-> FALSE, added |-> FALSE, removed |-> FALSE]

NotListing == [pc |-> "idle", me |-> None, offset |-> 0, count |-> 1, page |-> {}, told |-> {},
               total |-> 0, changed |-> FALSE]

Init ==
    /\ messages = {}
    /\ lastMid = 0
    /\ handler = [h \in Handlers |-> Idle]
    /\ told = [u \in Users |-> <<>>]
    /\ reader = [r \in Readers |-> NotReading]
    /\ lister = [r \in Readers |-> NotListing]
    /\ stored = <<>>
    /\ done = {}

-----------------------------------------------------------------------------
(* Queries: one statement each. *)

(* All that u wrote or got, whoever the other one is. *)
MessagesOf(u) == {m \in messages : u \in {m.from, m.to}}

ChatMessages(c) == {m \in messages : m.to = c}

(* Between u and v.                                                        *)
Conversation(u, v) == {m \in messages : <<m.from, m.to>> \in {<<u, v>>, <<v, u>>}}

(* What the web version shows u of a peer; the API shows History, below.   *)
conversationBlock(u, peer) == IF peer \in Chats THEN ChatMessages(peer) ELSE Conversation(u, peer)

ChatMembers(c) == {m.from : m \in ChatMessages(c)}

(* What u has part in, and the peer it is grouped under. *)
InDialogs(m, u) == IF m.to \in Chats THEN u \in ChatMembers(m.to) ELSE u \in {m.from, m.to}

PeerFor(m, u) == IF m.to \in Chats \/ m.from = u THEN m.to ELSE m.from

DialogCount(u) == Cardinality({PeerFor(m, u) : m \in {n \in messages : InDialogs(n, u)}})

(* Mutant: a dialog shows its first message. *)
FirstMessages(u) ==
    {m \in messages : /\ InDialogs(m, u)
                      /\ \A n \in messages :
                            InDialogs(n, u) /\ PeerFor(n, u) = PeerFor(m, u) => n.mid >= m.mid}

(* The last message of every dialog of u. *)
LastMessages(u) ==
    {m \in messages : /\ InDialogs(m, u)
                      /\ \A n \in messages :
                            InDialogs(n, u) /\ PeerFor(n, u) = PeerFor(m, u) => n.mid <= m.mid}

(* How many of n rows LIMIT count OFFSET offset lets through. *)
Limited(n, offset, count) ==
    IF n <= offset THEN 0 ELSE IF n - offset < count THEN n - offset ELSE count

(* A page of them, by date; messages have no date here, and any are the    *)
(* ones at that place.                                                     *)
Dialogs(u, offset, count) ==
    {page \in SUBSET LastMessages(u) :
        Cardinality(page) = Limited(Cardinality(LastMessages(u)), offset, count)}

(* The page of the web version, where each dialog is a link to its         *)
(* conversation.                                                           *)
dialogsBlock(u) == {[last |-> m, opens |-> PeerFor(m, u)] : m \in LastMessages(u)}

-----------------------------------------------------------------------------
(* Sending: v writes to a user, perhaps itself, or to a chat. *)

Pending == {h \in Handlers : handler[h].pc = "nextID"}

Starts(h, v, to, api) ==
    /\ handler[h].pc = "idle"
    /\ lastMid + Cardinality(Pending) < MaxMid
    /\ handler' = [handler EXCEPT ![h] = [pc |-> "nextID", mid |-> 0, from |-> v, to |-> to,
                                          api |-> api, after |-> done, targets |-> {}]]
    /\ UNCHANGED <<messages, lastMid, told, reader, lister, stored, done>>

messagesSend(h, v, to) == Starts(h, v, to, TRUE)

handleMessageSend(h, v, to) == Starts(h, v, to, FALSE)

(* Mutant: the id after the last one in the table. *)
NextIDOfTable(h) ==
    /\ handler[h].pc = "nextID"
    /\ lastMid' = lastMid + 1
    /\ \E last \in {0} \cup {m.mid : m \in messages} :
          /\ \A m \in messages : m.mid <= last
          /\ handler' = [handler EXCEPT ![h].pc = "insert", ![h].mid = last + 1]
    /\ UNCHANGED <<messages, told, reader, lister, stored, done>>

NextID(h) ==
    /\ handler[h].pc = "nextID"
    /\ lastMid' = lastMid + 1
    /\ handler' = [handler EXCEPT ![h].pc = "insert", ![h].mid = lastMid + 1]
    /\ UNCHANGED <<messages, told, reader, lister, stored, done>>

(* History: a message was added or deleted while somebody was reading. *)
Notice ==
    lister' = [r \in Readers |-> [lister[r] EXCEPT !.changed = @ \/ lister[r].pc = "listed"]]

(* The handler has answered. *)
Answers(h) ==
    /\ handler' = [handler EXCEPT ![h] = Idle]
    /\ done' = done \cup {handler[h].mid}

Goes(h, pc, targets) ==
    /\ handler' = [handler EXCEPT ![h].pc = pc, ![h].targets = targets]
    /\ UNCHANGED done

(* AddMessage.  The web version is done then; the API tells the peer, or   *)
(* the members of the chat.                                                *)
Insert(h) ==
    LET w == handler[h]
    IN  /\ w.pc = "insert"
        /\ messages' = messages \cup {[mid |-> w.mid, from |-> w.from, to |-> w.to, read |-> FALSE]}
        /\ stored' = Append(stored, [mid |-> w.mid, from |-> w.from, to |-> w.to,
                                     api |-> w.api, after |-> w.after])
        /\ reader' = [r \in Readers |-> [reader[r] EXCEPT !.added = @ \/ reader[r].pc = "reading"]]
        /\ Notice
        /\ IF ~w.api THEN Answers(h)
           ELSE IF w.to \in Chats THEN Goes(h, "members", {})
           ELSE Goes(h, "push", {w.to})
        /\ UNCHANGED <<lastMid, told>>

(* Mutant: without the sender, whose message may be deleted by now. *)
MembersFound(h) ==
    /\ handler[h].pc = "members"
    /\ Goes(h, "pushMembers", ChatMembers(handler[h].to))
    /\ UNCHANGED <<messages, lastMid, told, reader, lister, stored>>

(* The members as they are after the message is stored, and the sender. *)
Members(h) ==
    /\ handler[h].pc = "members"
    /\ Goes(h, "pushMembers", ChatMembers(handler[h].to) \cup {handler[h].from})
    /\ UNCHANGED <<messages, lastMid, told, reader, lister, stored>>

Push(u, mid, flags) == told' = [told EXCEPT ![u] = Append(@, [mid |-> mid, flags |-> flags])]

(* Mutant: answers before the sender's update is pushed. *)
PushPeerAnswering(h) ==
    /\ handler[h].pc = "push"
    /\ Push(handler[h].to, handler[h].mid, Inbox)
    /\ done' = done \cup {handler[h].mid}
    /\ handler' = [handler EXCEPT ![h].pc = "pushMine"]
    /\ UNCHANGED <<messages, lastMid, reader, lister, stored>>

PushPeer(h) ==
    /\ handler[h].pc = "push"
    /\ Push(handler[h].to, handler[h].mid, Inbox)
    /\ Goes(h, "pushMine", {})
    /\ UNCHANGED <<messages, lastMid, reader, lister, stored>>

PushMine(h) ==
    /\ handler[h].pc = "pushMine"
    /\ Push(handler[h].from, handler[h].mid, Outbox)
    /\ Answers(h)
    /\ UNCHANGED <<messages, lastMid, reader, lister, stored>>

(* One more member of the chat, in the order of a Go map: any. *)
PushMember(h) ==
    LET w == handler[h]
    IN  /\ w.pc = "pushMembers"
        /\ \E u \in w.targets :
              /\ Push(u, w.mid, IF u = w.from THEN Outbox ELSE Inbox)
              /\ IF w.targets = {u} THEN Answers(h) ELSE Goes(h, w.pc, w.targets \ {u})
        /\ UNCHANGED <<messages, lastMid, reader, lister, stored>>

-----------------------------------------------------------------------------
(* Deleting and reading.  messages.delete deletes a list of mids by one    *)
(* statement each, of which none looks at the others or at the owner:      *)
(* every one is a step of its own, as is /messages/delete.                 *)

DeleteMessage(mid) ==
    /\ \E m \in messages : m.mid = mid
    /\ messages' = {m \in messages : m.mid # mid}
    /\ reader' = [r \in Readers |-> [reader[r] EXCEPT !.removed = @ \/ reader[r].pc = "reading"]]
    /\ Notice
    /\ UNCHANGED <<lastMid, handler, told, stored, done>>

messagesDelete(mid) == DeleteMessage(mid)
handleMessageDelete(mid) == DeleteMessage(mid)

(* messages.markAsRead of v: one statement for all the mids. *)
MarkMessagesRead(v, mids) ==
    /\ messages' = {[m EXCEPT !.read = @ \/ (m.mid \in mids /\ m.to = v)] : m \in messages}
    /\ UNCHANGED <<lastMid, handler, told, reader, lister, stored, done>>

messagesMarkAsRead(v, mids) == mids # {} /\ MarkMessagesRead(v, mids)

(* messages.getHistory: the messages of a peer, the last one first, in     *)
(* pages by offset.  A client asks for page after page until one is short. *)
chatHistory(c) == ChatMessages(c)

History(peer) == IF peer \in Chats THEN chatHistory(peer) ELSE MessagesOf(peer)

(* Mutant: a page shows the first message of the next one. *)
PageAndOne(peer, offset) ==
    {m.mid : m \in {n \in History(peer) :
        Cardinality({k \in History(peer) : k.mid > n.mid}) \in offset .. offset + Page}}

PageOf(peer, offset) ==
    {m.mid : m \in {n \in History(peer) :
        Cardinality({k \in History(peer) : k.mid > n.mid}) \in offset .. offset + Page - 1}}

messagesGetHistory(r) ==
    LET c == reader[r]
        page == PageOf(c.peer, c.offset)
    IN  /\ c.pc = "reading"
        /\ reader' = [reader EXCEPT ![r] = [c EXCEPT
              !.pc = IF Cardinality(page) < Page THEN "done" ELSE "reading",
              !.offset = @ + Page,
              !.seen = @ \cup page,
              !.repeats = @ \/ page \cap c.seen # {}]]
        /\ UNCHANGED <<messages, lastMid, handler, told, lister, stored, done>>

OpenHistory(r, peer) ==
    /\ reader[r].pc = "idle"
    /\ lister[r].pc = "idle"
    /\ reader' = [reader EXCEPT ![r] = [NotReading EXCEPT !.pc = "reading", !.peer = peer,
                                           !.there = {m.mid : m \in History(peer)}]]
    /\ UNCHANGED <<messages, lastMid, handler, told, lister, stored, done>>

CloseHistory(r) ==
    /\ reader[r].pc = "done"
    /\ reader' = [reader EXCEPT ![r] = NotReading]
    /\ UNCHANGED <<messages, lastMid, handler, told, lister, stored, done>>

-----------------------------------------------------------------------------
(* messages.getDialogs and messages.get: u is sent a page of its dialogs   *)
(* and the number of all, which are read by two statements.                *)

Updates(u, mid) == {i \in DOMAIN told[u] : told[u][i].mid = mid}

Entry(m, u) == [mid |-> m.mid, peer |-> PeerFor(m, u)]

(* What u has been told of and is still there.                             *)
Known(u) == {Entry(m, u) : m \in {n \in messages : InDialogs(n, u) /\ Updates(u, n.mid) # {}}}

ReadDialogs(r, u, offset, count) ==
    /\ reader[r].pc = "idle"
    /\ lister[r].pc = "idle"
    /\ \E page \in Dialogs(u, offset, count) :
          lister' = [lister EXCEPT ![r] =
             [pc |-> "listed", me |-> u, offset |-> offset, count |-> count,
              page |-> {Entry(m, u) : m \in page}, told |-> Known(u),
              total |-> 0, changed |-> FALSE]]
    /\ UNCHANGED <<messages, lastMid, handler, told, reader, stored, done>>

messagesGetDialogs(r, u, offset, count) == ReadDialogs(r, u, offset, count)
messagesGet(r, u, offset, count) == ReadDialogs(r, u, offset, count)

CountDialogs(r) ==
    /\ lister[r].pc = "listed"
    /\ lister' = [lister EXCEPT ![r].pc = "answered", ![r].total = DialogCount(lister[r].me),
                                ![r].told = {}]
    /\ UNCHANGED <<messages, lastMid, handler, told, reader, stored, done>>

TakeDialogs(r) ==
    /\ lister[r].pc = "answered"
    /\ lister' = [lister EXCEPT ![r] = NotListing]
    /\ UNCHANGED <<messages, lastMid, handler, told, reader, stored, done>>

-----------------------------------------------------------------------------
(* The updates of a killed process may be lost with it (see LongPollHub);  *)
(* told remembers that they were pushed.                                   *)
Crash ==
    /\ Crashes
    /\ handler' = [h \in Handlers |-> Idle]
    /\ lister' = [r \in Readers |-> NotListing]
    /\ UNCHANGED <<messages, lastMid, told, reader, stored, done>>

Send(h) ==
    \/ NextID(h) \/ Insert(h) \/ Members(h)
    \/ PushPeer(h) \/ PushMine(h) \/ PushMember(h)

ListDialogs(r) ==
    \/ \E u \in Users, offset \in 0 .. 1, count \in 1 .. Count :
          messagesGetDialogs(r, u, offset, count) \/ messagesGet(r, u, offset, count)
    \/ CountDialogs(r) \/ TakeDialogs(r)

Next ==
    \/ \E h \in Handlers :
          \/ \E v \in Users, to \in Peers : messagesSend(h, v, to) \/ handleMessageSend(h, v, to)
          \/ Send(h)
    \/ \E mid \in 1 .. MaxMid : messagesDelete(mid) \/ handleMessageDelete(mid)
    \/ \E v \in Users, mids \in SUBSET (1 .. MaxMid) : messagesMarkAsRead(v, mids)
    \/ \E r \in Readers :
          \/ \E peer \in Peers : OpenHistory(r, peer)
          \/ messagesGetHistory(r) \/ CloseHistory(r)
          \/ ListDialogs(r)
    \/ Crash

Spec == Init /\ [][Next]_vars

-----------------------------------------------------------------------------
Mids == 1 .. MaxMid

MessageType == [mid : Mids, from : Users, to : Peers, read : BOOLEAN]

StoredType == [mid : Mids, from : Users, to : Peers, api : BOOLEAN, after : SUBSET Mids]

HandlerType == [pc : {"idle", "nextID", "insert", "members", "push", "pushMine", "pushMembers"},
                mid : 0 .. MaxMid, from : Users \cup {None}, to : Peers \cup {None},
                api : BOOLEAN, after : SUBSET Mids, targets : SUBSET Users]

ReaderType == [pc : {"idle", "reading", "done"}, peer : Peers \cup {None}, offset : Nat,
               seen : SUBSET Mids, there : SUBSET Mids,
               repeats : BOOLEAN, added : BOOLEAN, removed : BOOLEAN]

EntryType == [mid : Mids, peer : Peers]

ListerType == [pc : {"idle", "listed", "answered"}, me : Users \cup {None}, offset : Nat, count : Nat,
               page : SUBSET EntryType, told : SUBSET EntryType, total : Nat,
               changed : BOOLEAN]

ListersOK ==
    /\ lister \in [Readers -> ListerType]
    /\ \A r \in Readers : lister[r].pc # "idle" => lister[r].me \in Users

(* Type invariant.  There is one row to a mid, and only rows of messages   *)
(* that were sent.                                                         *)
TypeOK ==
    /\ messages \subseteq MessageType
    /\ lastMid \in 0 .. MaxMid
    /\ handler \in [Handlers -> HandlerType]
    /\ told \in [Users -> Seq([mid : Mids, flags : {Inbox, Outbox}])]
    /\ reader \in [Readers -> ReaderType]
    /\ ListersOK
    /\ stored \in Seq(StoredType)
    /\ done \subseteq Mids
    /\ \A m, n \in messages : m.mid = n.mid => m = n
    /\ \A m \in messages : \E i \in DOMAIN stored :
          stored[i].mid = m.mid /\ stored[i].from = m.from /\ stored[i].to = m.to

Times(u, mid, flags) == Cardinality({i \in DOMAIN told[u] : told[u][i] = [mid |-> mid, flags |-> flags]})

(* Once messages.send has answered, the sender and the receiver of a       *)
(* message have each been told of it once.  In a chat everybody has been   *)
(* told whose own message was stored before it and was not deleted since:  *)
(* of two who write to a chat at the same time, at least one learns of the *)
(* other, since the members are read after the message is stored.          *)
RecipientsAreTold ==
    \A i \in DOMAIN stored :
        LET m == stored[i]
        IN  m.api /\ m.mid \in done =>
              /\ Times(m.from, m.mid, Outbox) = 1
              /\ m.to \in Users => Times(m.to, m.mid, Inbox) = 1
              /\ m.to \in Chats =>
                    \A k \in messages :
                       k.to = m.to /\ k.from # m.from /\ (\E j \in 1 .. i : stored[j].mid = k.mid) =>
                           Times(k.from, m.mid, Inbox) = 1

(* A message sent after another one was answered has the larger mid, and   *)
(* whoever is told of both is told of the earlier one first, although      *)
(* updates are pushed outside of any lock, deletions free the last mids,   *)
(* and the process may be killed in between.  (Messages whose requests     *)
(* overlap may be told in either order, to each user in another one.)      *)
RealTimeOrder ==
    \A i \in DOMAIN stored : \A mid \in stored[i].after :
        /\ mid < stored[i].mid
        /\ \A u \in Users : \A j \in Updates(u, mid), k \in Updates(u, stored[i].mid) : j < k

(* A client that is told of a message and then asks for its dialogs finds  *)
(* that message or a later one as the last of its dialog, if the page it   *)
(* gets has room for all dialogs, unless the message was deleted by then   *)
(* or the client's own messages in the chat were: the update is pushed     *)
(* after the row is inserted.  The page and the number of all dialogs,     *)
(* which comes with it from a statement of its own, fit together unless a  *)
(* message came or went between the two.  And a dialog, opened in the web  *)
(* version, ends with the message it is listed with.                       *)
DialogsShowUpdates ==
    /\ \A u \in Users :
         /\ \A i \in DOMAIN told[u] : \E j \in DOMAIN stored : stored[j].mid = told[u][i].mid
         /\ \A d \in dialogsBlock(u) :
              LET opened == conversationBlock(u, d.opens)
              IN  d.last \in opened /\ \A n \in opened : n.mid <= d.last.mid
    /\ \A r \in Readers :
         LET c == lister[r]
         IN  /\ c.pc = "listed" /\ c.offset = 0 /\ Cardinality(c.page) < c.count =>
                    \A t \in c.told : \E e \in c.page : e.peer = t.peer /\ e.mid >= t.mid
             /\ c.pc = "answered" /\ ~c.changed => Cardinality(c.page) = Limited(c.total, c.offset, c.count)

(* Pages are cut by offset while messages come and go: a message that was  *)
(* there from the first page to the last is shown unless one is deleted    *)
(* meanwhile (which moves others to pages already read), and none is shown *)
(* twice unless one is added.                                              *)
HistoryComplete ==
    \A r \in Readers :
        /\ reader[r].pc = "done" /\ ~reader[r].removed => reader[r].there \subseteq reader[r].seen
        /\ reader[r].repeats => reader[r].added
=============================================================================
