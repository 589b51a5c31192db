# vkemu: TLA+ models and proofs

vkemu is a server in Go that answers the VK API of about 2011 to old clients, with
a web version of its own, over one SQLite file. This directory holds TLA+ modules
that model the parts of it where goroutines, SQL statements, timers and restarts
meet, TLC configurations that check them on small instances, and proofs that TLAPS
checks for every size.

Run, in this directory: `tlc -config MCFriends.cfg MCFriends` for a model,
`tlapm FriendsProofs.tla` for the proofs of a module. `PROJECT.json` names every run,
the lines of code each definition stands for, the mutants of the code each property
rules out, and the hazards the properties are for.

## 1. The system

    cmd/vkemu/main.go     two http.Servers (API and web) over one store; SIGTERM closes both
      internal/api        dispatch of ~100 methods, long poll, uploads, tokens, captcha
      internal/web        HTML pages and forms, cookie sessions in memory
      internal/longpoll   the hub: updates for long polls, in memory
      internal/ratelimit  token buckets per address and a limit on requests in progress
      internal/vkscript   the language of the method execute
      internal/upload     multipart bodies, files on disk
      internal/store      SQLite through database/sql: one connection, no transaction
                          but the one of nextID
      internal/media, model, params, config     rendering, records, parsing, flags

Every request is served by a goroutine. The goroutines share three things: the
store, the hub (`Hub.mu`), and the in-memory maps of limiters, sessions and tokens,
each behind its mutex. `SetMaxOpenConns(1)` makes one SQL statement atomic and lets
the statements of different requests interleave; no handler uses a transaction. A
process that ends loses the hub, the web sessions, tokens and limiters and keeps the
database.

| Component | State | Operations | Talks to | What is hard | What makes it correct |
|---|---|---|---|---|---|
| Long poll hub | counter, queue, channel of one per user, keys | Push, Wait, BindKey, UIDByKey, TS; `messages.getLongPollServer`, `GET /longpoll` | called by handlers that change messages and friends | signal after unlock, two devices of one user, timeouts, restarts, lost answers | each update at most once, in order, none forgotten, every poll answered |
| Rate limiter | buckets, channel of slots, clean-up goroutine | Middleware, allow, cleanup, Close | wraps both servers | clock read before the lock, clean-up against use, panics | rate and burst kept, slots given back, memory freed |
| Wall counters | `wall_posts`, `likes`, `comments` | like, unlike, comment, edit, delete, of the API and the web | store ids, media rows | counters stored next to the tables; read, change, write back | counters true at rest, repaired by a refresh; deleted stays deleted |
| Friends | `friends` (two rows a friendship), `friend_requests` | add, accept, delete | hub (friends.add pushes) | two statements a friendship; crossing requests | nobody a friend against his will; both halves stored |
| Store ids | `counters`, mutex, connection | nextID before every insert | everybody | mutex and pool together; failed commits; crashes | ids grow and are never used twice; nobody waits for ever |
| Accounts, sessions, profiles | `users`, `sessions`, web sessions in memory | register, login, logout, settings, status, avatar, online | store ids | check then insert; whole row written back late; crash inside a registration | one user a login; sessions have users; settings lose nothing |
| Messages and dialogs | `messages` (a chat is the messages with its id) | send, delete, mark as read, dialogs, histories | hub | insert and pushes are separate steps; the members of a chat are read after the insert; histories are paged while messages come and go | everybody told once and in order; dialogs show what was told |
| Uploads, albums, media | `uploads`, `albums`, `photos`, `audio`, `videos`, `docs`, `notes`; files | upload, save, copy, delete | avatars, wall attachments | file, row and save are steps, of several requests; an upload truncates a file that is there; album deletion in two statements | no row without a file, no photo in a lost album |
| Feed, places, check-ins | `wall_posts`, `friends`, `places`, `checkins` | post, check in, add a place; pages by date and by offset | wall, friends | pages while posts are added and deleted; posts of one second; a check-in is five statements or more | pages in order and complete; places count their check-ins |
| VKScript and execute | none | parse, run | calls methods with parameters | runs while it parses; calls before an error stand; lists become texts | value and calls of a script |
| API dispatch, tokens, captcha | maps behind mutexes | getToken, signatures | accounts | none to speak of | - |
| Parameters, answers, pages | none | parse, format | all | lists are texts with commas; no number wider than an int is read | what is written is read (lists of numbers, with VKScript) |

All but the last two are modelled, wholly or in part; of the last, the lists of numbers. Each has a row in `PROJECT.json`
"components" with its sources, modules and what is left out. Polls are left
out: nothing calls `AddPoll`, so that votes have nothing to count.

## 2. Modules

| Module | Of | Is |
|---|---|---|
| `UpdateFeed` | - | what the long poll promises to a client: abstract specification |
| `LongPollHub` | `longpoll/hub.go`, `api/uploads.go`, `api/messages.go` | the hub, its handlers, clients, connections, restarts |
| `RateLimiter` | `ratelimit/ratelimit.go` and who builds it | both limiters |
| `PostCounters` | `store/wall.go`, `api/wall.go`, `web/post.go` | likes, comments and the counters of a post |
| `Friends` | `store/friends.go`, `api/friends.go`, `web/profile.go` | friendships and requests |
| `IdSequence` | - | what `Store.nextID` promises: abstract specification |
| `StoreIds` | `store/store.go` | nextID, the mutex, the transaction, the pool, readers |
| `Accounts` | `store/register.go`, `users.go`, `web/web.go`, `session.go`, `social.go`, `api/auth.go` | users, sessions, profiles |
| `Messages` | `store/messages.go`, `api/messages.go`, `web/messages.go` | sending, updates, dialogs, histories |
| `Library` | `upload/upload.go`, `store/media.go`, `store/geo.go`, `api/uploads.go`, `photos.go`, `audio.go`, `web/uploads.go`, `photos.go`, `media_pages.go` | files, uploads and the rows made of them, albums |
| `Feed` | `store/wall.go`, `store/places.go`, `api/newsfeed.go`, `places.go`, `wall.go`, `web/feed.go`, `social.go` | posts, check-ins and the pages of a reader |
| `Params` | `params/params.go`, `formatNumber` of `vkscript/script.go` | numbers and lists as texts, written and read |
| `VKScript` | `vkscript/script.go`, `api/execute.go` | the evaluator, and what a script means as a tree; its parameters are `Params` |
| `MC...` | - | instances for TLC: owners of devices, the methods scripts call, symmetry |
| `...Proofs` | - | theorems about the module of that name; `StoreProofs` has those about `StoreIds` and `Feed`, `RequestProofs` those about `RateLimiter` and `Params` |

What they have in common:

* An action is what nothing can interrupt: a critical section, a channel operation,
  an SQL statement. A handler is a record with a program counter, or the sequence of
  its remaining statements (`PostCounters`), with its local variables. Between two
  actions every other handler may run.
* `Crash` and `Restart` set what is in memory back to its start and keep the tables.
* History variables say what was received, let through, asked for or has happened.
  They are read by properties and never by a guard of the code. Properties that hold
  only as long as no race of some sort occurred name it: `past` remembers.
* Users, logins, texts and addresses are members of sets; an update is its time
  stamp, or the id of its message and its flags; a slice that only grows at the end
  and is purged from the front is a set. A query is a set, or a sorted sequence where a
  page is cut from it. Passwords, names, wording and HTML are left out.
* Mutants stand before the definition they replace. They are forms of the code with
  a plausible mistake, and no specification uses them.

How state and actions correspond to the code, module by module:

**LongPollHub.** `counter`, `events`, `token` (is the buffered element in the channel
`waiters[uid]`?) and `keys` are the fields of `Hub`. `Push` is two actions, since it
signals after it unlocks. `GET /longpoll` goes through `Lookup` (UIDByKey), `ReadTS`
(`ts == 0` asks for the counter), a scan under the lock (`ScanTakes`, or
`ScanFindsNone`), `CheckDeadline`, and the select: `Wake` or `Timeout`, which both can
be enabled. `Expire` says that the wait time of a poll has passed. A client has a
session (key, time stamp) from `messages.getLongPollServer`, in two steps because
BindKey and TS lock separately; it polls with its time stamp and takes the new one
from the answer. `Disconnect` breaks its connection while the goroutine goes on,
`Leave` ends its session. What a client is owed and has seen, of which `UpdateFeed` speaks, are
`Owed` and `Seen`, of the clients that are `Joined`: those with a session of this boot.

**RateLimiter.** `clients` are the buckets, `inflight` the elements of the channel.
Time and tokens are natural numbers: a request costs `Cost`, a tick brings back
`Rate`, so fractions of a token exist. `Arrive` reads the clock, `Allow` is the
critical section, `TakeSlot` the select with default, `Finish` the deferred receive,
also after a panic. The clean-up takes its cutoff in one step and the lock in the next.

**PostCounters.** A handler is the sequence of statements its Go code makes, and
`Execute` runs the first. `likeToggle`, `handleLike`, `refreshPostCounters` and the
rest are those sequences, composed as the functions call each other. One post is
enough: handlers of different posts share no row, and ids are the matter of `StoreIds`.

**Friends.** As above with a program counter, because what comes next depends on what
was read. `handleFriendAccept` goes straight to its two rows: it looks for no request.
`past` remembers whether handlers overlapped, a deletion met another handler, the web version
was used, the process was killed; `wanted` who asked or accepted whom, and `uninvited` who
accepted a user that had never asked.

**StoreIds.** `idsMu` and `conn` say who holds the mutex and the connection. A commit
that fails may have taken effect or not; the transaction is over either way. A reader
stands for every handler that holds rows open.

**Accounts.** `LoginTaken`, `NextUserID`, `CreateUser`, `startSession` are the steps of
a registration; `ReadCookie`, `ReadUser`, then `Update` or `UpsertUser`, those of a web
request; `ReadSid` and what follows those of an API request. `asked` is the profile
each user asked for, field by field. A row has its login and phone and one column of
each sort besides: one that the form of the settings has (`status`), two it has not
(`avatar`, `online`).

**Messages.** `messages.send` goes through `NextID`, `Insert`, and then `PushPeer` and
`PushMine`, or `Members` (the members of the chat, read after the insert) and one
`PushMember` for each; the web version through `NextID` and `Insert` only. `told[u]` is
what the hub was given for `u`, in order: what becomes of it is the matter of
`LongPollHub`. The queries are sets of rows by the clauses of their SQL. A reader turns
the pages of `messages.getHistory` by offset. `lister` is a handler of `messages.getDialogs` or
`messages.get`: it reads a page of dialogs (`Dialogs`, with offset and count) by one statement and
the number of all (`CountDialogs`) by the next, and remembers what its user had been told of at
the first (`told`) and whether a message came or went between the two (`changed`). `done` and
`after` are history: which messages had been answered for when another was sent.

**Library.** An upload goes through `Truncate`, `Write` (or `WriteFails`) and
`SaveUpload`; then the API answers, or links the file to a video, and the web version
goes on to `NextID`, `Insert` and what follows (an avatar, a post). A save of the API is
`Upload` (is the file known?), `NextID`, `Insert`; `photosSave` takes any album id the client
names, of an album that is there, gone, or still to come. `early` and `strays` are history: the ids
that were named before there was an album, and the albums that may have left photos behind. `disk` tells a whole file from one that
was truncated, `copies` are the URLs that have left the media tables. The eight tables are
one set of rows with a type, since the handlers differ in the rows they write only.

**Feed.** A handler is the sequence of its statements, as in `PostCounters`; each may be
its last (`GiveUp`). `OrderBy` is the sequence of the rows that an `ORDER BY` asks for, `Limit`
the page cut from it. `session` is a client that turns pages: of `/feed` from `below` the second of the
last post, of `newsfeed.get` by what the client names, `end_time` (from `below` that second, or again
`from` it) with any `start_time`, or an `offset`, of `wall.get` by `offset`. The session begins with its
first page; `awaited` are the posts that were there all the time since and were not shown so far, `cuts` the seconds below
which a page began, `removed` says that a post went away while an offset counted. `geo` is the
attachment of the post of a check-in; `wallPost` may name any place, there or not, without one.
`stopped` counts the handlers that ended between the two statements of a check-in.

**VKScript.** Every parsing function of the interpreter is an operator from the tokens
and a state (position, variables, calls so far, value, error) to the state after it. `MeaningOf` is
the reference: the same script as a tree, evaluated by structural recursion. The steps of
the model write scripts: a step wraps an expression into a larger one, or ends a
statement. A script is run by `Eval` in the properties, at every state that has no
unfinished expression.

**Params.** A text is a sequence of characters, a loop of the code over a slice a `Loop` whose
`step` is the body: `NextChar` of `strings.Split`, `NextDigit` of `strconv.Atoi`, `NextPart` of
`Params.IntList`. A number outside `GoInt` is an error of Atoi and left out.

## 3. Runs

All runs end: every counter has a bound, named in its module (`MaxPush`, `MaxBoot`,
`MaxTime`, `MaxComments`, `MaxId`, `MaxAid`, `MaxUsers`, `MaxTokens`, `MaxMid`, `Count`,
`MaxPosts`, `MaxCheckins`, `MaxNamed`, `MinListed`, `MaxPages`, `MaxSize`). The models allow the system to stop only by
standing idle, so deadlock is checked in every run but `vkscript`: its steps write a
script, and end when it has the size asked for.

| Run | Asks | Size |
|---|---|---|
| `hub_safety` | two devices of one user, broken connections, a restart: is an update ever handed out twice or out of order, or a time stamp of the old process used? | 2 devices, 2 poll goroutines, 3 updates, 1 restart |
| `hub_feed` | one device a user, sound connections: does the hub implement `UpdateFeed`, also when the server restarts, does every poll get its answer, is a wake-up lost? | 2 users, 2 updates, 1 restart |
| `limiter` | is the rate kept, the burst granted, every slot returned, an idle bucket deleted? | 2 requests, 5 ticks, burst 5, cost 2, rate 3 |
| `counters` | can a counter be a number that never was, does it settle, what repairs it? | 2 handlers of any kind, 2 users, 2 comments, crashes |
| `friends` | are friends wanted by both unless accepted unasked, are halves completed, are friendships mutual, requests answered? | 2 handlers of any kind, 2 users, crashes |
| `ids` | are ids unique and growing, does everybody return? | 2 callers, 1 reader, 2 names, 2 ids, failures, crashes |
| `accounts` | do sessions have users, do logins stay and stay apart, do settings lose nothing? | 2 handlers of any kind, 2 users, 2 sessions, 2 logins, crashes |
| `accounts_race` | is a login registered once? (no) | the same |
| `messages` | is everybody told once, in the order of the conversation, of a message the dialogs show? Does a page of dialogs fit their number? Are pages of a history complete? | 2 senders of any kind, 2 users, 1 chat, 1 reader with pages of one message and of one or two dialogs, 2 messages, crashes |
| `library` | is there a whole file behind every row and copy of its URL? What do deleted albums leave behind? | 2 handlers of any kind, 1 file, 3 ids, of which clients may name 1 as an album's, failed writings, crashes |
| `feed` | which posts does a reader of pages see, in what order, and which not? What is left of a check-in that stops half-way? | 2 handlers of any kind, 2 users, 1 place, 2 seconds, 3 posts, 1 of them at a place without a check-in, 1 check-in, 2 pages of 2 posts, 2 posts there when the reader begins |
| `vkscript` | does evaluating while parsing compute what the script means? What has a script called that breaks off? Does a list arrive whole? | all scripts of 3 steps from 7 seeds, 2 methods, one of them unknown; ints from -13 to 12, which the sums of the scripts leave |

Why the bounds are enough: each hazard of `PROJECT.json` needs two actors at most and
one crash. Two handlers of any kind meet every pair of handlers in every order. The
burst of 5 with a cost of 2 leaves a fraction in the bucket, which is where rounding
shows; five ticks are enough for the clean-up to delete a bucket, after a retention of
three, and for its client to come back. In `hub_safety` three updates are the least: a client
whose time stamp is 0 is only given the counter, so the first update that a poll can hand over is
the second, and it takes a third for two in one batch, or one in each of two batches. `hub_feed`
has two a boot, and asks whether an update is delivered and a poll answered; batches and their order
are the matter of `hub_safety` and, for any number of updates, of the theorem `HubImplementsFeed`. Two messages are the least with an order; with two
users and a chat they are answers, messages to oneself, and two who join at once. One file is enough for
`Library`, where files share nothing but the ids; three ids are an album, a photo in it and
the album that must not get the photo; the one a client may name is, by turns, an album that is there,
gone or still to come. Three posts over two seconds cut a page of two
inside a second; a reader who finds fewer than a page when it begins has turned them all. Three steps of writing put every kind of expression into every other, as operand, member or
argument. Every property of a passing run was seen to fail for a
mutant of the code under the same configuration, so the case it is about happens.
Larger sizes are the matter of the proofs.

What differs between the code and what is said of it:

* `accounts_race`: a login that is taken is refused (`store.go:18`, and a test), yet two
  registrations of one login at once both succeed: look-up and insert are two
  statements without a lock or a unique index.
* README.md:91 says a long poll hangs until there are updates. A poll with the time
  stamp 0, which is what the server gives out until the first update after its start, is
  answered at once (`ReadTS`, `api/uploads.go:232`), so a client spins. An update pushed
  between two such polls is dropped.
* README.md:83 says the limiter is shared by the API and the web version. The program
  builds two (`main.go:33`, `api/server.go:60`): an address has both rates.

What the models show besides, of which no doc says otherwise:

* `/friend/accept` looks for no request: any user can be made a friend who never asked, and a
  process that is killed between its two rows leaves a half without a request. Nothing else does
  either (`FriendsWanted`, `HalfFriendshipIsListed`, with `uninvited`).
* A page of dialogs and the number of all dialogs are read by two statements; they fit when no message came or went
  between them (`DialogsShowUpdates`).
* Two handlers that write back what they read leave the counters of a post wrong until
  the next refresh; a friendship can stay a half when a deletion comes between its two
  statements; the web version keeps crossing friend requests.
* Nothing marks the messages of a chat as read: `MarkMessagesRead` asks for the receiver,
  which in a chat is the chat.
* `messages.getHistory` with a user lists all that the other user wrote or got, not the
  conversation with the caller (`History`); the page of the web version lists that
  (`Conversation`).
* A message that is deleted while a client turns the pages of a history, or a post while it turns those
  of `newsfeed.get` or `wall.get` by offset, hides another one.
* README.md:195 says that pages of `newsfeed.get` do not overlap, since the client turns them by `end_time` and
  `start_time`. They do not when the client asks from below the second of the last post, as the
  web version does (`FeedPagesInOrder`), and then the rest of that second is hidden. `end_time` is
  inclusive (`store/wall.go:64`): a client that asks from the second of the last post misses nothing
  (`PagesShowTheRest`) and sees the posts of that second again. Which of the two a client does is
  not in this repository.
* `wall.post` with `place_id` makes a post at a place that need not be there, without a check-in
  (`api/wall.go:78`). Only the attachment `geo` tells a post of a check-in (`PlacedPostsHaveCheckins`).
* An upload of a file that is there already truncates it first. If it breaks off, every row
  and post with that file has lost it, until it is uploaded again.
* A photo that is saved while its album is deleted, or at any time with the id of an album that
  is gone (`photos.save` does not look), stays in an album that is gone. No later album gets that id; but a photo saved with an
  id no album has had yet is in the album that gets it.
* A script of `execute` that ends in an error has made the calls before it, and the client
  is not told which.

**Fairness.** Safety runs have none. `hub_feed` assumes that goroutines go on
(weak fairness of every step of a poll, a push and a client that polls), that timers fire and
that the lock is given to whoever waits. `limiter` assumes time passes, the ticker
fires and requests that entered are served. `ids` uses strong fairness for taking the
mutex and the connection: `sync.Mutex` hands over to a starving waiter and the pool
of database/sql serves its queue in order; the rest is weak fairness of running
goroutines. Nobody is assumed to make a request.

## 4. Proofs

The theorems hold for any sets and any bounds, under the assumptions of the module
that declares the constants (names for nobody are not names of somebody, bounds are
numbers, a request costs something and the burst pays for one; there are finitely many
handlers in `Messages` and `Feed`, where they are counted). Each is proved from an inductive
invariant that a step of `Next` keeps, action by action.

| Theorem | Argument |
|---|---|
| LongPollHub: `TypeCorrect` | inductive by itself |
| `DeliveredAtMostOnce` | `DeliveryInv`: a time stamp given out is in one place, one queue, one answer or with one device. The property alone says nothing of queues |
| `PollsAreFresh`, `DeliveredInOrder` | `SessionInv`: keys are of this boot, what a device has is not later than its time stamp, what an answer holds is later; a device has one live poll |
| `WakeupIsNotLost` | from `SessionInv`: the token is in the channel or a pusher still has to signal |
| `ExpiredPollsAlwaysCountDown` | from `TypeOK`: after `Expire` the loop of Hub.Wait is not gone round again, `CheckDeadline` leaves it; the part of `PollAnswered` that does not rest on fairness |
| `HubImplementsFeed` | refinement, without assumptions: a push is `Publish`, an answer with updates is `Deliver`, the time stamp a client gets with its key `Join`, a restart `Part` of everybody, a client that goes away `Part` of itself; a scan stutters for its own client (updates go from the queue into the answer) and is `Lose` for the other devices of the user and for a client that is gone; a connection that breaks is `Lose`; all else stutters. Rests on `FeedInv`: `SessionInv`; `PollPath`: which polls have a time stamp, and that whoever has a key of this boot is bound to it; `NothingBetween`: a poll that is ahead of its client's time stamp has left nothing behind in the queue, so a client that falls back to that time stamp when its connection breaks is owed nothing it had not been owed. Only `Lossy` devices lose: those that share a user, all when connections break |
| RateLimiter: `TypeCorrect`, `SlotsAreExact` | tokens between 0 and the burst; the channel counts the holders |
| `RateIsSustained` | `ReadEarlier` and `Paid`: what was let through and what is left were paid for by the last refill; a deleted bucket was full again by then. Assumes `CleanupIsLate` |
| `BurstIsAlwaysGranted` | `Granted`: tokens left and tokens used make up the burst |
| PostCounters: `TypeCorrect`, `CountersAreHistoric` | what a handler has read or counted was true then |
| `DeletionIsFinal` | no statement sets `deleted` back |
| `CountersAlwaysSettle` | `SettleInv`: as long as nothing was mixed or killed, a counter that is wrong has a handler that will recount it. Needs `AllPlanned`, what a handler has still to do told by how much of it is left, and `AloneInv`: what a handler that is alone has read is still so |
| `RefreshAlwaysRepairs` | from the same invariant: `AloneInv` says of a handler about to write counters that it has counted what is there |
| Friends: `TypeCorrect`, `FriendsAreWanted` | `ListedWanted`: a handler about to store a friendship has both wishes behind it, or accepts a user who never asked (`uninvited`) |
| `NoRequestIsAnswered` | `AnsweredInv`: a handler that works alone has found what it relies on still true, and a request between friends is about to be deleted |
| `HalfFriendshipsAreListed` | `RequestOrFriends`: a request goes only when both rows are there; a half without one was accepted when there had never been one |
| `FriendshipsAreMutual` | `HalfIsBeingCompleted`, `Underway`: a half has a handler about to store the other |
| StoreIds: `TypeCorrect`, `InsertsAreAlwaysNew` | `Committed`: what was given out is committed, what was read in the transaction is still next |
| `StoreImplementsIds` | refinement: a step that returns is `Give`, every other step stutters |
| `NobodyIsEverStuck`, `CallsAlwaysCountDown` | from `TypeOK`, which says who holds the mutex and the connection. What `CallsReturn` needs of every moment: somebody can go on whenever there is work (the holder of the mutex waits for the connection at most, the holder of the connection for nobody), and a call ends after seven steps of its own. Only that the steps are taken is left to fairness |
| Feed: `CheckinsAlwaysCounted`, `PlacedPostsAlwaysHaveCheckins` | `StoreInv`: what a handler has still to do tells what it has stored (`HandlerInv`), an id belongs to one post or handler (`PostsInv`), a check-in has a number of its own (`CheckinsInv`); a check-in that is not counted has a handler about to count it or one that was `stopped` |
| `FeedPagesAlwaysInOrder`, `PagesAlwaysShowTheRest` | `TurningInv`: from `below`, what was shown is not below the second the next page begins at, and the posts shown are in order (`OrderInv`); a post that was there all the time and not shown is `Excused`, or within the bounds of the next page with at least as many posts before it as the offset leaves out (`Ahead`). `BelowTurns`, `FromTurns` and `FurtherTurns` keep it, for the three ways to the next page (`PageLeaves`). The sequence that `OrderBy` chooses exists, and the place of a post in it is the number of those before it (`RowsInOrder`) |
| Accounts: `TypeCorrect` | with `Placed`: a handler is where its kind of request can be |
| `SessionsAlwaysHaveUsers`, `LoginsAreKept` | `Numbered` and `ReadLogin`: an id waiting for its row belongs to one handler, and what settings will write back has the login of the row |
| `LoginsAreUniqueInTurn` | `StillFree`: a login found free still is, when the registration is the only one |
| `SettingsAlwaysKeepTheRest` | `ReadFresh`: a row that was read has not changed, when nobody else is to write one |
| Messages: `TypeCorrect` | `TypeInv`: an id given out is in the hands of one handler (`IdsInv`) and the handlers that may take one keep within the bound, which needs finitely many handlers |
| `MessagesInOrder` | `OrderInv`: who sends has an id larger than all that were answered before he began, and no handler has an answered message still to tell of |
| `RecipientsTold` | `ToldInv`: who was told once, who is still to be told by the handler that holds the message, and that nobody was told twice |
| `DialogsAlwaysShowUpdates` | from `ToldInv`, with the lemma that a finite set of messages has a last one, so each peer has one dialog, and a page that is not full shows all of them. A page and the number that is read later fit as long as nothing changed: what the lister has read is then what is still there |
| `HistoryAlwaysComplete` | `ReaderInv`: what the reader has still to see is at its offset or behind it, unless a message was deleted, and what it has seen is before it, unless one was added. The position of a message (`Pos`) is the number of later ones, and so is its place in the sorted history |
| Library: `TypeCorrect`, `FilesAreThere` | `Inv`: what a handler does next tells what it has stored (`WorkInv`), an id belongs to one row or handler (`IdsInv`), a file that is not whole is being written or was broken off (`FileInv`) |
| `NewAlbumsAreEmpty` | from `Inv`: the id of a new album is one no photo names, nor a handler that saves one, unless it was named `early` |
| `NoPhotoIsLeft` | `RaceInv`, of any album that is not in `strays`: nobody saves into it while it is deleted (`MeetInv`), who saves into it finds it there (`SavingInv`), and its photos go with it (`PhotosInv`) |
| Params: `WrittenListsAreRead` | `Loop` takes one item after the other (`LoopAppend`, `LoopConcat`); `Digits` exists and is read back (`DigitsAre`, `DigitsRead`); parts without a comma that were joined come apart again (`SplitJoin`). Assumes of `MaxInt` that it is a natural number |

`CleanupIsLate` says that a bucket refills before the clean-up may delete it: burst at
most rate times 180 seconds, less what a request can wait for the lock. The defaults
(50 a second, burst 100) satisfy it; `-rate-limit 0.5` with the default burst does not, and then a
client that pauses for three minutes gets a full bucket too early.

Two constructions come back in these proofs. That something is true of every finite set (it
has a last member; its members can be put in order) is proved without induction: the sets of
which it is false, were there any, would have one with no smaller one among them, since the
subsets of a finite set are well-founded (`FS_StrictSubsetOrderingWellFounded`, `WFMin`), and
that one less a member refutes it. And places in a sorted sequence are counted, by the cardinality of
what comes before, so that a row that is added or goes away moves a place by one.

The induction over numbers and lists in `RequestProofs` goes the same way, since an operator cannot be
a parameter of a lemma here: it is stated of sets (`SetInduction`, `SeqInduction`), of numbers
from the well-foundedness of `<`, of sequences from their lengths. That a recursive function is
what its definition says (`DigitsAre`, `LoopRuns`) is proved by it first.

Only model-checked:

* what needs fairness: `PollAnswered`, `IdleIsForgotten`, `CallsReturn`, and that updates are
  delivered in the end, the other half of `ImplementsFeed`. Liveness is beyond TLAPS here;
* the properties of `VKScript` (`EvalIsMeaning`, `CallsBeforeErrorStand`, `ListsArriveWhole`): the evaluator
  and its reference are recursive operators over scripts of any depth, of which the provers
  can say nothing. The part of `ListsArriveWhole` that is not the evaluator is `WrittenListsAreRead`.

`DeletionIsFinal` (a deleted post stays deleted) and `TypeCorrect`, but for `Messages` and
`Library`, state invariants that no run lists, since their proofs say more.

## 5. Assumptions and what is left out

* SQLite is atomic and durable by statement. A statement that fails is modelled for
  nextID and in `Feed`, the writing of a file in `Library`; elsewhere a handler that fails half-way leaves what a killed one leaves.
* Tokens, sids and long poll keys never repeat, and a restart takes a second or more.
* The syntax of logins, passwords, signatures, and look-ups by an empty login are left
  out of `Accounts`.
* No delivery is claimed for connections that break: the protocol has no
  acknowledgement, and an answer that is lost is lost with its updates. Nor for two
  devices of one user, who share a queue. `UpdateFeed` allows both with `Lose`, and nothing else.
* A wait for `Limiter.mu` is bounded by `MaxStall`.
* Other processes do not write the database or the directory of uploads.

Not modelled:

* Dispatch of methods, tokens, signatures and captchas: tables and maps under a mutex that
  are read and written in one critical section each.
* Searches, suggestions, counts of what is unread, lists of the `users.*`, `groups.*` and
  `places.*` methods: reads of data in one statement each.
* Polls: nothing creates one; a vote for a poll that does not exist leaves a row that is read
  with its poll only.
* The lexer of VKScript, fractions, the rounding of a float64 beyond 2^53 and the text of JSON; captions, owners and comments of
  photos; the text of messages; the order of the list of dialogs.
* Rendering of pages, answers and placeholder media, parsing of forms and multipart bodies:
  functions over text without state.

## 6. What could follow

1. The vote and recount of polls, as soon as the code makes polls.
2. An evaluator of VKScript as a recursive function over positions, so that what a script has
   called when it breaks off could be proved for a bounded depth.
3. Comments on photos and videos, which repeat those on posts without counters.
