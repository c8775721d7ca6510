# stapel-chat in TLA+

A verification project for `stapel-chat`, the Django package that keeps direct,
group and support threads, serves them over REST and two WebSockets, and tells
other modules about them through an outbox. The modules in this directory model
its service layer; TLC checks them on small instances and TLAPS proves the
results that matter most for every value of the constants.

## The system

| part | state it keeps | operations | modules here |
|---|---|---|---|
| conversation journal (`services.py`, `models.py`) | `Conversation.last_seq`, `Message` rows (`seq`, `rev_seq`, body, `deleted_at`, `client_msg_id`), `left_at`, outbox | `post_message`, `post_system_message`, `edit_message`, `delete_message`, `erase_user_messages`, `leave_conversation`, `rejoin_conversation` | `ChatJournal`, `RevisionJournal` |
| stream and resume (`consumers.py`, `realtime.py`) | sockets, group membership, the client's cursor and copy | `hello`, replay, live frames, `resync`, revoke | `ChatStream` |
| presence (`presence.py`, `PresenceMixin`) | `UserPresence`: `connections`, `online_until`, `last_seen_at`; what peers were told | `on_connect`, `on_disconnect`, `touch`, `announce` | `Presence` |
| markers and history (`services.py`) | `last_read_seq`, `last_delivered_seq`, `cleared_at` | `mark_read`, `mark_delivered`, `clear_conversation`, `unread_count`, `visible_messages` | `ReadMarkers` |
| support desk (`services.py`, `views.py`, `scope.py`) | `assigned_operator`, `support_status`, operator participants, the system lines | `assign_operator`, `resolve_support`, `reopen_support`, the queue | `Support` |
| direct threads and blocks (`services.py`, `blocks.py`) | `direct_key`, participants, the block store of another service | `create_direct`, `create_group`, `create_support`, `_refuse_if_blocked` on a send | `DirectThreads`, `ThreadDirectory` |
| accounts (`actions.py`, `gdpr.py`) | all of the above, for the users of one event | `user.merged`, `user.deleted` | `Accounts` |
| CDN claims (`services.py`, `attachments.py`, `cdn_refs_backfill.py`) | attachments of rows, claims held by the CDN | claim on send, release on deletion, erasure and removal, backfill | `CdnClaims` |
| inbox (`services.py`, `views.py`, `subjects.py`) | nothing of its own: what rows draw, pages, cards | list, search, list of left threads, detail | `Inbox` |
| settings, registries, checks, admin, migrations, code generation | none that moves | read or run once | not modelled |

How they interact.  Every write goes through the service layer.  A service call
runs a transaction that takes the conversation row with `SELECT ... FOR
UPDATE`, gives the row it writes the next position of the one counter, writes
its outbox event in the same transaction, and leaves callbacks to run after the
commit: the live frame, the inbox signals, a revocation, a CDN claim.  Sockets
read the rows when they resume and receive the frames of the callbacks when
they are live.

What is hard about it:

* what a handler checks before it holds the lock (edit, delete, block checks,
  the look-up of a retry) may be stale when it holds it;
* the callbacks run after the lock is released, so frames, claims and releases
  of two transactions may go out in any order, and a worker may die before its
  own;
* several operations are two or more transactions (assignment and its line,
  erasure and the end of membership, the three statements of a presence call);
* one counter numbers both messages and revisions, and clients resume by it;
* account events are delivered at least once, at any moment, and touch every
  table at once;
* lists are read page by page, and a page in three queries, while the threads
  move.

What makes each part correct is stated at the end of its module; the tables
below say it in a line each. `PROJECT.json` lists each hazard at its line, with
the properties that cover it or the reason none does.

## Modules

* **`RevisionJournal`** is the abstract specification of a journal that clients
  resume from: one head; a step issues the positions that follow it, one to
  each row it creates or rewrites, and touches nothing else.
* **`ChatJournal`** is one group or support conversation with its request
  workers. `rows`, `lastSeq`, `left` and `outbox` are the committed database;
  `pc`, `req` and `pushes` are the workers; `replies` remembers what sends were
  answered. A request is two steps: `Begin...` makes the reads and checks the
  handler makes without the lock, `Commit...` is its transaction under the
  lock. `Deliver` runs one `on_commit` callback, `Crash` kills the worker
  wherever it is, `SendCollides` is the path of `post_message` through the
  unique constraint on `client_msg_id`, `EraseNothing` the `if not rows` of
  the erasure. The mutations at the top of the module are mistakes the code
  could have had; the properties are shown to notice them.
* **`MCJournal`** instantiates it for TLC. **`ChatJournalProofs`** holds the
  theorems.

* **`Presence`** is one user's row with the sockets that keep it. Calls of
  `on_connect` and `on_disconnect` are not transactions, so each statement is a
  step of the socket (`Find`, `Count`, `Hail`; `Uncount`, `Look`, `Expire`,
  `Farewell`), between which other sockets run, workers are killed (`Crash`) and
  statements raise (`ConnectFails`, `DisconnectFails`, `TouchFails`). `Tick` is
  the clock; instants are kept relative to it and capped where no comparison
  tells two apart. `told` is the last frame the conversations received;
  `recorded` and `alone` are history. **`MCPresence`** instantiates it. Its
  theorems and those of `ReadMarkers`, two things kept for each participant that
  share no state, are in **`ParticipantProofs`**, which extends both; that is why
  the specification here is called `PresenceSpec`.

* **`ChatStream`** is one participant's device on the conversation stream.
  `rows`, `lastSeq` and `pushes` are the journal as a socket sees it: every
  transaction of `ChatJournal` is a `Write` that puts one row on the next
  position and leaves a frame (a block erasure is a run of deletions). The
  socket answers a hello by three reads of the database, which are steps of
  their own (`ReadServerSeq`, `ReadMark`, `ReadRows`), so that writes and
  clearings fall between them; a live frame waits for a handler that is
  running. `Edit` and `Delete` were checked before they hold the lock, so both
  may meet a tombstone; an edit of one saves its text and leaves `deleted_at`,
  and its frame, made of the loaded instance, tells that the message is live
  (`over`). `Clear` writes the clock its caller read earlier, so the mark may
  move back; `hidden` remembers the furthest there was. `Deliver` and `Lose` take the frames in any order or not at all,
  `Disconnect` loses what is on the wire. `Connect`, `Receive`, `Rehydrate` and
  `DropHistory` are the client loop of the documentation. The substrate
  (`stapel_realtime`) is not in this repository: its protocol, one handler at a
  time and no frame at or below the highest one sent, is taken from how
  `consumers.py` and its tests use it. Each frame carries `after`, the position
  it follows, which is history: `sound` is the position up to which the device
  missed nothing, `upTo` the one its last replay reached. A page is numbered by
  how many missed rows stand before each (`Page`), which is `ORDER BY rev_seq
  LIMIT n` without a sort to do induction over. **`MCChatStream`** instantiates it,
  **`ChatStreamProofs`** proves about it.

* **`ReadMarkers`** is what waits for each participant of one conversation.
  `draft` is the message of the transaction that holds the lock: it is stamped
  with `created_at` in `Create` and seen only after `Commit`, which is when a
  clearing may fall between. `PostRead` and `FinishRead` are the two statements
  of `POST read`, `FrameRead` and `FrameDelivered` the socket's frames,
  `BeginClear` and `CommitClear` the two sides of the clock read in
  `clear_conversation`; workers may die between any two. A call may name any
  position (`Named`), also one that is not issued yet, since the code has no
  upper bound; `ahead` remembers the furthest of those. `clock` counts created
  messages, since an instant is only ever compared with `created_at`. `Unread` is
  `unread_count` and `_unread_rows` alike. **`MCReadMarkers`** instantiates it,
  **`ParticipantProofs`** proves about it.

* **`Accounts`** is what two events do to everybody's threads. `threads`
  (with their seats, keys, operators, counters) and `rows` are the database;
  `merge` is the delivery of `user.merged`, `erase[u]` that of `user.deleted`
  for each leaver. The merge is one database transaction, but not under one
  lock, so it is three steps: `BeginMerge` (the existence of the survivor and
  the first reads), `LookMerge` (what it reads on its way: seats, keys, the
  loser's messages), `CommitMerge` (its writes), with the locks it holds in
  between as guards of the others (`Locked`, `Seated`). `MergeCollides` is every way its
  statements can fail, and leads to `RollBackMerge`. The deletion is one step
  per transaction: `EraseThread` per conversation, `RemoveMembership`, `Clean`
  per direct thread. Crashes, retries and repeated deliveries are actions.
  A message is live, gone (a tombstone), or back (a tombstone over which a late
  edit wrote its text); `Delete` and `Edit` are its author's, also of what was
  deleted since they checked. The erasure's filter, sent by the user and not
  deleted, is `Standing`. `stray` is history. **`MCAccounts`** instantiates it, **`AccountsProofs`** proves
  about it.

* **`ThreadDirectory`** is the abstract specification of get-or-create: under
  each key stands one thread at most, and whoever is answered holds the one
  that stands. **`DirectThreads`** is how threads come to be: a worker's
  request goes through its look-up, its question to the block store, and its
  transaction, each a step; `Lose` is the conflict on the unique key with the
  re-read of the winner, `Reread` the view that renders what the service
  answered. The other door is a send: its block check precedes its look-up and
  its commit. People block and unblock each other and threads are removed at
  any moment. `saw` remembers, for each request, what was so at some moment of
  it: *absent*, *free*, *blocked*. **`MCDirectThreads`** instantiates it,
  **`DirectThreadsProofs`** proves about it.

* **`Support`** is one thread at the desk. `BeginAssign`, `Assign` and `Tell`
  are the view with its mandate check, the transaction under the lock, and the
  line in a transaction of its own; `BeginTransition`, `AskMandate`,
  `SetStatus`, `Tell` the same for a resolution or a reopening, which takes no
  lock. `Revoke` takes a mandate (`revoked` remembers whose), `Depart` and `RowGoes` are the two ends of an
  account's deletion. `moves` is what happened, `lines` what the thread says;
  `blurred` marks the histories in which the two may differ.
  **`MCSupport`** instantiates it, **`SupportProofs`** proves about it.

* **`CdnClaims`** is the messages of one conversation and the media they carry.
  A send refuses its list or normalizes it (`Accepted`, `Prepared`), stores it,
  and leaves a claim to be published; deletion, erasure and removal
  of the conversation leave releases, from attachments they read before they
  emptied them. Publications may fail, workers may die, a backfill claims for a slice of
  the rows it read. `Apply` and `Sweep` are the CDN. `unclaimed` and `stuck`
  name, in history, the media that lost its claim and the claim that lost its
  release. **`MCCdnClaims`** instantiates it, **`CdnClaimsProofs`** proves about
  it.

* **`Inbox`** is one viewer's list. The pure part says what a row draws
  (`LastLine`, `Preview`, `Reason`, `Marks`, `Unread`) and what a search finds
  (`FoundByLine`, `TitleMatches`), each translated from its own code, in SQL or
  in Python. The walk is a client that follows the pages: `Begin`, `Scan` (the
  cards a search resolves), `Select` (the main query), `Draw` (participants,
  cards that are missing, the rows served). Between any two, threads move by
  every operation that changes what a row draws. `ORDER BY` is a numbering of a
  set by how many elements stand before each (`InOrder`), so that there is no
  sort to do induction over. `SaysSomething` is what the service demands of a
  message (`views.py:843`, the second wall of `post_system_message` at
  `services.py:528`), `PriorAssumption` what the database demands of a history.
  **`MCInbox`** instantiates it, **`InboxProofs`** proves about it.

Why a transaction is one step: each of them takes the conversation row first
and keeps it to the commit, so no other transaction on the journal runs between
its first and last statement. `leave_conversation` writes `left_at` before it
posts; the row lock that write takes is held to its commit, which is why
`BeginLeave` lets no second departure of the same participant begin, and no
other transaction can see the mark until `CommitLeave`. A resurfacing in
between does not touch it, because it filters on a mark that is not committed.

Abstractions: a body is a model value; the edit window, attachments, replies,
`edited_at` and `updated_at` are left out; `post_system_message` is `BeginSend`
with no user. `Message` primary keys are the order of creation.

In `Presence` a call ends within `CallTicks` and an open socket passes its touch
guard within `Interval + Heartbeat`, since the substrate closes a socket that
misses its heartbeat; `MaxConnections` only stops new sockets from opening. Who
receives an announcement (no guests, nobody departed, at most
`PRESENCE_FANOUT_LIMIT` threads) is a filter and left out.

In `Accounts` a marker is one number and `cleared_at`, `left_at` and roles,
which the fold treats alike, are left out; group and support threads are one
kind; direct threads are of one scope and about one subject. In `DirectThreads` a subject that is refused is one value, whichever half
of it is wrong. `Support` is one thread, its `pending` status is never reached
by these operations and only read by the queue. In `CdnClaims` there is one
conversation; the CDN and its bus are external, events are applied in the order
of their publication, and the sweeper's patience outlasts whatever is under
way (`UnderWay`); a backfill that is limited may begin with any of the rows
(`Slices`), since their keys are random; what the CDN describes of an attachment, null where it has
not measured yet, is left out, since neither an answer nor an outage changes a
reference or refuses a send; a dry run of the backfill changes nothing and is
left out. In `Inbox` words are model values, so case folding and white space are abstracted;
pages are walked forwards only; two threads never move at the same instant; a
thread has one counterpart; and `AnchorPagination` (`stapel_core`) is taken from
how the views use it.

## Runs

### The journal

`MCJournal.cfg`: two participants, two workers, one `client_msg_id`, one text,
four journal positions (`MaxSeq`), no fairness. Four positions are enough for a
message to be sent, edited or deleted, erased or left around, and for a second
message to meet it; two workers are enough for every race between a check and a
commit, since each transaction is one step. Participants, workers and texts are
symmetric.

| property | says | notices, for instance |
|---|---|---|
| `TypeOK` | types | swapped arguments of the new row |
| `JournalPositions` | threads keep their order, no two rows share a `rev_seq`, none is beyond the counter | an erasure that puts its block on one position |
| `SendOnce` | one row per `client_msg_id`, all retries answered with it | a missing look-up and constraint |
| `OutboxTellsJournal` | events leave in journal order; one `chat.message` per row; every revision has its event | a deletion that takes no position |
| `QuietAfterLeaving` | whoever is gone was talked to by nobody since the line that says so | sends that resurface nobody |
| `FramesFollowRows` | a waiting frame is about a committed row, never newer, tells to purge only what is deleted | an edit that saves the whole stale row |
| `ChangesPassEveryCursor` | a step that changes a row moves it beyond the old counter | an edit that keeps its position |
| `TombstonesStay` | no step clears `deleted_at` or names an erased author | an edit that saves the whole stale row |
| `ImplementsJournal` | every step is a move of `RevisionJournal` or a stutter | an edit that keeps its position |

`journal_tombstones` (`MCJournalTombstonesAreEmpty.cfg`, one position less) is
expected to be violated: an edit that passed its checks before a deletion
committed writes its body into the tombstone.

### Presence

`MCPresence.cfg` (two sockets, lease 6, throttle 2, guard 1, heartbeat 1, calls
of at most one tick, three connections, everything may fail): the ratios are
those of the defaults (90 s, 30 s, 15 s), two sockets are enough for every race
of two calls, and three connections leave room for leaked ones. It checks
`GhostsFade`: a lease after the last socket went nobody reads or shows
the user as online, whatever leaked. A rule that looks at the counter alone
fails it.

`MCPresenceLive.cfg` (failing statements excluded, killed workers not, `FairSpec`)
checks `CountCovers`, that the counter is never below the sockets recorded, and
`StayersAreSeen`, that a user with a socket that stays open is online again and
again: every race below is repaired by a later touch or connect. Fairness is
assumed of the clock, of statements (they return) and of touches (the pong of
the heartbeat is a frame); none is assumed of users opening or closing sockets.
Without touches the liveness fails, without the decrement's care the counter.

Announcements are in the model (`told`) and bounded by `GhostsFade`, but nothing
is claimed of when a user who is back is announced: a connect that read the row
before a disconnect ended the lease says nothing, and a renewal is never
announced.

### The stream

`MCChatStream.cfg`: three positions, a window (`MAX_REPLAY`) of one row, three
connections. With a window of one, a gap of two already forces a resync and a
write between the two reads already overfills a page, so a replay is whole, cut
off, or replaced; three positions hold two messages and a change to either;
the third connection is the one that resumes from a cursor a second left
behind. The bounded journal fills up and the device runs out of connections, so
deadlock is not checked.

| property | says | notices, for instance |
|---|---|---|
| `CursorIsHonest` | a device whose cursor skipped no frame holds every visible message as it stands, up to the cursor, or the edit that was written over its tombstone | a replay anchored on the place in the thread, which never brings an edit |
| `AnsweredIsComplete` | after a replay that nothing overtook, a device that had skipped nothing holds the thread, with the same exception | a replay in the order of the thread, cut off by the window |
| `ImplementsJournal` | the journal a socket resumes from is `RevisionJournal`, as is the one `ChatJournal` writes | a change on an old position |

`CursorIsHonest` and `AnsweredIsComplete` are conditional on `sound`: a frame
that is lost while the next one arrives moves the cursor past it, and no replay
brings it. They speak of messages no mark ever covered (`Visible`): a device
that was not told of a clearing keeps a message deleted later, since the replay
leaves out the tombstone as well, and one whose mark moved back is not sent
again what lies between. Of a message that was edited after its deletion they
allow the device to hold that edit: the live frame says so, a replay does not
(`Holds`).

### Markers and the badge

`MCReadMarkers.cfg`: one participant who reads (`Readers`), another who writes,
three journal positions, three created messages, one `POST read` between its
statements, two clearings at once. Markers of different participants do not
interact, so one reader is enough; a marker call names any position up to three
(`MaxNamed`), issued or not, so that calls of several tabs are covered by their
order and a marker may run ahead of the journal by all of it; an overtaken
clearing needs two. The journal is bounded, so deadlock is not checked.

| property | says | notices, for instance |
|---|---|---|
| `TypeOK` | types; a marker holds what was named, a mark is not ahead of the clock | a marker put past what was named |
| `MarkersMoveForward` | no marker moves back | an update without its filter |
| `NewsRaisesBadge` | a message of somebody else is unread for everyone who had neither asked to clear when it was created nor named its position, or one beyond it, before it was issued | messages numbered apart from revisions |
| `RetiredStaysRetired` | what left the badge comes back only by an overtaken clearing | an edit that moves its message to the end |

The overtaken clearing is excepted because the clock is read before the
transaction and written unconditionally, so the mark can move back. The
positions named ahead are excepted because nothing bounds a marker above: the
messages that fill them are born read, and the badge counts again beyond.

### Account merge and deletion

`MCAccounts.cfg`: a guest, the survivor and one counterparty who is deleted.
What they had before is any subset of four threads (16 histories): guest with
counterparty, survivor with counterparty (these two are folded), guest with
survivor (which dies), and a room whose operator is the guest and in which both
have a marker; one `client_msg_id` is used on both sides of the fold, and the counterparty has
deleted one of their messages before. One thing happens meanwhile (a thread is
opened or a room convened, a message posted, deleted, or edited, the tombstone
included, a marker moved), one worker dies, one delivery is repeated; the survivor may be
unknown at first. One of each is enough to put a foreign step between any two
of a handler. The events end, so deadlock is not checked.

| property | says | notices, for instance |
|---|---|---|
| `NothingStaysBehind` | an acknowledged merge left no message, seat or desk of those the guest had when that delivery began | a merge that looks for seats only |
| `OneThreadPerPair` | who sits in a direct thread is who its key says, and two people have one | a seat that moves and a key that stays |
| `ErasureReaches` | an acknowledged deletion left nothing standing of what was said before it began, wherever a merge has put it: each such message is a tombstone | an erasure of the threads the user sits in |
| `ThreadsKeepTheirOrder` | messages of one thread stay together and in order; folded ones land above every cursor of their new thread | a fold that keeps positions |
| `NothingIsLost` | no message goes but with a dead thread or by the one race below; no marker moves back but by the other | a fold that deletes the loser with its messages |
| `DeliveriesComplete` | the merge, once the survivor is known, and the deletion come to their end | a folded message that keeps a used `client_msg_id` and fails every delivery |

`ErasureReaches` asks for no more than a tombstone, because the code gives no
more: its filter passes over what is deleted already (`services.py:1122`,
`1132`), so a message its author had deleted keeps `sender_id`, and text that a
late edit wrote over a tombstone is not erased.

Fairness (`FairSpec`): the steps of the handlers themselves and the redelivery
of what failed, which the outbox guarantees (`actions.py:3`, "delivery is
at-least-once"). None is assumed of people, of the projection that provisions
the survivor (hence the leads-to), nor of crashes.

`accounts_dead_threads` is expected to be violated: a worker that dies between
the end of the memberships and the clean-up leaves a direct thread of one
person that no redelivery visits.

### Direct threads and blocks

`MCDirectThreads.cfg`: two people, two workers of one request each, eight
openings (either person naming the other, with and without a subject, oneself
in the list, a refused subject, oneself alone, a group, support), three
deployments (a store that is reachable, one that is optional and missing, one
that is required and missing; enforcement switched off behaves as the second,
see `Enforced`), a thread that may stand from
before, two threads, one message, one removal. Two openings are a race; the
removal is what the winner's re-read can lose.

| property | says | notices, for instance |
|---|---|---|
| `OneThreadPerPair` | one live direct thread per pair, scope and subject; one event per committed thread, with its members | a key hashed in the order the two are named |
| `RefusalsAreJust` | a 403 was a block at some moment of the request, a 503 an outage where the store is asked; neither takes an existing thread away | a store asked before the look-up |
| `NothingSlipsThrough` | nothing is opened or stored unless the two were free of blocks at some moment of that request | an outage read as no block |
| `ImplementsDirectory` | opening is get-or-create: whoever is answered holds the thread that stands under the key | a winner looked up by the pair alone |

### The support desk

`MCSupport.cfg`: a customer and two colleagues, any of whom may be mandated, two
workers, three moves, one mandate revoked, one account deleted, all of which may
fall between any two steps of a request. Three moves are an assignment, a
resolution and a reopening, or the two that race.

| property | says | notices, for instance |
|---|---|---|
| `LinesTellMoves` | no line without its move; lines and moves agree, in order, but for a worker that died owing one or two that owed one at once | both changes told by one line |
| `NobodyWaitsUnseen` | an active thread is in the queue, or has an announced operator with the seat, unless their account is going, and with the mandate, unless it was revoked since | an operator who keeps the role they sat with |
| `FirstComeFirstServed` | a thread passes to nobody while its operator has an account; every new claim, and no other, is one event; the answer to a claim was true at some moment of it | a claim judged by the row the view loaded |
| `AuthorityComesFirst` | a seat is minted only with a mandate, the status changed only with mandate and seat, held at some moment of that request | the seat taken for the mandate |

An operator can act with seat and mandate (`views.py:1135-1140`).
`NobodyWaitsUnseen` excepts the two ways in which one of them is taken from the
operator of a thread; of the second, a revocation, the code makes nothing, and
the thread waits where no colleague sees or can claim it.

### CDN claims

`MCCdnClaims.cfg`: two senders, two workers, two media, six lists a client may
send (an empty one, and three that are refused: a type that is not registered,
no reference, too many), one list of an older release, two messages, two losses
(workers that die or publications that fail), one backfill. Two workers are what puts
a claim behind its release; two media tell a list apart from a reference.

| property | says | notices, for instance |
|---|---|---|
| `LiveMediaIsKept` | the sweeper takes nothing a live message carries, unless no claim came in time (`unclaimed`) | references of older releases overlooked |
| `DeadMediaIsReleased` | with nothing under way, only live messages claim, but for releases lost or overtaken (`stuck`) | references read from the row that was emptied |
| `OnlyTheDeadAreReleased` | no claim of a live message is taken away | a conversation whose deletion failed, released anyway |

### The inbox

`MCInbox.cfg`: three threads, one to a page, a search that resolves one card, a
preview of two words, two moves of the threads during the walk, five lists
(everything, the left threads, the unread ones of a name, a label, a title), six
states to start from (a last line with words, an old tombstone that kept its
own, an author who is gone; a thread left or not). One row per page puts a move
between any two rows, two moves let a thread jump over the anchor and back.

| property | says | notices, for instance |
|---|---|---|
| `FoundIsDrawn` | a word is found exactly when the line draws it; a row served for a word shows it although its card fails later | a card that is asked again when the page is drawn |
| `RowsTellTheLine` | list and detail agree on line and badge; a row without words says why, tells no files of a withdrawn message and each type once | a line matched on `last_seq`, which an edit moved on |
| `WalkIsFaithful` | no thread is served twice; one that nothing happened to is served once if it is listed and shows the word, else not | a filter on anybody's participant row |

## Proofs

`ChatJournalProofs` proves, for any participants, texts, `client_msg_id` values,
workers and bound, from the assumptions that the three sentinels are outside
their sets and `MaxSeq` is a natural number:

* `TypeCorrect`, `PositionsCorrect`: from the inductive invariant `IInv`, which
  is `TypeOK`, `RequestsOK` (a loaded request names a row and a user that
  exist) and `JournalPositions`. `RequestsOK` is what an edit or a deletion
  needs to keep the rows a sequence; `JournalPositions` is inductive because
  every new position lies beyond the counter and no old one does.
* `ReplayIsComplete`, `TombstonesAreForever`: action properties, from the same
  invariant.
* `SendsAreIdempotent`: `SendOnce`, with the strengthening that an answered
  send names the row that holds its `client_msg_id`.
* `JournalRefinement`: `Spec => ImplementsJournal`, the refinement of
  `RevisionJournal`.
* `OutboxIsTheJournal`: `OutboxTellsJournal`, with `OutboxBehind` (no event lies
  beyond the counter) and `QuietInv`, since an edit's event needs a text as its
  target.
* `DeparturesAreQuiet`: `QuietAfterLeaving`, with the line of the departure as
  the witness that everything after it is the system's own.
* `FramesAreHonest`: `FramesFollowRows`. A row only moves on, to a revision
  beyond the counter; so a frame that waits can be overtaken but not belied.

All of them rest on one lemma, `JournalStep`: on the counter and the rows a
step appends one row, rewrites one row, erases a set of rows on the block of
positions that follows, or changes nothing. The block needs the three `Rank`
lemmas: ranks number a set of ids from one to its size, increase, and leave no
gap.

`ParticipantProofs`, of presence, assumes only what the module assumes of its constants (finitely
many sockets, the boot check's windows) and proves

* `GhostsAlwaysFade`, with failures and crashes: the invariant `LeaseInv` says
  that neither the row's deadline nor the announced one lies beyond what is left
  of a lease counted from the last moment a socket was there;
* `CounterCoversTabs`, if `MayFail` is false: `CountInv` says that a socket is
  recorded exactly between its increment and its decrement, and that its row
  exists, so that a decrement always finds its own increment.

Of the markers, `ParticipantProofs` proves `MarkersWellTyped`, `MarkersNeverReturn`,
`NoMessageIsBornRead` and `TheRetiredStayRetired`, for any participants, readers
and bounds. The inductive invariant is `TypeOK` with `DraftIsNext` (the transaction under the
lock creates the message that follows the last position) and `ReadIsKnown` (a
read marker lies at or below what was issued, or was named ahead), so the new
message's seq lies beyond every marker but one that was put there before. What left a
badge stays off it because rows only age (`RowsOnlyAge`: a row keeps its place,
its author and its instant, and no deletion is undone) and no marker moves back,
except by a clearing.

`DirectThreadsProofs` is about any finite set of people, any workers, scopes,
subjects and bounds, and a database that keeps the unique constraint on
`direct_key`. `DirectoryInv` is that constraint as the rows have it: the key is
made of what the row holds, and no two live rows share one. `RequestOK` says
what a request has seen by the place where it stands (*absent* before it asks,
*free* before it creates). It speaks of the request's own history alone, so no
step of anybody else can disturb it; that is why checks made before a
transaction can still justify what the transaction does. From it follow
`PairsHaveOneThread`, `RefusalsAreDeserved`, `BlocksHold` and the refinement
`DirectoryRefinement`.

`SupportProofs` is about any operators and finitely many workers (lines that are
owed are counted by worker). `Knows` is, again, what a request has seen;
`HolderInv` says that the operator was the last to be announced, sits unless
the account is going, and is mandated unless that was revoked; `LinesInv` that each move is told, owed by a worker, or
lost with one, and that as long as the history is not blurred the lines are the
moves but for the one that is owed. `TheThreadTellsItsStory` and
`TheQueueSeesAll` follow from these; `FirstComeIsFirst` and `AuthorityIsFirst`
are action properties over the same invariant.

`CdnClaimsProofs` is about any senders, workers, media and attachments, any
number of failures and backfills. It assumes that attachments are well formed.
`EventsInv` says that all
events and claims of a message, wherever they are on their way, name the same
references, those it carries while it is there; `ReleasesInv` that a release
is on the bus only when its message is gone, and that whoever is about to delete
a message holds its release; `KeptInv` that what a live message carries is
claimed, about to be, or recorded in `unclaimed`; `SettledInv` that behind each
claim of a dead message stands a release, or `stuck` names it. A step of a worker
is one of six moves (`Moves`: it starts, ends, stores, drops, publishes, or
loses something), and each part of the invariant is preserved move by move.

`InOrder` numbers a set of messages in the order of their positions;
`InOrderHasAll` proves that it leaves none out, by counting.

`AccountsProofs` is about any accounts, any rooms, any histories and bounds. Of a
history it assumes what the database keeps (the unique constraints on
`direct_key` and on a message's place, the message's conversation) and that only
the pair it was opened for sits in a direct thread (`HistoriesAssumption`).
`PlacesInv` and `KeysInv` say that it stays so, but for `stray` threads.
`MergeInv` says what the merge's reads are still worth when it commits: what it
holds is still the guest's, its winners and the seats it moved are still there,
each direct thread it touched is dead, renamed or folded, and what it did not
see of a loser came after it looked. `EraseInv` says that whatever stands and a deletion has
not erased lies in a thread on its list, unless one on its list is gone, in which
case it will fail and be delivered again; that is how an erasure reaches messages
that a merge moves away under it. All steps but the commit are `Gentle`: threads
and messages stay where they are, only threads with fewer than two people go, and
never one the merge has locked or seated. The commit rests on `Folding` (a winner
is not the guest's, and wins one thread, since two pairs of the guest are not
carried to one), `SeatsAfterAre` and `FoldedPlaces` (folded messages are counted
behind the winner's last).

`ChatStreamProofs` is about any number of positions, any window and any number of
connections. `FrameOK` says what a frame still tells, however late it comes:
nothing newer than its row, of the row's own revision what the row is or the edit
written over it (`Says`), and nothing visible stands between the position it
follows and its own. It holds of a live frame because the counter hands out one
position at a time, and of a replay frame because a page leaves out no missed row
before one it has (`PageFollowsJournal`, by counting: `PlacesAreTaken`). `SoundInv`
then says that the device holds all that is visible up to `sound`, whichever
frames were lost, overtaken or cut off; that is `TheCursorIsHonest`. `LiveInv`
adds, for a device that was answered, what is still on the wire: the last frame of
each row tells the row as it stands, and no stale frame can follow it, since the
socket sends nothing at or below the highest position it sent. When the wire is
empty that is `TheAnsweredAreComplete`. `StreamRefinement` is the refinement of
`RevisionJournal`: the journal the sockets resume from is the one
`JournalRefinement` has of the service.

From `RevisionJournal` alone, and so of whatever implements it, the same module
proves `PositionsAreIssuedOnce` (no position is given to two rows) and
`ACursorLosesNothing`: whoever held all rows at one head finds all that was
created or changed since above it, after however many transactions.

`InboxProofs` is about any finite set of threads, any names, titles and labels, any
lists that are asked for, any page size and limits and any number of moves. Of what
threads hold at the start it assumes what the services and the database keep
(`PriorAssumption`): a message that is not deleted, and every system line, says
something; a thread whose counter is zero has no messages; and, which is the
module's abstraction, no two threads moved, or were left, at one instant. Its
results rest on `InOrderSorts`, which says by counting that `InOrder` lists a set,
each element once, in the order of its places: a page is what stands next behind
the anchor (`PageIsNewest`), and a row names each type of file once
(`TypesAreToldOnce`).

* `ListAndDetailAgree` is `RowsTellTheLine`: the two reads select the newest of the
  same rows (`NewestIsOne`, `LineIsMeant`), because a thread that never allocated a
  position has none.
* `SearchFindsWhatRowsDraw` is `FoundIsDrawn`. Its first half holds of any message
  that says something (`FoundIffDrawn`: SQL and Python agree on what a line says).
  The second needs `CardsInv`, that a title matched by the scan is of a card the
  request still knows when it draws, and `FoundInv`, that a row keeps the reason it
  was found for from the `SELECT` to the answer, whatever moves in between.
* `PagesMissNothing` is `WalkIsFaithful`, the hardest. Pages go to ever older
  instants, and a thread that moves takes a new one. So what the walk has served
  stays on the near side of its anchor (`BehindInv`), or is off the list of left
  threads, to come back only with a new instant; hence nothing twice (`NoTwice`).
  A thread nothing happened to stays where it was: if it is on the list and shows
  the word, the walk has it or it still lies beyond the anchor (`CompleteInv`), and
  the walk has no other of them (`SteadyInv`). When a page says there is no more,
  nothing lies beyond. `Moved` says what an operation on one thread may change,
  `StillListed` that another thread keeps its place, its line and its badge.

Only model-checked: the liveness (`StayersAreSeen`, `DeliveriesComplete`), which
is beyond the prover. Every safety property of the passing runs has its theorem.
All inductive invariants were checked with TLC before they were proved.

## Where the code and its own words part

Two have a run and a finding in `PROJECT.json` that quotes the line: the edit
that writes into a tombstone (`journal_tombstones`) and the direct thread of one
person (`accounts_dead_threads`). The others are visible in the models, most of
them as the exception a property has to make:

* `services.py:1020-1039`: the frame of an edit that was overtaken by a deletion
  is made of the instance its caller loaded: it tells the devices, at the newest
  position, that the message is live, while a replay of the same position brings
  the tombstone (`over` in `ChatStream`).
* `services.py:1062`: two deletions of one message both pass the check on the
  loaded row, and both commit and emit (`ChatJournal`).
* `services.py:703`: the frame of one position is lost, that of the next moves
  the cursor past it, and no replay brings the first (`sound` in `ChatStream`).
* `services.py:1732`: a replay leaves out the tombstone of a cleared message, so
  a device that was not told of the clearing keeps the words.
* `services.py:933`: a clearing writes the clock it read before its
  transaction: the mark can move back (`RetiredStaysRetired`, `hidden` in
  `ChatStream`). `services.py:978`: a message stamped before a mark and committed
  after it is hidden from the reader who cleared and never saw it.
* `consumers.py:254-264`, `services.py:1201-1203`, `services.py:1218-1220`:
  nothing bounds a named position above: messages that come to stand at or below
  it are born read and delivered (`ahead` in `ReadMarkers`).
* `services.py:640`: `seq` is not gapless once anything was edited, because edits
  draw from the counter that numbers messages.
* `presence.py:232`, `presence.py:262`: a closing tab refreshes `last_seen_at`,
  by which the throttle of the others is judged: their lease may lapse under an
  open socket until the next touch. `consumers.py:347-351`: a socket whose
  connect failed is decremented all the same.
* `views.py:989`: a worker killed between the two statements of `POST read`, or
  a read frame of the socket, leaves the delivery marker behind the read one.
* `actions.py:249`: a message posted into the losing thread after its messages
  were read is deleted with it; only the winner is locked (`NothingIsLost`).
  `actions.py:175`: the survivor's marker is read, folded and saved: a read in
  between is lost. `actions.py:95`: a thread the guest comes into after the
  touched ones were listed moves its seat and keeps the key of the absorbed
  account (`stray`).
* `services.py:1122`, `services.py:1132`: an erasure passes over what is deleted
  already. A tombstone its author made keeps `sender_id`, where `gdpr.py:8-9` has
  the sender detached from all they wrote, and a tombstone over which an edit
  wrote keeps that text (`ErasureReaches`).
* `services.py:478`: the block check precedes the look-up of the
  `client_msg_id`: the retry of a send that was stored is refused if a block
  came in between, where the docstring says the same id returns the first row.
* `views.py:618`: a thread that is removed before it is rendered fails the
  request that opened it.
* `views.py:1140`: an operator whose mandate is revoked keeps the thread and can
  neither resolve nor reopen it; it is not in the queue (`services.py:1746-1754`)
  and nobody else can claim it (`services.py:1769`) (`NobodyWaitsUnseen`).
* `services.py:1789`: a worker that dies after an assignment leaves it without
  its line, and a repeated claim posts none. `services.py:1804`: a resolution
  and a reopening that overlap can tell their lines in the other order.
* `services.py:143`: a claim lost in a crash is missing until a backfill.
  `services.py:1094`: a claim published after its release stays.
  `cdn_refs_backfill.py:50`: so does one for a row that was emptied since it
  was read; and `limit` (`cdn_refs_backfill.py:37-38`, "for running the pass in
  slices on a large table") always begins with the same rows. A message posted
  between the reading of the claims and the deletion of the conversation keeps
  its claim (`services.py:172`).
* `services.py:1350-1367`: a search finds words beyond the cut of the preview, a
  label whose marker another one extends, and does not find drawn words whose
  author's account is gone. The participants of a page are read after its rows,
  so `cleared_at` can be newer than the line beside it.

## Not modelled

* Of the journal: the edit window, replies, attachments (which `CdnClaims` has),
  and `updated_at` outside `Inbox`. Of the stream: revocation, the
  inbox stream, typing and other ephemeral signals, which carry no state.
* The description of attachments by the CDN (`attachments.py:282-355`): it merges
  what one call answered and concerns nothing that a second actor could change.
* Moderation, activity, and the registries of attachments and subjects are pure
  functions of settings; the parts that decide something are operators of
  `CdnClaims`, `Inbox` and `DirectThreads`.
* Serializers, DTOs, routing, admin, the system checks, migrations and code
  generation describe or validate and have no behaviour in time.
* `gdpr.export` is a read.

## Plan

The plan this project was built along was: the journal and what it promises
(`RevisionJournal`), presence, the stream, the markers; then the operations that
cross threads (direct threads, the desk, accounts, CDN claims) and the inbox; then
a theorem for every safety property. It is carried out. What is left is upkeep:
when a handler changes, its action changes with it (the `map` of `PROJECT.json`
names the lines), the run of its module is repeated, and the step of its action in
the invariant's proof is proved again. Two extensions would pay: the live frames of
a revocation, which `ChatStream` leaves out, and a bus between services and the CDN
that delivers out of order, which `CdnClaims` does not allow.
