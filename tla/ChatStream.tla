------------------------------ MODULE ChatStream ------------------------------
(***************************************************************************)
(* One participant's device on a conversation stream: what the conversation*)
(* socket replays and forwards, and the copy the device keeps by the client*)
(* loop of the documentation.                                              *)
(*                                                                         *)
(* Writers are the transactions ChatJournal models: each takes the next    *)
(* position of the counter for one row, and leaves a live frame that runs  *)
(* after the commit, at any time, or never.  A row's content is named by   *)
(* the position it was written at.  The socket's protocol (join, hello,    *)
(* welcome, replay, resync, one handler at a time, no frame below the      *)
(* highest one sent) is the substrate's, as this package uses it.          *)
(***************************************************************************)
EXTENDS Integers, Sequences, FiniteSets, FiniteSetsExt

CONSTANTS
    MaxSeq,     \* bound: no position is issued beyond it
    Window,     \* MAX_REPLAY, the widest gap the socket replays
    MaxDrops    \* bound: connections the device opens

ASSUME BoundsAssumption == MaxSeq \in Nat /\ Window \in Nat \ {0} /\ MaxDrops \in Nat

VARIABLES
    rows,       \* rows[i] = [rev, gone, over]: the messages in the order of seq; `over'
                \* marks a tombstone that an edit was written over since
    lastSeq,    \* Conversation.last_seq
    pushes,     \* frames of committed transactions that have not gone out
    cleared,    \* the participant's mark: messages up to this one are hidden
    hidden,     \* history: the furthest mark ever set
    sock,       \* the socket: "off", "joined", "mark", "rows", "live", "resync"
    asked,      \* last_seq of the hello it was sent
    serverSeq,  \* the last_seq it read for that hello
    mark,       \* the cleared mark it read for that hello
    high,       \* the highest position it sent on this connection
    wire,       \* frames on their way to the device, in order
    cache,      \* cache[i]: the revision of message i the device holds, or None
    cursor,     \* the highest envelope seq the device received
    opened,     \* how many connections it opened
    upTo,       \* history: the position this connection's replay reached
    sound       \* history: the position up to which no frame was missed

journal == <<rows, lastSeq, pushes>>
socket  == <<sock, asked, serverSeq, mark, high>>
marks   == <<cleared, hidden>>
device  == <<cache, cursor, opened>>
vars    == <<rows, lastSeq, pushes, cleared, hidden, sock, asked, serverSeq, mark, high,
             wire, cache, cursor, opened, upTo, sound>>

None == 0       \* not held, or purged
Later(a, b) == Max({a, b})

(***************************************************************************)
(* Mistakes the properties at the end must notice.                         *)
(***************************************************************************)
\* The replay is anchored on the place in the thread.
MissedByPlace(after, upto) ==
    {i \in DOMAIN rows : i > after /\ i > upto}
\* The replay follows the thread and not the journal.
ThreadOrder(i, j) == i < j
\* A change takes the place that was issued last.
SamePlace == lastSeq

(***************************************************************************)
(* The journal.                                                            *)
(***************************************************************************)
NextRev == lastSeq + 1

\* What a device should hold of a row: its newest revision, or nothing.
Shown(r) == IF r.gone THEN None ELSE r.rev

\* A frame: row id as of position rev, the successor of position after.
Frame(id, rev, gone, after) == [id |-> id, rev |-> rev, gone |-> gone, after |-> after]

\* A transaction writes row i.  Its frame is of the instance it holds, and an
\* instance that was loaded before the tombstone does not know of it.
Write(i, gone, over) ==
    LET r == [rev |-> NextRev, gone |-> gone, over |-> over] IN
    /\ lastSeq < MaxSeq
    /\ lastSeq' = lastSeq + 1
    /\ rows' = IF i > Len(rows) THEN Append(rows, r) ELSE [rows EXCEPT ![i] = r]
    /\ pushes' = pushes \cup {Frame(i, r.rev, gone /\ ~over, lastSeq)}
    /\ UNCHANGED <<marks, socket, wire, device, upTo, sound>>

Post == Write(Len(rows) + 1, FALSE, FALSE)

\* The message is judged as the request loaded it, which may be long before the
\* lock: an edit of a message deleted since commits all the same, and leaves the
\* row a tombstone.
Edit(i) == i \in DOMAIN rows /\ Write(i, rows[i].gone, rows[i].gone)

\* Judged as loaded, too: of two deletions both commit.
Delete(i) == i \in DOMAIN rows /\ Write(i, TRUE, FALSE)

\* clear_conversation, from any device of the participant.  The clock was read at
\* some time before, when m messages had been stamped, one of them perhaps by a
\* transaction under way; whatever mark stood there is overwritten.
Clear(m) ==
    /\ cleared' = m
    /\ hidden' = Later(hidden, m)
    /\ UNCHANGED <<journal, socket, wire, device, upTo, sound>>

(***************************************************************************)
(* Live frames.  broadcast_message runs after the commit, for whoever is   *)
(* subscribed; a handler of the socket that is running finishes first.     *)
(***************************************************************************)
Deliver(f) ==
    /\ f \in pushes
    /\ sock \notin {"mark", "rows"}
    /\ pushes' = pushes \ {f}
    /\ IF sock # "off" /\ f.rev > high
       THEN wire' = Append(wire, f) /\ high' = f.rev
       ELSE UNCHANGED <<wire, high>>
    /\ UNCHANGED <<rows, lastSeq, marks, sock, asked, serverSeq, mark, device,
                   upTo, sound>>

\* The worker dies first, or the channel layer is down: best effort.
Lose(f) ==
    /\ f \in pushes
    /\ pushes' = pushes \ {f}
    /\ UNCHANGED <<rows, lastSeq, marks, socket, wire, device, upTo, sound>>

(***************************************************************************)
(* The socket answers a hello: three reads of the database.                *)
(***************************************************************************)
\* get_server_seq: a gap wider than the window is not replayed.
ReadServerSeq ==
    /\ sock = "joined"
    /\ serverSeq' = lastSeq
    /\ sock' = IF lastSeq - asked > Window THEN "resync" ELSE "mark"
    /\ UNCHANGED <<journal, marks, asked, mark, high, wire, device, upTo, sound>>

\* cleared_at_of, for this subscriber.
ReadMark ==
    /\ sock = "mark"
    /\ mark' = cleared
    /\ sock' = "rows"
    /\ UNCHANGED <<journal, marks, asked, serverSeq, high, wire, device, upTo, sound>>

\* journal_rows: changed since `after', created since the mark.
Missed(after, upto) == {i \in DOMAIN rows : rows[i].rev > after /\ i > upto}

\* order_by("rev_seq").
Before(i, j) == rows[i].rev < rows[j].rev

\* [:limit]: the k-th row of a page has k - 1 rows of the journal before it.
Page(after, upto) ==
    LET ids == Missed(after, upto)
    IN  [k \in 1 .. Min({Window, Cardinality(ids)}) |->
            CHOOSE i \in ids : Cardinality({j \in ids : Before(j, i)}) = k - 1]

\* The position the k-th replay frame follows.
Prev(ids, k) == IF k = 1 THEN asked ELSE rows[ids[k - 1]].rev

\* replay_done: a page that left nothing out reaches the head of the journal.
Done(ids) ==
    LET last == Prev(ids, Len(ids) + 1)
    IN  [id |-> None, gone |-> FALSE, after |-> last,
         rev |-> IF Len(ids) = Cardinality(Missed(asked, mark)) THEN lastSeq ELSE last]

\* The replay frames and the replay_done after them.
Replay(ids) ==
    Append([k \in 1 .. Len(ids) |-> LET r == rows[ids[k]]
                                   IN  Frame(ids[k], r.rev, r.gone, Prev(ids, k))],
           Done(ids))

ReadRows ==
    LET ids == Page(asked, mark) IN
    /\ sock = "rows"
    /\ sock' = "live"
    /\ wire' = wire \o Replay(ids)
    /\ high' = Max({high, asked} \cup {rows[ids[k]].rev : k \in DOMAIN ids})
    /\ upTo' = Done(ids).rev
    /\ serverSeq' = 0 /\ mark' = 0
    /\ UNCHANGED <<journal, marks, asked, device, sound>>

(***************************************************************************)
(* The device: the client loop.                                            *)
(***************************************************************************)
\* Open the socket and say hello with the highest envelope seq held.
Connect ==
    /\ sock = "off"
    /\ opened < MaxDrops
    /\ opened' = opened + 1
    /\ sock' = "joined"
    /\ asked' = cursor
    /\ UNCHANGED <<journal, marks, serverSeq, mark, high, wire, cache, cursor,
                   upTo, sound>>

\* The connection ends; what was on its way is lost.
Disconnect ==
    /\ sock # "off"
    /\ sock' = "off"
    /\ asked' = 0 /\ serverSeq' = 0 /\ mark' = 0 /\ high' = 0 /\ upTo' = 0
    /\ wire' = <<>>
    /\ UNCHANGED <<journal, marks, device, sound>>

\* replay and live: upsert by message_id, store the envelope's seq; a deleted
\* payload purges.
Receive ==
    LET f == Head(wire) IN
    /\ wire # <<>>
    /\ wire' = Tail(wire)
    /\ IF f.id = None
       THEN UNCHANGED <<cache, cursor>>
       ELSE /\ cache'  = [cache EXCEPT ![f.id] = Shown(f)]
            /\ cursor' = Later(cursor, f.rev)
    /\ sound' = IF f.after <= sound
                THEN IF f.rev > sound \/ f.id = None THEN Later(sound, f.rev) ELSE f.after
                ELSE sound
    /\ UNCHANGED <<journal, marks, socket, opened, upTo>>

\* resync: page the history over REST, and hello again from there.
Rehydrate ==
    /\ sock = "resync"
    /\ wire = <<>>
    /\ cache'  = [i \in DOMAIN cache |->
                     IF i \in DOMAIN rows /\ i > cleared THEN Shown(rows[i]) ELSE None]
    /\ cursor' = serverSeq
    /\ sound'  = serverSeq
    /\ asked'  = serverSeq
    /\ sock'   = "joined"
    /\ serverSeq' = 0
    /\ UNCHANGED <<journal, marks, mark, high, wire, opened, upTo>>

\* chat.conversation.cleared of some call, if it comes, and whenever it comes: drop
\* the bubbles held up to the mark that call set.
DropHistory(m) ==
    /\ cache' = [i \in DOMAIN cache |-> IF i > m THEN cache[i] ELSE None]
    /\ UNCHANGED <<journal, marks, socket, wire, cursor, opened, upTo, sound>>

(***************************************************************************)
(* The specification.                                                      *)
(***************************************************************************)
Init ==
    /\ rows = <<>> /\ lastSeq = 0 /\ pushes = {}
    /\ cleared = 0 /\ hidden = 0
    /\ sock = "off" /\ asked = 0 /\ serverSeq = 0 /\ mark = 0 /\ high = 0
    /\ wire = <<>>
    /\ cache = [i \in 1 .. MaxSeq |-> None]
    /\ cursor = 0 /\ opened = 0
    /\ upTo = 0 /\ sound = 0

Next ==
    \/ Post
    \/ \E m \in 0 .. Len(rows) + 1 : Clear(m)
    \/ \E i \in DOMAIN rows : Edit(i) \/ Delete(i)
    \/ \E f \in pushes : Deliver(f) \/ Lose(f)
    \/ ReadServerSeq \/ ReadMark \/ ReadRows
    \/ Connect \/ Disconnect \/ Receive \/ Rehydrate
    \/ \E m \in 1 .. hidden : DropHistory(m)

Spec == Init /\ [][Next]_vars

(***************************************************************************)
(* Properties.                                                             *)
(***************************************************************************)
\* The messages no mark of the participant ever covered.
Visible == {i \in DOMAIN rows : i > hidden}

\* The device holds what row i shows, or the edit that was written over its tombstone.
Holds(i) ==
    \/ cache[i] = Shown(rows[i])
    \/ rows[i].over /\ cache[i] = rows[i].rev

(***************************************************************************)
(* Resuming is enough.  However replays are cut off by lost connections,   *)
(* limited by the window, overtaken by writes or replaced by a resync, a   *)
(* device whose cursor skipped no frame holds every message the reader     *)
(* never cleared as it stands, up to that cursor.  It may be wrong of one  *)
(* thing only: a message whose last change is a late edit of a deleted     *)
(* message (edit_message checks before it locks) it may show as live.      *)
(***************************************************************************)
CursorIsHonest ==
    cursor <= sound => \A i \in Visible : rows[i].rev <= cursor => Holds(i)

(***************************************************************************)
(* A first visit is complete.  A device that has just been answered, and   *)
(* had skipped no frame before it asked, holds every message of the thread *)
(* the reader never cleared, if nothing was written since; the same late   *)
(* edit excepted.                                                          *)
(***************************************************************************)
Answered == sock = "live" /\ wire = <<>> /\ upTo = lastSeq

AnsweredIsComplete ==
    Answered /\ asked <= sound => \A i \in Visible : Holds(i)

\* The conversation is the journal its sockets resume from.
Journal == INSTANCE RevisionJournal
           WITH head <- lastSeq, pos <- [i \in DOMAIN rows |-> rows[i].rev]

ImplementsJournal == Journal!JSpec
===============================================================================
