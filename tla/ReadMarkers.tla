------------------------------ MODULE ReadMarkers ------------------------------
(***************************************************************************)
(* What one conversation has waiting for each of its participants: the read*)
(* and delivery markers, the mark of a cleared history, and the unread     *)
(* badge computed from them.                                               *)
(*                                                                         *)
(* Markers are positions of the one counter that numbers messages and      *)
(* revisions; a cleared mark is an instant.  The clock counts the messages *)
(* created, which is all that a comparison with created_at can tell.       *)
(***************************************************************************)
EXTENDS Integers, Sequences, FiniteSetsExt

CONSTANTS
    Users,      \* the participants
    NoUser,     \* the sender of a system line
    Readers,    \* bound: the participants who move their markers
    MaxSeq,     \* bound: no position is issued beyond it
    MaxNamed,   \* bound: positions named by clients
    MaxClock,   \* bound: messages created, those of rolled back sends included
    MaxReads,   \* bound: POST read requests between their two statements
    MaxClears   \* bound: POST clear requests under way

ASSUME UsersAssumption == NoUser \notin Users /\ Readers \subseteq Users
ASSUME BoundsAssumption == {MaxSeq, MaxNamed, MaxClock, MaxReads, MaxClears} \subseteq Nat

VARIABLES
    rows,       \* committed messages: [seq, at, author, deleted]
    lastSeq,    \* Conversation.last_seq
    clock,      \* the present instant
    draft,      \* the message of the transaction that holds the lock, if any
    read,       \* last_read_seq of each participant
    delivered,  \* last_delivered_seq
    cleared,    \* cleared_at; 0 is before every message
    marking,    \* POST read requests that have yet to move the delivery marker
    clearing,   \* POST clear requests that have read the clock
    ahead       \* history: the furthest position, of those not issued yet, that a
                \* read of each participant named

journal == <<rows, lastSeq, clock, draft>>
markers == <<read, delivered>>
vars    == <<rows, lastSeq, clock, draft, read, delivered, cleared, marking, clearing,
             ahead>>

Position == 0 .. MaxSeq
Named    == 0 .. MaxNamed
Instant  == 0 .. MaxClock
Message  == [seq : Position, at : Instant, author : Users \cup {NoUser}, deleted : BOOLEAN]

(***************************************************************************)
(* Mistakes the properties at the end must notice.                         *)
(***************************************************************************)
\* Messages are numbered by themselves, apart from the revisions.
PlaceInThread == Len(rows) + 1
\* A revision takes its message to the end of the thread.
MovedToEnd(r, gone) == [r EXCEPT !.seq = lastSeq + 1, !.deleted = @ \/ gone]
\* A marker goes where it is told.
Overwritten(marker, u, upto) == [marker EXCEPT ![u] = upto]
\* A marker goes past what was named.
Overshot(marker, u, upto) == [marker EXCEPT ![u] = upto + 1]

(***************************************************************************)
(* What a participant is served.                                           *)
(***************************************************************************)
\* visible_messages, with the floor of those who never cleared.
Visible(u) == {i \in DOMAIN rows : rows[i].at > cleared[u]}

\* unread_count, and _unread_rows for a page.
Unread(u) ==
    {i \in Visible(u) : /\ rows[i].seq > read[u]
                        /\ rows[i].author \notin {u, NoUser}
                        /\ ~rows[i].deleted}

(***************************************************************************)
(* Writers, one at a time: the conversation row is locked.                 *)
(***************************************************************************)
NextSeq == lastSeq + 1

\* The row is inserted, and stamped with created_at, under the lock.
Create(author) ==
    /\ draft = <<>>
    /\ lastSeq < MaxSeq /\ clock < MaxClock
    /\ clock' = clock + 1
    /\ draft' = <<[seq |-> NextSeq, at |-> clock + 1, author |-> author, deleted |-> FALSE]>>
    /\ UNCHANGED <<rows, lastSeq, markers, cleared, marking, clearing, ahead>>

Commit ==
    /\ draft # <<>>
    /\ rows' = rows \o draft
    /\ lastSeq' = lastSeq + 1
    /\ draft' = <<>>
    /\ UNCHANGED <<clock, markers, cleared, marking, clearing, ahead>>

\* The transaction is rolled back, or its worker dies.
Abort ==
    /\ draft # <<>>
    /\ draft' = <<>>
    /\ UNCHANGED <<rows, lastSeq, clock, markers, cleared, marking, clearing, ahead>>

\* An edit or a deletion takes a position for rev_seq; seq and created_at stay.  The
\* message was judged before the lock, so one deleted since may be edited or deleted
\* again; an edit leaves deleted_at as it is.
RevisedRow(r, gone) == [r EXCEPT !.deleted = @ \/ gone]

Revise(i, gone) ==
    /\ draft = <<>>
    /\ lastSeq < MaxSeq
    /\ rows' = [rows EXCEPT ![i] = RevisedRow(@, gone)]
    /\ lastSeq' = lastSeq + 1
    /\ UNCHANGED <<clock, draft, markers, cleared, marking, clearing, ahead>>

(***************************************************************************)
(* Markers.  A client should name a position it was given, the seq of a    *)
(* message or of an envelope it holds; the code takes any.                 *)
(***************************************************************************)
\* UPDATE ... WHERE marker < upto.
Advanced(marker, u, upto) == [marker EXCEPT ![u] = Max({@, upto})]

\* A read implies delivery.
DeliveredUpto(upto, held) == Max({upto, held})

\* The furthest position that was named before it was issued.
AheadOf(u, upto) ==
    IF upto > lastSeq THEN [ahead EXCEPT ![u] = Max({@, upto})] ELSE ahead

\* POST read: the read marker first, the delivery marker in a second statement.
PostRead(u, upto, held) ==
    /\ Cardinality(marking) < MaxReads
    /\ read' = Advanced(read, u, upto)
    /\ ahead' = AheadOf(u, upto)
    /\ marking' = marking \cup {[user |-> u, upto |-> DeliveredUpto(upto, held)]}
    /\ UNCHANGED <<journal, delivered, cleared, clearing>>

FinishRead(c) ==
    /\ delivered' = Advanced(delivered, c.user, c.upto)
    /\ marking' = marking \ {c}
    /\ UNCHANGED <<journal, read, cleared, clearing, ahead>>

\* The worker dies between the two.
CrashRead(c) ==
    /\ marking' = marking \ {c}
    /\ UNCHANGED <<journal, markers, cleared, clearing, ahead>>

\* The frames of the socket move one marker each.
FrameRead(u, upto) ==
    /\ read' = Advanced(read, u, upto)
    /\ ahead' = AheadOf(u, upto)
    /\ UNCHANGED <<journal, delivered, cleared, marking, clearing>>

FrameDelivered(u, upto) ==
    /\ delivered' = Advanced(delivered, u, upto)
    /\ UNCHANGED <<journal, read, cleared, marking, clearing, ahead>>

(***************************************************************************)
(* Clearing: the clock is read before the transaction.                     *)
(***************************************************************************)
BeginClear(u) ==
    /\ Cardinality(clearing) < MaxClears
    /\ clearing' = clearing \cup {[user |-> u, at |-> clock]}
    /\ UNCHANGED <<journal, markers, cleared, marking, ahead>>

CommitClear(c) ==
    /\ cleared' = [cleared EXCEPT ![c.user] = c.at]
    /\ clearing' = clearing \ {c}
    /\ UNCHANGED <<journal, markers, marking, ahead>>

CrashClear(c) ==
    /\ clearing' = clearing \ {c}
    /\ UNCHANGED <<journal, markers, cleared, marking, ahead>>

(***************************************************************************)
(* The specification.                                                      *)
(***************************************************************************)
Init ==
    /\ rows = <<>> /\ lastSeq = 0 /\ clock = 0 /\ draft = <<>>
    /\ read = [u \in Users |-> 0]
    /\ delivered = [u \in Users |-> 0]
    /\ cleared = [u \in Users |-> 0]
    /\ marking = {} /\ clearing = {}
    /\ ahead = [u \in Users |-> 0]

Next ==
    \/ \E author \in Users \cup {NoUser} : Create(author)
    \/ Commit \/ Abort
    \/ \E i \in DOMAIN rows, gone \in BOOLEAN : Revise(i, gone)
    \/ \E u \in Readers, upto \in Named :
          \/ \E held \in Named : PostRead(u, upto, held)
          \/ FrameRead(u, upto)
          \/ FrameDelivered(u, upto)
    \/ \E c \in marking : FinishRead(c) \/ CrashRead(c)
    \/ \E u \in Readers : BeginClear(u)
    \/ \E c \in clearing : CommitClear(c) \/ CrashClear(c)

Spec == Init /\ [][Next]_vars

(***************************************************************************)
(* Properties.                                                             *)
(***************************************************************************)
TypeOK ==
    /\ rows \in Seq(Message)
    /\ lastSeq \in Position
    /\ clock \in Instant
    /\ draft = <<>> \/ \E m \in Message : draft = <<m>>
    /\ read \in [Users -> Named]
    /\ delivered \in [Users -> Named]
    /\ cleared \in [Users -> 0 .. clock]
    /\ marking \subseteq [user : Users, upto : Named]
    /\ clearing \subseteq [user : Users, at : 0 .. clock]
    /\ ahead \in [Users -> Named]

(***************************************************************************)
(* Markers only move forward, whatever older positions other tabs, slower  *)
(* requests and retries name after newer ones.                             *)
(***************************************************************************)
MarkersMoveForward ==
    [][\A u \in Users : read[u] <= read'[u] /\ delivered[u] <= delivered'[u]]_vars

(***************************************************************************)
(* No message is born read.  Whatever positions of the journal a           *)
(* participant named, those of revisions included, a message of somebody   *)
(* else raises their badge when it commits, unless they asked to clear     *)
(* their history after it was created, or a read of theirs had named the   *)
(* message's position, or one beyond it, before it was issued (mark_read   *)
(* has no upper bound).  Past that position the badge counts again.        *)
(***************************************************************************)
NewsRaisesBadge ==
    [][\A i \in DOMAIN rows' \ DOMAIN rows, u \in Users :
          (rows'[i].author \notin {u, NoUser} /\ rows'[i].at > cleared[u]
             /\ rows'[i].seq > ahead[u]) => i \in Unread(u)']_vars

(***************************************************************************)
(* What left the badge does not come back.  A message once read, deleted   *)
(* or cleared is not counted again: no edit, no late request and no retry  *)
(* brings it back, but for a clearing that was asked for earlier and is    *)
(* written later.                                                          *)
(***************************************************************************)
RetiredStaysRetired ==
    [][\A u \in Users : \A i \in DOMAIN rows :
          i \in Unread(u)' => i \in Unread(u) \/ cleared'[u] < cleared[u]]_vars
===============================================================================
