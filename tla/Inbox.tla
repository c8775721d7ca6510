--------------------------------- MODULE Inbox ---------------------------------
(***************************************************************************)
(* One person's list of conversations, and a walk through its pages.       *)
(*                                                                         *)
(* A row draws the newest message its viewer still has, its badge, and the *)
(* card of what the thread is about; a search filters on what rows draw.   *)
(* A request reads three times: the cards a search scans, the page itself, *)
(* then its participants and the cards still missing.  Meanwhile the       *)
(* threads move.  Pages are anchored on the last activity of a thread, or, *)
(* on the list of left threads, on when the viewer left.                   *)
(***************************************************************************)
EXTENDS Integers, Sequences, FiniteSets, SequencesExt

CONSTANTS
    Threads,
    Words,        \* what lines, labels and the types of files are written in
    Names,        \* Names[t]: the words of the counterpart's name
    SubjectOf,    \* SubjectOf[t]: what t is about, or NoSubject
    Titles,       \* Titles[s]: the words of the subject's card
    NoSubject,
    Labels,       \* SYSTEM_LINE_LABELS: from markers to words
    Walks,        \* the lists that are asked for: [left, unread, needle]
    NoNeedle,
    Says,         \* messages that are posted: [sender, kind, body, atts]
    Edits,        \* bodies that messages are changed to
    Prior,        \* what the threads may hold at the start
    PageSize, ScanLimit, PreviewWords,
    MaxMoves      \* bound: what happens to the threads in a walk

Nobody == "nobody"

\* A message: its words, and the types of its files.
Message ==
    [seq : Nat, sender : {"viewer", "other", Nobody}, kind : {"text", "system"},
     body : Seq(Words), atts : Seq(Words), deleted : BOOLEAN, at : Nat \ {0}]

\* The rule of an empty message, and the second wall of post_system_message.
SaysSomething(m) ==
    /\ m.kind = "system" => m.sender = Nobody /\ m.body # <<>>
    /\ m.kind = "text" => m.body # <<>> \/ m.atts # <<>>

ASSUME BoundsAssumption == {PageSize, ScanLimit, PreviewWords, MaxMoves} \subseteq Nat \ {0}
ASSUME ThreadsAssumption == IsFiniteSet(Threads)
ASSUME WalksAssumption == \A w \in Walks : {w.left, w.unread} \subseteq BOOLEAN
ASSUME WordsAssumption ==
    /\ {"left", "who"} \subseteq Words
    /\ \A marker \in DOMAIN Labels : Labels[marker] \in Seq(Words)
    /\ Edits \subseteq Seq(Words) \ {<<>>}
    /\ Says \subseteq [sender : {"viewer", "other", Nobody}, kind : {"text", "system"},
                      body : Seq(Words), atts : Seq(Words)]
    /\ \A m \in Says : SaysSomething(m)

\* Instants are told apart: two threads do not move, nor are left, in the same one.
Distinct(time) == \A t, u \in Threads : time[t] = time[u] => t = u \/ time[t] = 0
ASSUME PriorAssumption ==
    \A p \in Prior :
       /\ p.msgs \in [Threads -> Seq(Message)] /\ p.lastSeq \in [Threads -> Nat]
       /\ p.now \in Nat /\ p.updated \in [Threads -> 1 .. p.now]
       /\ p.member \in [Threads -> [left : 0 .. p.now, cleared : Nat, read : Nat]]
       /\ Distinct(p.updated) /\ Distinct([t \in Threads |-> p.member[t].left])
       /\ \A t \in Threads :
             /\ p.lastSeq[t] = 0 => p.msgs[t] = <<>>
             /\ \A i \in DOMAIN p.msgs[t] :
                   p.msgs[t][i].kind = "system" \/ ~p.msgs[t][i].deleted => SaysSomething(p.msgs[t][i])

VARIABLES
    msgs,       \* msgs[t]: rows in the order of seq: [seq, sender, kind, body, atts, deleted, at]
    lastSeq,    \* lastSeq[t]: the counter that messages and changes share
    updated,    \* updated[t]: when the thread last moved
    member,     \* member[t]: the viewer's row: [left, cleared, read], times or 0
    otherLeft,  \* otherLeft[t]: when the counterpart left, or 0
    now, moves,
    pc, walk,   \* where the walk is, and the list it asks for
    anchor,     \* where the next page starts
    cards,      \* subjects whose cards this request has asked for, and whether they came
    page,       \* the rows of the main SELECT, and whether there are more
    served,     \* the rows the client has
    steady,     \* history: threads that nothing happened to since the walk began
    spared      \* history: cards that did not come or were not scanned

threads == <<msgs, lastSeq, updated, member, otherLeft, now, moves>>
request == <<pc, walk, anchor, cards, page, served, spared>>
vars == <<msgs, lastSeq, updated, member, otherLeft, now, moves,
          pc, walk, anchor, cards, page, served, steady, spared>>

NoLine == [seq |-> 0, sender |-> Nobody, kind |-> "none", body |-> <<>>, atts |-> <<>>,
           deleted |-> FALSE, at |-> 0]

FirstOf(s, n) == SubSeq(s, 1, IF Len(s) < n THEN Len(s) ELSE n)

\* The elements of S in the order of their places.
InOrder(S, place) ==
    [k \in 1 .. Cardinality(S) |->
       CHOOSE x \in S : Cardinality({y \in S : place[y] < place[x]}) = k - 1]

\* visible_messages: what the viewer has not cleared; and the newest by seq of some.
Kept(t) == {i \in DOMAIN msgs[t] : msgs[t][i].at > member[t].cleared}
Newest(t, S) == IF S = {} THEN NoLine ELSE msgs[t][CHOOSE i \in S : \A j \in S : j <= i]

(***************************************************************************)
(* Mistakes the properties at the end must notice.                         *)
(***************************************************************************)
\* Two filters over the participants, so that anybody's row will do.
AnybodyStays(t) == member[t].left = 0 \/ otherLeft[t] = 0
\* The cards of a search are not handed on.
AskAgain(known, ss, came) == [s \in ss |-> came]
\* The row is matched on the counter of the conversation.
ByLastSeq(t) == Newest(t, {i \in Kept(t) : msgs[t][i].seq = lastSeq[t]})

(***************************************************************************)
(* What a row draws.                                                       *)
(***************************************************************************)
\* system_line_label: the exact marker, or else the part before its first colon.
Label(body) ==
    IF body \in DOMAIN Labels THEN Labels[body]
    ELSE IF <<Head(body)>> \in DOMAIN Labels THEN Labels[<<Head(body)>>]
    ELSE <<>>

\* drawn_last_line.
Drawn(m) ==
    IF m.deleted THEN <<>> ELSE IF m.kind = "system" THEN Label(m.body) ELSE m.body

\* preview_of: the first words only.
Preview(m) == FirstOf(Drawn(m), PreviewWords)

\* last_line_reason.
Reason(m) ==
    IF m.deleted THEN "deleted"
    ELSE IF m.kind = "system" THEN IF Label(m.body) = <<>> THEN "system" ELSE ""
    ELSE IF m.body = <<>> /\ m.atts # <<>> THEN "attachment" ELSE ""

\* last_line_attachments: the distinct types in their order, and how many in all.
Marks(m) ==
    IF m.deleted THEN [types |-> <<>>, count |-> 0]
    ELSE LET kinds  == [i \in DOMAIN m.atts |-> IF m.atts[i] = "bare" THEN "file" ELSE m.atts[i]]
             firsts == {i \in DOMAIN kinds : \A j \in 1 .. i - 1 : kinds[j] # kinds[i]}
             order  == InOrder(firsts, [i \in firsts |-> i])
         IN [types |-> [k \in DOMAIN order |-> kinds[order[k]]], count |-> Len(m.atts)]

\* with_last_message: the newest by seq of what the viewer has not cleared.
LastLine(t) == Newest(t, Kept(t))

\* with_viewer_unread: the badge, and what the unread chip asks.
Unread(t) ==
    Cardinality({i \in DOMAIN msgs[t] :
        LET m == msgs[t][i] IN
           m.seq > member[t].read /\ m.at > member[t].cleared /\ m.sender = "other" /\ ~m.deleted})

\* last_message_of and unread_count: the reads of a single conversation.
DetailLine(t) ==
    IF lastSeq[t] = 0 THEN NoLine
    ELSE Newest(t, IF member[t].cleared = 0 THEN DOMAIN msgs[t] ELSE Kept(t))

DetailUnread(t) ==
    Cardinality({i \in Kept(t) :
        LET m == msgs[t][i] IN
           m.seq > member[t].read /\ m.sender \notin {Nobody, "viewer"} /\ ~m.deleted})

(***************************************************************************)
(* What a search finds.                                                    *)
(***************************************************************************)
\* _last_line_q: bodies that somebody wrote, and markers that start with a
\* labelled one.
FoundByLine(m, n) ==
    /\ ~m.deleted
    /\ \/ m.sender # Nobody /\ n \in Range(m.body)
       \/ /\ m.kind = "system"
          /\ \E marker \in DOMAIN Labels : n \in Range(Labels[marker]) /\ IsPrefix(marker, m.body)

\* card_matches, for a card that came.
TitleMatches(s, n) == n \in Range(Titles[s])

(***************************************************************************)
(* The lists: inbox_of, left_of, filter_inbox, in the order of a page.     *)
(***************************************************************************)
Stays(t) == member[t].left = 0

ViewerLeftAt(t) == member[t].left

OnList(t) ==
    /\ IF walk.left THEN ViewerLeftAt(t) # 0 ELSE Stays(t)
    /\ walk.unread => Unread(t) > 0

\* What the pages of this list are anchored on.
Key(t) == IF walk.left THEN ViewerLeftAt(t) ELSE updated[t]

NewestFirst(ts, time) == InOrder(ts, [t \in ts |-> -time[t]])

\* _subject_title_matches reads the newest threads of the list that have a subject.
Cut(ts) == FirstOf(ts, ScanLimit)
WithSubject ==
    NewestFirst({t \in Threads : OnList(t) /\ SubjectOf[t] # NoSubject}, updated)
Scanned == Range(Cut(WithSubject))

\* _search_inbox over the list: by name, by last line, by the cards that came.
Matches(t, ids) ==
    \/ walk.needle = NoNeedle
    \/ walk.needle \in Range(Names[t])
    \/ FoundByLine(LastLine(t), walk.needle)
    \/ t \in ids

Row(t) == [thread |-> t, line |-> LastLine(t), unread |-> Unread(t)]

(***************************************************************************)
(* A request.                                                              *)
(***************************************************************************)
Begin(w) ==
    /\ pc = "start"
    /\ walk' = w
    /\ pc' = IF w.needle = NoNeedle THEN "select" ELSE "scan"
    /\ steady' = Threads
    /\ UNCHANGED <<threads, anchor, cards, page, served, spared>>

\* A search resolves the cards of the newest threads with a subject; the
\* provider answers or it does not.
Scan(came) ==
    /\ pc = "scan"
    /\ cards' = [s \in {SubjectOf[t] : t \in Scanned} |-> came]
    /\ page' = [page EXCEPT !.ids = {t \in Scanned : came /\ TitleMatches(SubjectOf[t], walk.needle)}]
    /\ spared' = (spared \/ ~came \/ Len(WithSubject) > ScanLimit)
    /\ pc' = "select"
    /\ UNCHANGED <<threads, walk, anchor, served, steady>>

\* The main SELECT, with its annotations: one page strictly past the anchor.
Select ==
    LET past == {t \in Threads : OnList(t) /\ Matches(t, page.ids) /\ (anchor # 0 => Key(t) < anchor)}
        list == NewestFirst(past, [t \in past |-> Key(t)])
        rows == FirstOf(list, PageSize)
    IN /\ pc = "select"
       /\ page' = [page EXCEPT !.rows = [i \in DOMAIN rows |-> Row(rows[i])],
                               !.more = Len(list) > PageSize]
       /\ anchor' = IF rows = <<>> THEN anchor ELSE Key(Last(rows))
       /\ pc' = "draw"
       /\ UNCHANGED <<threads, walk, cards, served, steady, spared>>

\* subject_cards_for: what the search has resolved is not asked again.
Known(known, ss, came) == [s \in ss |-> IF s \in DOMAIN known THEN known[s] ELSE came]

\* The participants are read, the cards completed, the page is answered.
Draw(came) ==
    LET ss  == {SubjectOf[page.rows[i].thread] : i \in DOMAIN page.rows} \ {NoSubject}
        all == Known(cards, ss, came)
        Titled(r) == [row |-> r, title |-> SubjectOf[r.thread] \in ss /\ all[SubjectOf[r.thread]]]
    IN /\ pc = "draw"
       /\ served' = served \o [i \in DOMAIN page.rows |-> Titled(page.rows[i])]
       /\ pc' = IF ~page.more THEN "done" ELSE IF walk.needle = NoNeedle THEN "select" ELSE "scan"
       /\ cards' = <<>>
       /\ page' = [rows |-> <<>>, more |-> FALSE, ids |-> {}]
       /\ UNCHANGED <<threads, walk, anchor, steady, spared>>

(***************************************************************************)
(* What happens to the threads meanwhile.                                  *)
(***************************************************************************)
Moving(t) ==
    /\ moves < MaxMoves /\ pc # "done"
    /\ moves' = moves + 1
    /\ now' = now + 1
    /\ steady' = steady \ {t}
    /\ UNCHANGED request

\* _allocate_seq: the next position, and the thread moves to the top.
Bump(t) ==
    /\ lastSeq' = [lastSeq EXCEPT ![t] = @ + 1]
    /\ updated' = [updated EXCEPT ![t] = now + 1]

NewRow(t, m) ==
    [seq |-> lastSeq[t] + 1, sender |-> m.sender, kind |-> m.kind, body |-> m.body,
     atts |-> m.atts, deleted |-> FALSE, at |-> now + 1]

\* post_message: what somebody writes brings the thread back for both.
Say(t, m) ==
    /\ Moving(t) /\ Bump(t)
    /\ msgs' = [msgs EXCEPT ![t] = Append(@, NewRow(t, m))]
    /\ IF m.sender = Nobody THEN UNCHANGED <<member, otherLeft>>
       ELSE /\ member' = [member EXCEPT ![t].left = 0]
            /\ otherLeft' = [otherLeft EXCEPT ![t] = 0]

\* edit_message, its author's.
Edit(t, i, body) ==
    /\ i \in DOMAIN msgs[t]
    /\ ~msgs[t][i].deleted /\ msgs[t][i].kind = "text" /\ msgs[t][i].sender # Nobody
    /\ Moving(t) /\ Bump(t)
    /\ msgs' = [msgs EXCEPT ![t][i].body = body]
    /\ UNCHANGED <<member, otherLeft>>

Tombstone(m) == [m EXCEPT !.body = <<>>, !.atts = <<>>, !.deleted = TRUE]

\* delete_message, its author's.
Withdraw(t, i) ==
    /\ i \in DOMAIN msgs[t]
    /\ ~msgs[t][i].deleted /\ msgs[t][i].sender # Nobody
    /\ Moving(t) /\ Bump(t)
    /\ msgs' = [msgs EXCEPT ![t][i] = Tombstone(@)]
    /\ UNCHANGED <<member, otherLeft>>

\* erase_user_messages, of the counterpart: a block of positions for a thread.
Erase(t) ==
    LET gone == {i \in DOMAIN msgs[t] : msgs[t][i].sender = "other" /\ ~msgs[t][i].deleted}
        Erased(m) == [Tombstone(m) EXCEPT !.sender = Nobody]
    IN /\ gone # {}
       /\ Moving(t)
       /\ lastSeq' = [lastSeq EXCEPT ![t] = @ + Cardinality(gone)]
       /\ updated' = [updated EXCEPT ![t] = now + 1]
       /\ msgs' = [msgs EXCEPT ![t] =
             [i \in DOMAIN @ |-> IF i \in gone THEN Erased(@[i]) ELSE @[i]]]
       /\ UNCHANGED <<member, otherLeft>>

LeftLine == [sender |-> Nobody, kind |-> "system", body |-> <<"left", "who">>, atts |-> <<>>]

\* leave_conversation: the mark and its line in one transaction.
Leave(t, viewer) ==
    /\ IF viewer THEN Stays(t) ELSE otherLeft[t] = 0
    /\ Moving(t) /\ Bump(t)
    /\ msgs' = [msgs EXCEPT ![t] = Append(@, NewRow(t, LeftLine))]
    /\ member' = IF viewer THEN [member EXCEPT ![t].left = now + 1] ELSE member
    /\ otherLeft' = IF viewer THEN otherLeft ELSE [otherLeft EXCEPT ![t] = now + 1]

\* rejoin_conversation, clear_conversation, mark_read: the viewer's row alone.
Mark(t, row) ==
    /\ row # member[t]
    /\ Moving(t)
    /\ member' = [member EXCEPT ![t] = row]
    /\ UNCHANGED <<msgs, lastSeq, updated, otherLeft>>

Rejoin(t) == Mark(t, [member[t] EXCEPT !.left = 0])
Clear(t)  == Mark(t, [member[t] EXCEPT !.cleared = now + 1])
Read(t)   == msgs[t] # <<>> /\ Mark(t, [member[t] EXCEPT !.read = IF @ < Last(msgs[t]).seq THEN Last(msgs[t]).seq ELSE @])

(***************************************************************************)
(* Specification: one walk through one list.                               *)
(***************************************************************************)
Init ==
    /\ \E p \in Prior : /\ msgs = p.msgs /\ lastSeq = p.lastSeq /\ updated = p.updated
                        /\ member = p.member /\ otherLeft = p.otherLeft /\ now = p.now
    /\ moves = 0
    /\ pc = "start" /\ anchor = 0 /\ cards = <<>> /\ served = <<>>
    /\ walk = [left |-> FALSE, unread |-> FALSE, needle |-> NoNeedle]
    /\ page = [rows |-> <<>>, more |-> FALSE, ids |-> {}]
    /\ steady = Threads /\ spared = FALSE

Happens(t) ==
    \/ \E m \in Says : Say(t, m)
    \/ \E i \in DOMAIN msgs[t], body \in Edits : Edit(t, i, body)
    \/ \E i \in DOMAIN msgs[t] : Withdraw(t, i)
    \/ Erase(t)
    \/ \E viewer \in BOOLEAN : Leave(t, viewer)
    \/ Rejoin(t)
    \/ Clear(t)
    \/ Read(t)

Next ==
    \/ \E w \in Walks : Begin(w)
    \/ \E came \in BOOLEAN : Scan(came)
    \/ Select
    \/ \E came \in BOOLEAN : Draw(came)
    \/ \E t \in Threads : Happens(t)

Spec == Init /\ [][Next]_vars

(***************************************************************************)
(* Properties.                                                             *)
(***************************************************************************)
\* Lines about which the search and the row may differ: a marker that more
\* than one entry of the registry is a prefix of, or that a longer prefix
\* labels, and words whose author's account is gone.
Nested(m) ==
    m.kind = "system" /\
       \E marker \in DOMAIN Labels : IsPrefix(marker, m.body) /\ Labels[marker] # Label(m.body)
Orphaned(m) == m.kind = "text" /\ m.sender = Nobody

\* What is drawn is found, and what is found is drawn.  A word is found by the
\* search exactly when the last line of the row draws it, whatever was cleared,
\* edited, deleted or erased before; and a row that a search returned carries
\* the word where its reader sees it, in the name, the title or the last line,
\* though the provider stopped answering or the thread moved in between.  The
\* end of a long line is cut off.
FoundIsDrawn ==
    /\ \A t \in Threads, w \in Walks :
          LET m == LastLine(t) IN
          Nested(m) \/ Orphaned(m) \/ (w.needle \in Range(Drawn(m)) <=> FoundByLine(m, w.needle))
    /\ \A i \in DOMAIN served :
          LET r == served[i]
              n == walk.needle
          IN \/ n \in {NoNeedle} \cup Range(Names[r.row.thread])
             \/ r.title /\ TitleMatches(SubjectOf[r.row.thread], n)
             \/ n \in Range(Preview(r.row.line))
             \/ Len(Drawn(r.row.line)) > PreviewWords \/ Nested(r.row.line)

\* The list and the single conversation tell the same line, found by the
\* annotation or by the read, and the same badge; and a row that draws no words
\* says why, never tells of the files that a withdrawn message had, and tells
\* each type of file once.
RowsTellTheLine ==
    \A t \in Threads :
       LET m == LastLine(t) IN
       /\ m = DetailLine(t) /\ Unread(t) = DetailUnread(t)
       /\ m.seq # 0 =>
             /\ (Preview(m) = <<>>) <=> (Reason(m) # "")
             /\ Reason(m) = "attachment" => Marks(m).count > 0
             /\ Reason(m) = "deleted" => Marks(m).count = 0
             /\ Len(Marks(m).types) = Cardinality(Range(Marks(m).types))
             /\ m.deleted \/ Range(Marks(m).types) \ {"file"} = Range(m.atts) \ {"file", "bare"}

Times(t) == Cardinality({i \in DOMAIN served : served[i].row.thread = t})

\* A walk that is done has served each thread that nothing happened to once
\* if it is on the list that was asked for and shows the word, and not at all
\* otherwise, however the others moved; and no thread twice.  A thread found
\* by its title alone may be missed if its card did not come or was not scanned.
WalkIsFaithful ==
    pc = "done" =>
       /\ \A t \in Threads : Times(t) <= 1
       /\ \A t \in steady :
             LET n == walk.needle
                 listed == ((member[t].left # 0) = walk.left) /\ (walk.unread => Unread(t) > 0)
                 shown == n \in {NoNeedle} \cup Range(Names[t]) \cup Range(Drawn(LastLine(t)))
                 titled == SubjectOf[t] # NoSubject /\ n \in Range(Titles[SubjectOf[t]])
             IN Nested(LastLine(t)) \/ Orphaned(LastLine(t))
                \/ /\ listed /\ (shown \/ (titled /\ ~spared)) => Times(t) = 1
                   /\ ~listed \/ ~(shown \/ titled) => Times(t) = 0
================================================================================
