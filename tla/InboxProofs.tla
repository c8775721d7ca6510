----------------------------- MODULE InboxProofs -----------------------------
(***************************************************************************)
(* The inbox, for any threads, messages, labels and pages: what a row      *)
(* draws, what a search finds, and what a walk through the pages serves    *)
(* while the threads move.                                                 *)
(***************************************************************************)
EXTENDS Inbox, FiniteSetTheorems, TLAPS

(***************************************************************************)
(* The inductive invariant.                                                *)
(***************************************************************************)
Listed == [thread : Threads, line : Message \cup {NoLine}, unread : Nat]
Served == [row : Listed, title : BOOLEAN]

ThreadsInv ==
    /\ msgs \in [Threads -> Seq(Message)] /\ lastSeq \in [Threads -> Nat]
    /\ now \in Nat /\ updated \in [Threads -> 1 .. now]
    /\ member \in [Threads -> [left : 0 .. now, cleared : Nat, read : Nat]]

WalkTypes ==
    /\ pc \in {"start", "scan", "select", "draw", "done"}
    /\ walk.left \in BOOLEAN /\ anchor \in 0 .. now
    /\ page \in [rows : Seq(Listed), more : BOOLEAN, ids : SUBSET Threads]
    /\ served \in Seq(Served)
    /\ steady \subseteq Threads /\ spared \in BOOLEAN

\* A message that was not withdrawn says something; a system line always does.
Meaningful(m) == m.kind = "system" \/ (m.kind = "text" /\ ~m.deleted) => SaysSomething(m)

MessagesInv ==
    \A t \in Threads :
       /\ lastSeq[t] = 0 => msgs[t] = <<>>
       /\ \A i \in DOMAIN msgs[t] : Meaningful(msgs[t][i])

TimesInv == Distinct(updated) /\ Distinct([t \in Threads |-> member[t].left])

\* Only a request that has read its page holds rows, and a walk starts with nothing.
PhasesInv ==
    /\ pc # "draw" => page.rows = <<>>
    /\ pc = "start" => served = <<>> /\ page.ids = {} /\ anchor = 0

\* Titles are matched on cards that came, and what was resolved is still known.
CardsInv ==
    \A t \in page.ids :
       /\ SubjectOf[t] # NoSubject /\ TitleMatches(SubjectOf[t], walk.needle)
       /\ SubjectOf[t] \in DOMAIN cards /\ cards[SubjectOf[t]] = TRUE

\* A row of a search shows why it was found, in the name or the line it carries.
Told(r) ==
    \/ walk.needle = NoNeedle \/ walk.needle \in Range(Names[r.thread])
    \/ FoundByLine(r.line, walk.needle)

FoundInv ==
    /\ \A i \in DOMAIN page.rows :
          /\ Meaningful(page.rows[i].line)
          /\ Told(page.rows[i]) \/ page.rows[i].thread \in page.ids
    /\ \A i \in DOMAIN served :
          /\ Meaningful(served[i].row.line)
          /\ \/ Told(served[i].row)
             \/ served[i].title /\ TitleMatches(SubjectOf[served[i].row.thread], walk.needle)

\* The threads that the walk has, on the pages answered and on the one at hand.
Have ==
    {served[i].row.thread : i \in DOMAIN served} \cup
    {page.rows[i].thread : i \in DOMAIN page.rows}

NoTwice ==
    /\ \A i, j \in DOMAIN served : served[i].row.thread = served[j].row.thread => i = j
    /\ \A i, j \in DOMAIN page.rows : page.rows[i].thread = page.rows[j].thread => i = j
    /\ \A i \in DOMAIN served, j \in DOMAIN page.rows :
          served[i].row.thread # page.rows[j].thread

\* What the walk has is not past the anchor, nor comes back there.
BehindInv ==
    \A t \in Have : anchor # 0 /\ (Key(t) >= anchor \/ (walk.left /\ Key(t) = 0))

\* What the reader asked for, and what the walk cannot miss.
Titled(t) == SubjectOf[t] # NoSubject /\ TitleMatches(SubjectOf[t], walk.needle)
Shows(t) ==
    \/ walk.needle = NoNeedle \/ walk.needle \in Range(Names[t])
    \/ FoundByLine(LastLine(t), walk.needle)

SteadyInv == \A t \in Have \cap steady : OnList(t) /\ (Shows(t) \/ Titled(t))

IdsInv ==
    pc = "select" /\ walk.needle # NoNeedle /\ ~spared =>
       \A t \in steady : OnList(t) /\ Titled(t) => t \in page.ids

Ahead(t) ==
    /\ pc # "done" /\ (pc = "draw" => page.more)
    /\ anchor = 0 \/ Key(t) < anchor
    /\ pc = "draw" => anchor # 0

CompleteInv ==
    \A t \in steady :
       OnList(t) /\ (Shows(t) \/ (Titled(t) /\ ~spared)) => t \in Have \/ Ahead(t)

IInv ==
    /\ ThreadsInv /\ WalkTypes /\ MessagesInv /\ TimesInv /\ PhasesInv
    /\ CardsInv /\ FoundInv /\ NoTwice /\ BehindInv /\ SteadyInv /\ IdsInv /\ CompleteInv

(***************************************************************************)
(* Putting the elements of a finite set in order.  The number of smaller   *)
(* places tells an element's rank, and every rank is taken.                *)
(***************************************************************************)
Below(S, place, x) == {y \in S : place[y] < place[x]}

LEMMA RanksAreTaken ==
    ASSUME NEW S, IsFiniteSet(S), NEW place \in [S -> Int],
           \A x, y \in S : place[x] = place[y] => x = y
    PROVE  /\ Cardinality(S) \in Nat
           /\ \A x \in S : Cardinality(Below(S, place, x)) \in 0 .. Cardinality(S) - 1
           /\ \A x, y \in S : place[x] < place[y] <=>
                 Cardinality(Below(S, place, x)) < Cardinality(Below(S, place, y))
           /\ \A n \in 0 .. Cardinality(S) - 1 :
                 \E x \in S : Cardinality(Below(S, place, x)) = n
<1> DEFINE c == Cardinality(S)
           r(x) == Cardinality(Below(S, place, x))
           f == [x \in S |-> r(x)]
<1>1. c \in Nat
    BY FS_CardinalityType
<1>2. \A x \in S : IsFiniteSet(Below(S, place, x)) /\ r(x) \in 0 .. c - 1
    <2> TAKE x \in S
    <2>1. Below(S, place, x) \subseteq S /\ x \notin Below(S, place, x)
        BY DEF Below
    <2>2. IsFiniteSet(Below(S, place, x)) /\ r(x) \in Nat /\ r(x) <= c /\ r(x) # c
        BY <2>1, FS_Subset, FS_CardinalityType
    <2> QED BY <1>1, <2>2
<1>3. \A x, y \in S : place[x] < place[y] => r(x) < r(y)
    <2> SUFFICES ASSUME NEW x \in S, NEW y \in S, place[x] < place[y] PROVE r(x) < r(y)
        OBVIOUS
    <2>1. /\ Below(S, place, x) \subseteq Below(S, place, y)
          /\ x \in Below(S, place, y) /\ x \notin Below(S, place, x)
        BY DEF Below
    <2>2. r(x) <= r(y) /\ r(x) # r(y)
        BY <1>2, <2>1, FS_Subset
    <2> QED BY <1>2, <2>2
<1>4. \A x, y \in S : r(x) < r(y) => place[x] < place[y]
    <2> SUFFICES ASSUME NEW x \in S, NEW y \in S, r(x) < r(y) PROVE place[x] < place[y]
        OBVIOUS
    <2>1. r(x) \in Int /\ r(y) \in Int
        BY <1>2
    <2>2. ~(place[y] < place[x]) /\ x # y
        BY <1>3, <2>1
    <2> QED BY <2>2
<1>5. f \in Injection(S, 0 .. c - 1)
    <2>1. \A x, y \in S : f[x] = f[y] => x = y
        <3> SUFFICES ASSUME NEW x \in S, NEW y \in S, f[x] = f[y] PROVE x = y
            OBVIOUS
        <3>1. r(x) = r(y) /\ r(x) \in Int
            BY <1>2
        <3>2. ~(r(x) < r(y)) /\ ~(r(y) < r(x))
            BY <3>1
        <3>3. ~(place[x] < place[y]) /\ ~(place[y] < place[x])
            BY <1>3, <3>2
        <3> QED BY <3>3
    <2>2. f \in [S -> 0 .. c - 1]
        BY <1>2
    <2> QED BY <2>1, <2>2 DEF Injection, IsInjective
<1>6. IsFiniteSet(0 .. c - 1) /\ Cardinality(0 .. c - 1) = c
    BY <1>1, FS_Interval
<1>7. f \in Surjection(S, 0 .. c - 1)
    BY <1>1, <1>5, <1>6, FS_Injection
<1>8. \A n \in 0 .. c - 1 : \E x \in S : r(x) = n
    BY <1>7 DEF Surjection
<1> QED BY <1>1, <1>2, <1>3, <1>4, <1>8

\* All of S, each element once, from the lowest place to the highest.
Sorted(q, S, place) ==
    /\ q \in Seq(S) /\ Len(q) = Cardinality(S) /\ Len(q) \in Nat
    /\ DOMAIN q = 1 .. Len(q)
    /\ \A j, k \in DOMAIN q : j < k => place[q[j]] < place[q[k]]
    /\ \A x \in S : \E k \in DOMAIN q : q[k] = x

(***************************************************************************)
(* InOrder sorts.                                                          *)
(***************************************************************************)
LEMMA InOrderSorts ==
    ASSUME NEW S, IsFiniteSet(S), NEW place \in [S -> Int],
           \A x, y \in S : place[x] = place[y] => x = y
    PROVE  Sorted(InOrder(S, place), S, place)
<1> DEFINE c == Cardinality(S)
           r(x) == Cardinality(Below(S, place, x))
           q == InOrder(S, place)
<1>1. /\ c \in Nat
      /\ \A x \in S : r(x) \in 0 .. c - 1
      /\ \A x, y \in S : place[x] < place[y] <=> r(x) < r(y)
      /\ \A n \in 0 .. c - 1 : \E x \in S : r(x) = n
    BY RanksAreTaken
<1>2. q = [k \in 1 .. c |-> CHOOSE x \in S : r(x) = k - 1]
    BY DEF InOrder, Below
<1> HIDE DEF r, q
<1>3. \A k \in 1 .. c : q[k] \in S /\ r(q[k]) = k - 1
    <2> TAKE k \in 1 .. c
    <2>1. k - 1 \in 0 .. c - 1
        BY <1>1
    <2>2. \E x \in S : r(x) = k - 1
        BY <1>1, <2>1
    <2> QED BY <1>2, <2>2
<1>4. q \in Seq(S) /\ Len(q) = c /\ DOMAIN q = 1 .. c
    <2>1. c \in Nat
        BY <1>1
    <2>2. DOMAIN q = 1 .. c
        BY <1>2
    <2>3. q \in [1 .. c -> S]
        BY <1>2, <1>3
    <2> HIDE DEF c
    <2>4. q \in Seq(S)
        BY <2>1, <2>3
    <2> QED BY <2>1, <2>2, <2>4
<1>5. \A j, k \in DOMAIN q : j < k => place[q[j]] < place[q[k]]
    <2> SUFFICES ASSUME NEW j \in DOMAIN q, NEW k \in DOMAIN q, j < k
                 PROVE  place[q[j]] < place[q[k]]
        OBVIOUS
    <2>1. j \in 1 .. c /\ k \in 1 .. c
        BY <1>4
    <2>2. r(q[j]) < r(q[k])
        BY <1>1, <1>3, <2>1
    <2> QED BY <1>1, <1>3, <2>1, <2>2
<1>6. \A x \in S : \E k \in DOMAIN q : q[k] = x
    <2> SUFFICES ASSUME NEW x \in S PROVE \E k \in 1 .. c : q[k] = x
        BY <1>4
    <2>1. r(x) \in 0 .. c - 1
        BY <1>1
    <2>2. r(x) + 1 \in 1 .. c
        BY <1>1, <2>1
    <2>3. q[r(x) + 1] \in S /\ r(q[r(x) + 1]) = r(x)
        BY <1>1, <1>3, <2>1, <2>2
    <2>4. q[r(x) + 1] = x
        <3> DEFINE y == q[r(x) + 1]
        <3>1. y \in S /\ r(y) = r(x) /\ r(x) \in Int
            BY <2>1, <2>3
        <3> HIDE DEF y
        <3>2. ~(place[x] < place[y]) /\ ~(place[y] < place[x])
            BY <1>1, <3>1
        <3> QED BY <3>1, <3>2 DEF y
    <2> QED BY <2>2, <2>4
<1> QED BY <1>1, <1>4, <1>5, <1>6 DEF Sorted, q

(***************************************************************************)
(* The messages of a thread are finitely many and some are the newest.     *)
(***************************************************************************)
LEMMA PartsAreFinite ==
    ASSUME ThreadsInv, NEW t \in Threads, NEW S \in SUBSET DOMAIN msgs[t]
    PROVE  IsFiniteSet(S) /\ Cardinality(S) \in Nat
<1>1. DOMAIN msgs[t] = 1 .. Len(msgs[t]) /\ Len(msgs[t]) \in Nat
    BY DEF ThreadsInv
<1>2. IsFiniteSet(1 .. Len(msgs[t]))
    BY <1>1, FS_Interval
<1> QED BY <1>1, <1>2, FS_Subset, FS_CardinalityType

LEMMA NewestIsOne ==
    ASSUME ThreadsInv, NEW t \in Threads, NEW S \in SUBSET DOMAIN msgs[t], S # {}
    PROVE  \E i \in S : (\A j \in S : j <= i) /\ Newest(t, S) = msgs[t][i]
<1> DEFINE place == [i \in S |-> -i]
           q == InOrder(S, place)
<1>1. IsFiniteSet(S) /\ S \subseteq Int
    <2>1. DOMAIN msgs[t] = 1 .. Len(msgs[t]) /\ Len(msgs[t]) \in Nat
        BY DEF ThreadsInv
    <2> QED BY <2>1, PartsAreFinite
<1>2. place \in [S -> Int] /\ \A x, y \in S : place[x] = place[y] => x = y
    BY <1>1
<1>3. Sorted(q, S, place)
    <2> HIDE DEF place
    <2> QED BY <1>1, <1>2, InOrderSorts
<1> HIDE DEF q
<1>4. 1 \in DOMAIN q /\ q[1] \in S
    BY <1>3 DEF Sorted
<1>5. \A j \in S : j <= q[1]
    <2> SUFFICES ASSUME NEW j \in S PROVE j <= q[1]
        OBVIOUS
    <2>1. PICK k \in DOMAIN q : q[k] = j
        BY <1>3 DEF Sorted
    <2>2. k = 1 \/ 1 < k
        BY <1>3 DEF Sorted
    <2>3. 1 < k => place[q[1]] < place[j]
        BY <1>3, <1>4, <2>1 DEF Sorted
    <2>4. place[q[1]] = -q[1] /\ place[j] = -j /\ q[1] \in Int /\ j \in Int
        BY <1>1, <1>4
    <2>5. 1 < k => j < q[1]
        <3> HIDE DEF place
        <3> QED BY <2>3, <2>4
    <2> QED BY <2>1, <2>2, <2>4, <2>5
<1>6. \E i \in S : \A j \in S : j <= i
    BY <1>4, <1>5
<1> QED BY <1>6 DEF Newest

LEMMA LineIsMeant ==
    ASSUME ThreadsInv, MessagesInv, NEW t \in Threads
    PROVE  LastLine(t) \in Message \cup {NoLine} /\ Meaningful(LastLine(t))
<1>1. Kept(t) \in SUBSET DOMAIN msgs[t]
    BY DEF Kept
<1>2. CASE Kept(t) = {}
    BY <1>2 DEF LastLine, Newest, NoLine, Meaningful
<1>3. CASE Kept(t) # {}
    <2>1. PICK i \in Kept(t) : LastLine(t) = msgs[t][i]
        BY <1>1, <1>3, NewestIsOne DEF LastLine
    <2>2. i \in DOMAIN msgs[t] /\ msgs[t] \in Seq(Message)
        BY <1>1, <2>1 DEF ThreadsInv
    <2>3. msgs[t][i] \in Message
        BY <2>2
    <2>4. Meaningful(msgs[t][i])
        BY <2>2 DEF MessagesInv
    <2> QED BY <2>1, <2>3, <2>4
<1> QED BY <1>2, <1>3

LEMMA UnreadIsNat ==
    ASSUME ThreadsInv, NEW t \in Threads
    PROVE  Unread(t) \in Nat
<1> DEFINE S == {i \in DOMAIN msgs[t] :
                   /\ msgs[t][i].seq > member[t].read /\ msgs[t][i].at > member[t].cleared
                   /\ msgs[t][i].sender = "other" /\ ~msgs[t][i].deleted}
<1>1. S \in SUBSET DOMAIN msgs[t]
    OBVIOUS
<1>2. Cardinality(S) \in Nat
    <2> HIDE DEF S
    <2> QED BY <1>1, PartsAreFinite
<1> QED BY <1>2 DEF Unread

(***************************************************************************)
(* The list and the single conversation agree: the floor of the reads of a *)
(* single conversation, and whom they count, keep the same messages.       *)
(***************************************************************************)
LEMMA DetailsAgree ==
    ASSUME ThreadsInv, MessagesInv, NEW t \in Threads
    PROVE  LastLine(t) = DetailLine(t) /\ Unread(t) = DetailUnread(t)
<1>1. /\ msgs[t] \in Seq(Message) /\ member[t].cleared \in Nat /\ member[t].read \in Nat
      /\ \A i \in DOMAIN msgs[t] : msgs[t][i] \in Message
    BY DEF ThreadsInv
<1>2. LastLine(t) = DetailLine(t)
    <2>1. CASE lastSeq[t] = 0
        <3>1. msgs[t] = <<>>
            BY <2>1 DEF MessagesInv
        <3>2. Kept(t) = {}
            BY <3>1 DEF Kept
        <3> QED BY <2>1, <3>2 DEF LastLine, DetailLine, Newest
    <2>2. CASE lastSeq[t] # 0 /\ member[t].cleared = 0
        <3>1. \A i \in DOMAIN msgs[t] : msgs[t][i].at > 0
            BY <1>1 DEF Message
        <3>2. Kept(t) = DOMAIN msgs[t]
            BY <2>2, <3>1 DEF Kept
        <3> QED BY <2>2, <3>2 DEF LastLine, DetailLine
    <2>3. CASE lastSeq[t] # 0 /\ member[t].cleared # 0
        BY <2>3 DEF LastLine, DetailLine
    <2> QED BY <2>1, <2>2, <2>3
<1>3. \A i \in DOMAIN msgs[t] :
         msgs[t][i].sender = "other" <=> msgs[t][i].sender \notin {Nobody, "viewer"}
    BY <1>1 DEF Message, Nobody
<1>4. Unread(t) = DetailUnread(t)
    <2> DEFINE listed == {i \in DOMAIN msgs[t] :
                   /\ msgs[t][i].seq > member[t].read /\ msgs[t][i].at > member[t].cleared
                   /\ msgs[t][i].sender = "other" /\ ~msgs[t][i].deleted}
               single == {i \in Kept(t) :
                   /\ msgs[t][i].seq > member[t].read
                   /\ msgs[t][i].sender \notin {Nobody, "viewer"} /\ ~msgs[t][i].deleted}
    <2>1. listed = single
        BY <1>3 DEF Kept
    <2>2. Unread(t) = Cardinality(listed) /\ DetailUnread(t) = Cardinality(single)
        BY DEF Unread, DetailUnread
    <2> HIDE DEF listed, single
    <2> QED BY <2>1, <2>2
<1> QED BY <1>2, <1>4

(***************************************************************************)
(* Cutting a text short, and the label of a marker.                        *)
(***************************************************************************)
LEMMA CutTexts ==
    ASSUME NEW s \in Seq(Words), NEW n \in Nat \ {0}
    PROVE  /\ FirstOf(s, n) = <<>> <=> s = <<>>
           /\ Len(s) <= n => FirstOf(s, n) = s
<1> DEFINE k == IF Len(s) < n THEN Len(s) ELSE n
<1>1. k \in 0 .. Len(s) /\ (k = 0 <=> Len(s) = 0) /\ (Len(s) <= n => k = Len(s))
    OBVIOUS
<1>2. FirstOf(s, n) = SubSeq(s, 1, k)
    BY DEF FirstOf
<1> HIDE DEF k
<1>3. Len(SubSeq(s, 1, k)) = k /\ SubSeq(s, 1, k) \in Seq(Words)
    BY <1>1
<1>4. SubSeq(s, 1, k) = <<>> <=> k = 0
    BY <1>1, <1>3
<1>5. s = <<>> <=> Len(s) = 0
    OBVIOUS
<1>6. k = Len(s) => SubSeq(s, 1, k) = s
    BY <1>3
<1> QED BY <1>1, <1>2, <1>4, <1>5, <1>6

LEMMA LabelIsText ==
    ASSUME NEW b
    PROVE  Label(b) \in Seq(Words)
<1>1. \A marker \in DOMAIN Labels : Labels[marker] \in Seq(Words)
    BY WordsAssumption
<1>2. <<>> \in Seq(Words)
    OBVIOUS
<1> DEFINE first == <<Head(b)>>
<1>3. Label(b) = IF b \in DOMAIN Labels THEN Labels[b]
                 ELSE IF first \in DOMAIN Labels THEN Labels[first] ELSE <<>>
    BY DEF Label
<1> HIDE DEF first
<1> QED BY <1>1, <1>2, <1>3

LEMMA DrawnIsText ==
    ASSUME NEW m \in Message
    PROVE  Drawn(m) \in Seq(Words)
<1>1. m.body \in Seq(Words) /\ <<>> \in Seq(Words) /\ Label(m.body) \in Seq(Words)
    BY LabelIsText DEF Message
<1> QED BY <1>1 DEF Drawn

(***************************************************************************)
(* A row that draws no words says why.                                     *)
(***************************************************************************)
LEMMA WordsOrReason ==
    ASSUME NEW m \in Message, Meaningful(m)
    PROVE  /\ Preview(m) = <<>> <=> Reason(m) # ""
           /\ Reason(m) = "attachment" => ~m.deleted /\ m.atts # <<>>
           /\ Reason(m) = "deleted" => m.deleted
<1>1. Preview(m) = <<>> <=> Drawn(m) = <<>>
    <2>1. PreviewWords \in Nat \ {0}
        BY BoundsAssumption
    <2> QED BY <2>1, CutTexts, DrawnIsText DEF Preview
<1>2. m.kind \in {"text", "system"} /\ m.deleted \in BOOLEAN
    BY DEF Message
<1>3. Drawn(m) = <<>> <=> Reason(m) # ""
    <2>1. CASE m.deleted
        BY <2>1 DEF Drawn, Reason
    <2>2. CASE ~m.deleted /\ m.kind = "system"
        BY <2>2 DEF Drawn, Reason
    <2>3. CASE ~m.deleted /\ m.kind = "text"
        <3>1. m.body # <<>> \/ m.atts # <<>>
            BY <2>3 DEF Meaningful, SaysSomething
        <3> QED BY <2>3, <3>1 DEF Drawn, Reason
    <2> QED BY <1>2, <2>1, <2>2, <2>3
<1>4. Reason(m) = "attachment" => ~m.deleted /\ m.atts # <<>>
    BY DEF Reason
<1>5. Reason(m) = "deleted" => m.deleted
    BY DEF Reason
<1> QED BY <1>1, <1>3, <1>4, <1>5

(***************************************************************************)
(* The marks of a message: where each type of file stands first.           *)
(***************************************************************************)
Kinds(m) == [i \in DOMAIN m.atts |-> IF m.atts[i] = "bare" THEN "file" ELSE m.atts[i]]
Firsts(m) == {i \in DOMAIN Kinds(m) : \A j \in 1 .. i - 1 : Kinds(m)[j] # Kinds(m)[i]}

LEMMA FilesAreFinite ==
    ASSUME NEW m \in Message, NEW S \in SUBSET DOMAIN Kinds(m)
    PROVE  /\ IsFiniteSet(S) /\ S \subseteq 1 .. Len(m.atts) /\ Len(m.atts) \in Nat
           /\ Sorted(InOrder(S, [i \in S |-> i]), S, [i \in S |-> i])
<1> DEFINE place == [i \in S |-> i]
<1>1. /\ m.atts \in Seq(Words) /\ Len(m.atts) \in Nat
      /\ DOMAIN Kinds(m) = 1 .. Len(m.atts)
    BY DEF Message, Kinds
<1>2. IsFiniteSet(S) /\ S \subseteq Int
    <2>1. IsFiniteSet(1 .. Len(m.atts))
        BY <1>1, FS_Interval
    <2> QED BY <1>1, <2>1, FS_Subset
<1>3. place \in [S -> Int] /\ \A x, y \in S : place[x] = place[y] => x = y
    BY <1>2
<1>4. Sorted(InOrder(S, place), S, place)
    <2> HIDE DEF place
    <2> QED BY <1>2, <1>3, InOrderSorts
<1> QED BY <1>1, <1>2, <1>4

LEMMA EachTypeStandsFirst ==
    ASSUME NEW m \in Message, NEW i \in DOMAIN Kinds(m)
    PROVE  \E f \in Firsts(m) : Kinds(m)[f] = Kinds(m)[i]
<1> DEFINE S == {j \in DOMAIN Kinds(m) : Kinds(m)[j] = Kinds(m)[i]}
           place == [j \in S |-> j]
           q == InOrder(S, place)
<1>1. S \in SUBSET DOMAIN Kinds(m) /\ i \in S
    OBVIOUS
<1>2. /\ DOMAIN Kinds(m) = 1 .. Len(m.atts) /\ Len(m.atts) \in Nat
      /\ S \subseteq 1 .. Len(m.atts)
    BY DEF Message, Kinds
<1>3. Sorted(q, S, place)
    <2> HIDE DEF S
    <2> QED BY <1>1, FilesAreFinite
<1> HIDE DEF q
<1>4. 1 \in DOMAIN q /\ q[1] \in S
    <2> HIDE DEF S
    <2> QED BY <1>1, <1>3 DEF Sorted
<1>5. \A j \in S : q[1] <= j
    <2> SUFFICES ASSUME NEW j \in S PROVE q[1] <= j
        OBVIOUS
    <2>1. PICK k \in DOMAIN q : q[k] = j
        BY <1>3 DEF Sorted
    <2>2. k = 1 \/ 1 < k
        BY <1>3 DEF Sorted
    <2>3. 1 < k => place[q[1]] < place[j]
        BY <1>3, <1>4, <2>1 DEF Sorted
    <2>4. place[q[1]] = q[1] /\ place[j] = j /\ q[1] \in Int /\ j \in Int
        BY <1>2, <1>4
    <2>5. 1 < k => q[1] < j
        <3> HIDE DEF place
        <3> QED BY <2>3, <2>4
    <2> QED BY <2>1, <2>2, <2>4, <2>5
<1>6. \A j \in 1 .. q[1] - 1 : Kinds(m)[j] # Kinds(m)[q[1]]
    <2> SUFFICES ASSUME NEW j \in 1 .. q[1] - 1 PROVE Kinds(m)[j] # Kinds(m)[i]
        BY <1>4
    <2>1. j \in DOMAIN Kinds(m) /\ ~(q[1] <= j)
        BY <1>2, <1>4
    <2> QED BY <1>5, <2>1
<1> QED BY <1>4, <1>6 DEF Firsts

(***************************************************************************)
(* Each type of file is told once, and none but those of the message.      *)
(***************************************************************************)
LEMMA TypesAreToldOnce ==
    ASSUME NEW m \in Message, ~m.deleted
    PROVE  /\ Marks(m).count = Len(m.atts)
           /\ Len(Marks(m).types) = Cardinality(Range(Marks(m).types))
           /\ Range(Marks(m).types) = Range(Kinds(m))
<1> DEFINE place == [i \in Firsts(m) |-> i]
           order == InOrder(Firsts(m), place)
           types == [k \in DOMAIN order |-> Kinds(m)[order[k]]]
<1>1. Marks(m) = [types |-> types, count |-> Len(m.atts)]
    BY DEF Marks, Kinds, Firsts
<1>2. Firsts(m) \in SUBSET DOMAIN Kinds(m)
    BY DEF Firsts
<1>3. Sorted(order, Firsts(m), place) /\ Firsts(m) \subseteq 1 .. Len(m.atts)
    BY <1>2, FilesAreFinite
<1> HIDE DEF order
<1>4. /\ Len(order) \in Nat /\ DOMAIN order = 1 .. Len(order)
      /\ \A k \in DOMAIN order : order[k] \in Firsts(m)
    BY <1>3 DEF Sorted
<1>5. \A j, k \in DOMAIN order : j < k => types[j] # types[k]
    <2> SUFFICES ASSUME NEW j \in DOMAIN order, NEW k \in DOMAIN order, j < k
                 PROVE  Kinds(m)[order[j]] # Kinds(m)[order[k]]
        OBVIOUS
    <2>1. order[j] \in Firsts(m) /\ order[k] \in Firsts(m)
        BY <1>4
    <2>2. order[j] < order[k] /\ order[j] \in 1 .. Len(m.atts) /\ order[k] \in 1 .. Len(m.atts)
        BY <1>3, <2>1 DEF Sorted
    <2>3. order[j] \in 1 .. order[k] - 1
        BY <2>2
    <2> QED BY <2>1, <2>3 DEF Firsts
<1>6. types \in Seq(Range(types)) /\ Len(types) = Len(order) /\ DOMAIN types = 1 .. Len(order)
    BY <1>4 DEF Range
<1>7. Cardinality(Range(types)) = Len(order)
    <2>1. types \in Surjection(1 .. Len(order), Range(types))
        BY <1>6 DEF Surjection, Range
    <2>2. types \in Injection(1 .. Len(order), Range(types))
        <3>1. \A j, k \in 1 .. Len(order) : types[j] = types[k] => j = k
            <4> SUFFICES ASSUME NEW j \in 1 .. Len(order), NEW k \in 1 .. Len(order), j # k
                         PROVE  types[j] # types[k]
                OBVIOUS
            <4>1. j < k \/ k < j
                BY <1>4
            <4> HIDE DEF types
            <4> QED BY <1>4, <1>5, <4>1
        <3> HIDE DEF types
        <3> QED BY <1>6, <2>1, <3>1 DEF Injection, IsInjective, Surjection
    <2>3. IsFiniteSet(1 .. Len(order)) /\ Cardinality(1 .. Len(order)) = Len(order)
        BY <1>4, FS_Interval
    <2> HIDE DEF types
    <2> QED BY <2>1, <2>2, <2>3, FS_Surjection
<1>8. Range(types) = Range(Kinds(m))
    <2>1. \A k \in DOMAIN order : types[k] \in Range(Kinds(m))
        BY <1>2, <1>4 DEF Range
    <2>2. \A i \in DOMAIN Kinds(m) : Kinds(m)[i] \in Range(types)
        <3> TAKE i \in DOMAIN Kinds(m)
        <3>1. PICK f \in Firsts(m) : Kinds(m)[f] = Kinds(m)[i]
            BY EachTypeStandsFirst
        <3>2. PICK k \in DOMAIN order : order[k] = f
            BY <1>3 DEF Sorted
        <3> QED BY <3>1, <3>2 DEF Range
    <2> QED BY <2>1, <2>2 DEF Range
<1> HIDE DEF types
<1> QED BY <1>1, <1>6, <1>7, <1>8

LEMMA TypesAreOfTheFiles ==
    ASSUME NEW m \in Message
    PROVE  Range(Kinds(m)) \ {"file"} = Range(m.atts) \ {"file", "bare"}
<1>1. DOMAIN Kinds(m) = DOMAIN m.atts
    BY DEF Kinds
<1>2. \A i \in DOMAIN m.atts :
         Kinds(m)[i] = IF m.atts[i] = "bare" THEN "file" ELSE m.atts[i]
    BY DEF Kinds
<1>3. \A x \in Range(Kinds(m)) \ {"file"} : x \in Range(m.atts) \ {"file", "bare"}
    BY <1>1, <1>2 DEF Range
<1>4. \A x \in Range(m.atts) \ {"file", "bare"} : x \in Range(Kinds(m)) \ {"file"}
    BY <1>1, <1>2 DEF Range
<1> QED BY <1>3, <1>4

LEMMA RowsTell == ThreadsInv /\ MessagesInv => RowsTellTheLine
<1> SUFFICES ASSUME ThreadsInv, MessagesInv, NEW t \in Threads, NEW m, m = LastLine(t)
             PROVE  /\ m = DetailLine(t) /\ Unread(t) = DetailUnread(t)
                    /\ m.seq # 0 =>
                         /\ (Preview(m) = <<>>) <=> (Reason(m) # "")
                         /\ Reason(m) = "attachment" => Marks(m).count > 0
                         /\ Reason(m) = "deleted" => Marks(m).count = 0
                         /\ Len(Marks(m).types) = Cardinality(Range(Marks(m).types))
                         /\ m.deleted \/ Range(Marks(m).types) \ {"file"} =
                                         Range(m.atts) \ {"file", "bare"}
    BY DEF RowsTellTheLine
<1>1. m = DetailLine(t) /\ Unread(t) = DetailUnread(t)
    BY DetailsAgree
<1>2. ASSUME m.seq # 0
      PROVE  m \in Message /\ Meaningful(m)
    BY <1>2, LineIsMeant DEF NoLine
<1>3. ASSUME m \in Message, Meaningful(m)
      PROVE  /\ (Preview(m) = <<>>) <=> (Reason(m) # "")
             /\ Reason(m) = "attachment" => Marks(m).count > 0
             /\ Reason(m) = "deleted" => Marks(m).count = 0
             /\ Len(Marks(m).types) = Cardinality(Range(Marks(m).types))
             /\ m.deleted \/ Range(Marks(m).types) \ {"file"} = Range(m.atts) \ {"file", "bare"}
    <2>1. /\ Preview(m) = <<>> <=> Reason(m) # ""
          /\ Reason(m) = "attachment" => ~m.deleted /\ m.atts # <<>>
          /\ Reason(m) = "deleted" => m.deleted
        BY <1>3, WordsOrReason
    <2>2. CASE m.deleted
        <3>1. Marks(m) = [types |-> <<>>, count |-> 0]
            BY <2>2 DEF Marks
        <3>2. Len(Marks(m).types) = 0 /\ Range(Marks(m).types) = {} /\ Marks(m).count = 0
            BY <3>1 DEF Range
        <3>3. Cardinality({}) = 0
            BY FS_EmptySet
        <3> QED BY <2>1, <2>2, <3>2, <3>3
    <2>3. CASE ~m.deleted
        <3>1. /\ Marks(m).count = Len(m.atts)
              /\ Len(Marks(m).types) = Cardinality(Range(Marks(m).types))
              /\ Range(Marks(m).types) = Range(Kinds(m))
            BY <1>3, <2>3, TypesAreToldOnce
        <3>2. m.atts \in Seq(Words) /\ (m.atts # <<>> => Len(m.atts) > 0)
            BY <1>3 DEF Message
        <3>3. Range(Kinds(m)) \ {"file"} = Range(m.atts) \ {"file", "bare"}
            BY <1>3, TypesAreOfTheFiles
        <3> QED BY <2>1, <2>3, <3>1, <3>2, <3>3
    <2> QED BY <2>2, <2>3
<1> QED BY <1>1, <1>2, <1>3

(***************************************************************************)
(* The search of the database and the row of the list read one line alike: *)
(* an exact marker is its own prefix, as is its part before the colon.     *)
(***************************************************************************)
LEMMA OwnMarkerIsPrefix ==
    ASSUME NEW b \in Seq(Words), b # <<>>
    PROVE  IsPrefix(b, b) /\ IsPrefix(<<Head(b)>>, b)
<1>1. Len(b) \in Nat /\ Len(b) >= 1 /\ b[1] = Head(b)
    OBVIOUS
<1>2. IsPrefix(b, b)
    BY <1>1 DEF IsPrefix
<1> DEFINE first == <<Head(b)>>
<1>3. Len(first) = 1 /\ first[1] = b[1] /\ first \in Seq(Words) /\ b[1] \in Words
    BY <1>1
<1>4. Len(first) <= Len(b)
    BY <1>1, <1>3
<1> HIDE DEF first
<1>5. SubSeq(first, 1, 1) = SubSeq(b, 1, 1)
    <2> DEFINE x == SubSeq(first, 1, 1)
               y == SubSeq(b, 1, 1)
    <2>1. x \in Seq(Words) /\ Len(x) = 1 /\ x[1] = first[1]
        BY <1>3
    <2>2. y \in Seq(Words) /\ Len(y) = 1 /\ y[1] = b[1]
        BY <1>1
    <2> HIDE DEF x, y
    <2>3. x = y
        BY <1>3, <2>1, <2>2
    <2> QED BY <2>3 DEF x, y
<1>6. IsPrefix(first, b)
    BY <1>3, <1>4, <1>5 DEF IsPrefix
<1> QED BY <1>2, <1>6 DEF first

LEMMA FoundIffDrawn ==
    ASSUME NEW m \in Message \cup {NoLine}, Meaningful(m), ~Nested(m), NEW n
    PROVE  /\ FoundByLine(m, n) => n \in Range(Drawn(m))
           /\ ~Orphaned(m) /\ n \in Range(Drawn(m)) => FoundByLine(m, n)
<1>1. m.kind \in {"none", "text", "system"} /\ m.deleted \in BOOLEAN
    <2>1. CASE m \in Message
        BY <2>1 DEF Message
    <2>2. CASE m = NoLine
        BY <2>2 DEF NoLine
    <2> QED BY <2>1, <2>2
<1>2. Range(<<>>) = {}
    BY DEF Range
<1>3. CASE m.deleted
    BY <1>2, <1>3 DEF FoundByLine, Drawn
<1>4. CASE m.kind = "none"
    <2>1. m = NoLine
        BY <1>4 DEF Message
    <2>2. Drawn(NoLine) = <<>>
        BY DEF Drawn, NoLine
    <2>3. ~FoundByLine(NoLine, n)
        BY DEF FoundByLine, NoLine
    <2> QED BY <1>2, <2>1, <2>2, <2>3
<1>5. CASE ~m.deleted /\ m.kind = "text"
    <2>1. Drawn(m) = m.body
        BY <1>5 DEF Drawn
    <2>2. FoundByLine(m, n) <=> m.sender # Nobody /\ n \in Range(m.body)
        BY <1>5 DEF FoundByLine
    <2> QED BY <1>5, <2>1, <2>2 DEF Orphaned
<1>6. CASE ~m.deleted /\ m.kind = "system"
    <2>1. m.sender = Nobody /\ m.body # <<>> /\ m.body \in Seq(Words)
        BY <1>6 DEF Meaningful, SaysSomething, Message, NoLine
    <2>2. Drawn(m) = Label(m.body)
        BY <1>6 DEF Drawn
    <2>3. FoundByLine(m, n) <=>
             \E marker \in DOMAIN Labels : n \in Range(Labels[marker]) /\ IsPrefix(marker, m.body)
        BY <1>6, <2>1 DEF FoundByLine
    <2>4. \A marker \in DOMAIN Labels :
             IsPrefix(marker, m.body) => Labels[marker] = Label(m.body)
        BY <1>6 DEF Nested
    <2>5. ASSUME n \in Range(Label(m.body))
          PROVE  \E marker \in DOMAIN Labels :
                    n \in Range(Labels[marker]) /\ IsPrefix(marker, m.body)
        <3>1. IsPrefix(m.body, m.body) /\ IsPrefix(<<Head(m.body)>>, m.body)
            BY <2>1, OwnMarkerIsPrefix
        <3>2. \/ m.body \in DOMAIN Labels /\ Label(m.body) = Labels[m.body]
              \/ <<Head(m.body)>> \in DOMAIN Labels /\ Label(m.body) = Labels[<<Head(m.body)>>]
              \/ Label(m.body) = <<>>
            BY DEF Label
        <3> QED BY <1>2, <2>5, <3>1, <3>2
    <2> QED BY <2>2, <2>3, <2>4, <2>5
<1> QED BY <1>1, <1>3, <1>4, <1>5, <1>6

LEMMA FoundDrawn ==
    ThreadsInv /\ WalkTypes /\ MessagesInv /\ FoundInv => FoundIsDrawn
<1> SUFFICES ASSUME ThreadsInv, WalkTypes, MessagesInv, FoundInv PROVE FoundIsDrawn
    OBVIOUS
<1>1. ASSUME NEW t \in Threads, NEW w \in Walks
      PROVE  \/ Nested(LastLine(t)) \/ Orphaned(LastLine(t))
             \/ (w.needle \in Range(Drawn(LastLine(t))) <=> FoundByLine(LastLine(t), w.needle))
    BY LineIsMeant, FoundIffDrawn
<1>2. ASSUME NEW i \in DOMAIN served
      PROVE  LET r == served[i]
                 n == walk.needle
             IN \/ n \in {NoNeedle} \cup Range(Names[r.row.thread])
                \/ r.title /\ TitleMatches(SubjectOf[r.row.thread], n)
                \/ n \in Range(Preview(r.row.line))
                \/ Len(Drawn(r.row.line)) > PreviewWords \/ Nested(r.row.line)
    <2> DEFINE m == served[i].row.line
               n == walk.needle
    <2>1. m \in Message \cup {NoLine}
        <3>1. served[i] \in Served
            BY DEF WalkTypes
        <3>2. served[i].row \in Listed
            BY <3>1 DEF Served
        <3> QED BY <3>2 DEF Listed
    <2>2. Meaningful(m)
        BY DEF FoundInv
    <2>3. \/ n = NoNeedle \/ n \in Range(Names[served[i].row.thread])
          \/ FoundByLine(m, n)
          \/ served[i].title /\ TitleMatches(SubjectOf[served[i].row.thread], n)
        BY DEF FoundInv, Told
    <2> HIDE DEF m, n
    <2>4. ASSUME FoundByLine(m, n), ~Nested(m), ~(Len(Drawn(m)) > PreviewWords)
          PROVE  n \in Range(Preview(m))
        <3>1. n \in Range(Drawn(m))
            BY <2>1, <2>2, <2>4, FoundIffDrawn
        <3>2. m \in Message
            BY <2>1, <2>4 DEF FoundByLine, NoLine
        <3>3. Drawn(m) \in Seq(Words) /\ PreviewWords \in Nat \ {0}
            BY <3>2, BoundsAssumption, DrawnIsText
        <3>4. Len(Drawn(m)) <= PreviewWords
            BY <2>4, <3>3
        <3>5. Preview(m) = Drawn(m)
            BY <3>3, <3>4, CutTexts DEF Preview
        <3> QED BY <3>1, <3>5
    <2>5. \/ n \in {NoNeedle} \cup Range(Names[served[i].row.thread])
          \/ served[i].title /\ TitleMatches(SubjectOf[served[i].row.thread], n)
          \/ n \in Range(Preview(m))
          \/ Len(Drawn(m)) > PreviewWords \/ Nested(m)
        BY <2>3, <2>4
    <2> QED BY <2>5 DEF m, n
<1> QED BY <1>1, <1>2 DEF FoundIsDrawn

(***************************************************************************)
(* What happens to a thread, whatever it is: only that thread changes, its *)
(* times stay or become the newest of all, and its messages stay meant.    *)
(***************************************************************************)
Moved(t) ==
    /\ msgs' = [msgs EXCEPT ![t] = msgs'[t]] /\ lastSeq' = [lastSeq EXCEPT ![t] = lastSeq'[t]]
    /\ updated' = [updated EXCEPT ![t] = updated'[t]]
    /\ member' = [member EXCEPT ![t] = member'[t]]
    /\ msgs'[t] \in Seq(Message) /\ \A i \in DOMAIN msgs'[t] : Meaningful(msgs'[t][i])
    /\ lastSeq'[t] \in Nat /\ (lastSeq'[t] = 0 => msgs'[t] = <<>>)
    /\ updated'[t] \in {updated[t], now + 1}
    /\ member'[t] \in [left : {0, member[t].left, now + 1}, cleared : Nat, read : Nat]
    /\ now' = now + 1 /\ steady' = steady \ {t} /\ pc # "done" /\ UNCHANGED request

\* What an action may rely on.
AtThread(t) ==
    /\ now \in Nat /\ msgs[t] \in Seq(Message) /\ lastSeq[t] \in Nat
    /\ member[t] \in [left : 0 .. now, cleared : Nat, read : Nat]
    /\ lastSeq[t] = 0 => msgs[t] = <<>>
    /\ \A i \in DOMAIN msgs[t] : msgs[t][i] \in Message /\ Meaningful(msgs[t][i])
    /\ t \in DOMAIN msgs /\ t \in DOMAIN lastSeq /\ t \in DOMAIN updated /\ t \in DOMAIN member
    /\ msgs = [u \in Threads |-> msgs[u]] /\ member = [u \in Threads |-> member[u]]
    /\ lastSeq = [u \in Threads |-> lastSeq[u]] /\ updated = [u \in Threads |-> updated[u]]

LEMMA ThreadAt ==
    ASSUME ThreadsInv, MessagesInv, NEW t \in Threads
    PROVE  AtThread(t)
<1>1. msgs[t] \in Seq(Message)
    BY DEF ThreadsInv
<1>2. \A i \in DOMAIN msgs[t] : msgs[t][i] \in Message
    BY <1>1
<1> QED BY <1>1, <1>2 DEF AtThread, ThreadsInv, MessagesInv

LEMMA AppendMeant ==
    ASSUME NEW s \in Seq(Message), \A i \in DOMAIN s : Meaningful(s[i]),
           NEW m \in Message, Meaningful(m)
    PROVE  /\ Append(s, m) \in Seq(Message) /\ Append(s, m) # <<>>
           /\ \A i \in DOMAIN Append(s, m) : Meaningful(Append(s, m)[i])
<1>1. /\ Append(s, m) \in Seq(Message) /\ DOMAIN Append(s, m) = 1 .. Len(s) + 1
      /\ DOMAIN s = 1 .. Len(s) /\ Len(s) \in Nat
    OBVIOUS
<1>2. \A i \in DOMAIN Append(s, m) : Meaningful(Append(s, m)[i])
    <2> TAKE i \in DOMAIN Append(s, m)
    <2>1. i = Len(s) + 1 \/ i \in DOMAIN s
        BY <1>1
    <2>2. Append(s, m)[i] = IF i = Len(s) + 1 THEN m ELSE s[i]
        BY <1>1, <2>1
    <2> QED BY <2>1, <2>2
<1>3. Append(s, m) # <<>>
    <2>1. Len(Append(s, m)) = Len(s) + 1
        OBVIOUS
    <2> QED BY <1>1, <2>1
<1> QED BY <1>1, <1>2, <1>3

LEMMA SayMoves ==
    ASSUME NEW t \in Threads, AtThread(t), NEW m \in Says, Say(t, m)
    PROVE  Moved(t)
<1> DEFINE new == NewRow(t, m)
<1>1. new \in Message /\ Meaningful(new)
    <2>1. /\ m \in [sender : {"viewer", "other", Nobody}, kind : {"text", "system"},
                    body : Seq(Words), atts : Seq(Words)]
          /\ SaysSomething(m)
        BY WordsAssumption
    <2>2. new \in Message
        <3>1. lastSeq[t] + 1 \in Nat /\ now + 1 \in Nat \ {0}
            BY DEF AtThread
        <3> QED BY ONLY <2>1, <3>1 DEF NewRow, Message
    <2>3. SaysSomething(new)
        BY <2>1 DEF SaysSomething, NewRow
    <2> QED BY <2>2, <2>3 DEF Meaningful
<1>2. /\ msgs' = [msgs EXCEPT ![t] = Append(@, new)]
      /\ lastSeq' = [lastSeq EXCEPT ![t] = @ + 1] /\ updated' = [updated EXCEPT ![t] = now + 1]
      /\ member' = member \/ member' = [member EXCEPT ![t].left = 0]
      /\ now' = now + 1 /\ steady' = steady \ {t} /\ pc # "done" /\ UNCHANGED request
    BY DEF Say, Moving, Bump
<1> HIDE DEF new
<1>3. msgs'[t] = Append(msgs[t], new)
    BY <1>2 DEF AtThread
<1>4. msgs'[t] \in Seq(Message) /\ \A i \in DOMAIN msgs'[t] : Meaningful(msgs'[t][i])
    BY <1>1, <1>3, AppendMeant DEF AtThread
<1>5. /\ member' = [member EXCEPT ![t] = member'[t]]
      /\ member'[t] \in [left : {0, member[t].left, now + 1}, cleared : Nat, read : Nat]
    <2>1. CASE member' = member
        BY <2>1 DEF AtThread
    <2>2. CASE member' = [member EXCEPT ![t].left = 0]
        <3>1. member'[t] = [member[t] EXCEPT !.left = 0]
            BY <2>2 DEF AtThread
        <3>2. member' = [member EXCEPT ![t] = member'[t]]
            BY <2>2 DEF AtThread
        <3> QED BY <3>1, <3>2 DEF AtThread
    <2> QED BY <1>2, <2>1, <2>2
<1>6. /\ lastSeq'[t] = lastSeq[t] + 1 /\ lastSeq' = [lastSeq EXCEPT ![t] = lastSeq'[t]]
      /\ updated'[t] = now + 1 /\ updated' = [updated EXCEPT ![t] = updated'[t]]
      /\ msgs' = [msgs EXCEPT ![t] = msgs'[t]]
    BY <1>2 DEF AtThread
<1>7. lastSeq'[t] \in Nat /\ lastSeq'[t] # 0
    BY <1>6 DEF AtThread
<1> QED BY <1>2, <1>4, <1>5, <1>6, <1>7 DEF Moved

LEMMA LeaveMoves ==
    ASSUME NEW t \in Threads, AtThread(t), NEW viewer \in BOOLEAN, Leave(t, viewer)
    PROVE  Moved(t)
<1> DEFINE new == NewRow(t, LeftLine)
<1>1. new \in Message /\ Meaningful(new)
    <2>1. new.kind = "system" /\ new.sender = Nobody /\ new.body = <<"left", "who">>
        BY DEF NewRow, LeftLine
    <2>2. <<"left", "who">> \in Seq(Words) /\ Len(<<"left", "who">>) = 2
        <3>1. \A a, b \in Words : <<a, b>> \in Seq(Words)
            OBVIOUS
        <3>2. "left" \in Words /\ "who" \in Words
            BY WordsAssumption
        <3> QED BY <3>1, <3>2
    <2>3. <<"left", "who">> # <<>>
        BY <2>2
    <2>4. new \in Message
        <3>1. lastSeq[t] + 1 \in Nat /\ now + 1 \in Nat \ {0}
            BY DEF AtThread
        <3> QED BY ONLY <2>2, <3>1 DEF NewRow, LeftLine, Message
    <2> QED BY <2>1, <2>3, <2>4 DEF Meaningful, SaysSomething
<1>2. /\ msgs' = [msgs EXCEPT ![t] = Append(@, new)]
      /\ lastSeq' = [lastSeq EXCEPT ![t] = @ + 1] /\ updated' = [updated EXCEPT ![t] = now + 1]
      /\ member' = member \/ member' = [member EXCEPT ![t].left = now + 1]
      /\ now' = now + 1 /\ steady' = steady \ {t} /\ pc # "done" /\ UNCHANGED request
    BY DEF Leave, Moving, Bump
<1> HIDE DEF new
<1>3. msgs'[t] = Append(msgs[t], new)
    BY <1>2 DEF AtThread
<1>4. msgs'[t] \in Seq(Message) /\ \A i \in DOMAIN msgs'[t] : Meaningful(msgs'[t][i])
    BY <1>1, <1>3, AppendMeant DEF AtThread
<1>5. /\ member' = [member EXCEPT ![t] = member'[t]]
      /\ member'[t] \in [left : {0, member[t].left, now + 1}, cleared : Nat, read : Nat]
    <2>1. CASE member' = member
        BY <2>1 DEF AtThread
    <2>2. CASE member' = [member EXCEPT ![t].left = now + 1]
        <3>1. member'[t] = [member[t] EXCEPT !.left = now + 1]
            BY <2>2 DEF AtThread
        <3>2. member' = [member EXCEPT ![t] = member'[t]]
            BY <2>2 DEF AtThread
        <3> QED BY <3>1, <3>2 DEF AtThread
    <2> QED BY <1>2, <2>1, <2>2
<1>6. /\ lastSeq'[t] = lastSeq[t] + 1 /\ lastSeq' = [lastSeq EXCEPT ![t] = lastSeq'[t]]
      /\ updated'[t] = now + 1 /\ updated' = [updated EXCEPT ![t] = updated'[t]]
      /\ msgs' = [msgs EXCEPT ![t] = msgs'[t]]
    BY <1>2 DEF AtThread
<1>7. lastSeq'[t] \in Nat /\ lastSeq'[t] # 0
    BY <1>6 DEF AtThread
<1> QED BY <1>2, <1>4, <1>5, <1>6, <1>7 DEF Moved

LEMMA EditMoves ==
    ASSUME NEW t \in Threads, AtThread(t), NEW i \in DOMAIN msgs[t], NEW body \in Edits,
           Edit(t, i, body)
    PROVE  Moved(t)
<1> DEFINE new == [msgs[t][i] EXCEPT !.body = body]
<1>1. /\ msgs[t][i] \in Message /\ msgs[t][i].kind = "text"
      /\ body \in Seq(Words) /\ body # <<>>
    BY WordsAssumption DEF AtThread, Edit
<1>2. new \in Message /\ Meaningful(new)
    BY <1>1 DEF Message, Meaningful, SaysSomething
<1>3. /\ msgs' = [msgs EXCEPT ![t][i].body = body]
      /\ lastSeq' = [lastSeq EXCEPT ![t] = @ + 1] /\ updated' = [updated EXCEPT ![t] = now + 1]
      /\ member' = member
      /\ now' = now + 1 /\ steady' = steady \ {t} /\ pc # "done" /\ UNCHANGED request
    BY DEF Edit, Moving, Bump
<1>4. msgs' = [msgs EXCEPT ![t] = msgs'[t]] /\ msgs'[t] = [msgs[t] EXCEPT ![i] = new]
    BY <1>3 DEF AtThread
<1> HIDE DEF new
<1>5. msgs'[t] \in Seq(Message) /\ \A j \in DOMAIN msgs'[t] : Meaningful(msgs'[t][j])
    BY <1>2, <1>4 DEF AtThread
<1>6. /\ lastSeq'[t] = lastSeq[t] + 1 /\ lastSeq' = [lastSeq EXCEPT ![t] = lastSeq'[t]]
      /\ updated'[t] = now + 1 /\ updated' = [updated EXCEPT ![t] = updated'[t]]
      /\ member' = [member EXCEPT ![t] = member'[t]]
      /\ member'[t] \in [left : {0, member[t].left, now + 1}, cleared : Nat, read : Nat]
    BY <1>3 DEF AtThread
<1>7. lastSeq'[t] \in Nat /\ lastSeq'[t] # 0
    BY <1>6 DEF AtThread
<1> QED BY <1>3, <1>4, <1>5, <1>6, <1>7 DEF Moved

LEMMA TombstoneIsMeant ==
    ASSUME NEW m \in Message, m.kind # "system"
    PROVE  /\ Tombstone(m) \in Message /\ Meaningful(Tombstone(m))
           /\ [Tombstone(m) EXCEPT !.sender = Nobody] \in Message
           /\ Meaningful([Tombstone(m) EXCEPT !.sender = Nobody])
<1>1. <<>> \in Seq(Words)
    OBVIOUS
<1>2. Tombstone(m) \in Message
    BY <1>1 DEF Message, Tombstone
<1>3. Tombstone(m).kind # "system" /\ Tombstone(m).deleted = TRUE
    BY DEF Message, Tombstone
<1> DEFINE gone == [Tombstone(m) EXCEPT !.sender = Nobody]
<1>4. gone \in Message
    BY <1>2 DEF Message
<1>5. gone.kind # "system" /\ gone.deleted = TRUE
    BY <1>2, <1>3 DEF Message
<1> QED BY <1>2, <1>3, <1>4, <1>5 DEF Meaningful

LEMMA WithdrawMoves ==
    ASSUME NEW t \in Threads, AtThread(t), NEW i \in DOMAIN msgs[t], Withdraw(t, i)
    PROVE  Moved(t)
<1>1. msgs[t][i] \in Message /\ msgs[t][i].kind # "system"
    BY DEF AtThread, Withdraw, Meaningful, SaysSomething
<1>2. Tombstone(msgs[t][i]) \in Message /\ Meaningful(Tombstone(msgs[t][i]))
    BY <1>1, TombstoneIsMeant
<1>3. /\ msgs' = [msgs EXCEPT ![t][i] = Tombstone(@)]
      /\ lastSeq' = [lastSeq EXCEPT ![t] = @ + 1] /\ updated' = [updated EXCEPT ![t] = now + 1]
      /\ member' = member
      /\ now' = now + 1 /\ steady' = steady \ {t} /\ pc # "done" /\ UNCHANGED request
    BY DEF Withdraw, Moving, Bump
<1>4. /\ msgs' = [msgs EXCEPT ![t] = msgs'[t]]
      /\ msgs'[t] = [msgs[t] EXCEPT ![i] = Tombstone(msgs[t][i])]
    BY <1>3 DEF AtThread
<1>5. msgs'[t] \in Seq(Message) /\ \A j \in DOMAIN msgs'[t] : Meaningful(msgs'[t][j])
    BY <1>2, <1>4 DEF AtThread
<1>6. /\ lastSeq'[t] = lastSeq[t] + 1 /\ lastSeq' = [lastSeq EXCEPT ![t] = lastSeq'[t]]
      /\ updated'[t] = now + 1 /\ updated' = [updated EXCEPT ![t] = updated'[t]]
      /\ member' = [member EXCEPT ![t] = member'[t]]
      /\ member'[t] \in [left : {0, member[t].left, now + 1}, cleared : Nat, read : Nat]
    BY <1>3 DEF AtThread
<1>7. lastSeq'[t] \in Nat /\ lastSeq'[t] # 0
    BY <1>6 DEF AtThread
<1> QED BY <1>3, <1>4, <1>5, <1>6, <1>7 DEF Moved

LEMMA EraseMoves ==
    ASSUME ThreadsInv, NEW t \in Threads, AtThread(t), Erase(t)
    PROVE  Moved(t)
<1> DEFINE gone == {i \in DOMAIN msgs[t] : msgs[t][i].sender = "other" /\ ~msgs[t][i].deleted}
           Erased(m) == [Tombstone(m) EXCEPT !.sender = Nobody]
           new == [i \in DOMAIN msgs[t] |-> IF i \in gone THEN Erased(msgs[t][i]) ELSE msgs[t][i]]
<1>1. gone # {} /\ gone \in SUBSET DOMAIN msgs[t]
    BY DEF Erase
<1>2. Cardinality(gone) \in Nat
    <2> HIDE DEF gone
    <2> QED BY <1>1, PartsAreFinite
<1>3. \A i \in gone : Erased(msgs[t][i]) \in Message /\ Meaningful(Erased(msgs[t][i]))
    <2> TAKE i \in gone
    <2>1. msgs[t][i] \in Message /\ msgs[t][i].kind # "system"
        BY DEF AtThread, Meaningful, SaysSomething, Nobody
    <2> QED BY <2>1, TombstoneIsMeant
<1>4. /\ msgs' = [msgs EXCEPT ![t] = new]
      /\ lastSeq' = [lastSeq EXCEPT ![t] = @ + Cardinality(gone)]
      /\ updated' = [updated EXCEPT ![t] = now + 1] /\ member' = member
      /\ now' = now + 1 /\ steady' = steady \ {t} /\ pc # "done" /\ UNCHANGED request
    BY DEF Erase, Moving
<1>5. new \in Seq(Message) /\ \A j \in DOMAIN new : Meaningful(new[j])
    <2> HIDE DEF gone, Erased
    <2>1. \A j \in DOMAIN msgs[t] : new[j] \in Message /\ Meaningful(new[j])
        BY <1>3 DEF AtThread
    <2>2. msgs[t] \in Seq(Message) /\ DOMAIN new = DOMAIN msgs[t]
        BY DEF AtThread
    <2> HIDE DEF new
    <2>3. Len(msgs[t]) \in Nat /\ DOMAIN new = 1 .. Len(msgs[t])
        BY <2>2
    <2>4. new = [j \in 1 .. Len(msgs[t]) |-> new[j]]
        BY <2>2, <2>3 DEF new
    <2> DEFINE n == Len(msgs[t])
    <2> HIDE DEF n
    <2>5. n \in Nat /\ new \in [1 .. n -> Message]
        BY ONLY <2>1, <2>2, <2>3, <2>4 DEF n
    <2>6. new \in Seq(Message)
        BY ONLY <2>5
    <2> QED BY <2>1, <2>2, <2>6
<1>6. lastSeq[t] # 0
    BY <1>1 DEF AtThread
<1> HIDE DEF gone, Erased, new
<1>7. msgs' = [msgs EXCEPT ![t] = msgs'[t]] /\ msgs'[t] = new
    BY <1>4 DEF AtThread
<1>8. /\ lastSeq'[t] = lastSeq[t] + Cardinality(gone)
      /\ lastSeq' = [lastSeq EXCEPT ![t] = lastSeq'[t]]
      /\ updated'[t] = now + 1 /\ updated' = [updated EXCEPT ![t] = updated'[t]]
      /\ member' = [member EXCEPT ![t] = member'[t]]
      /\ member'[t] \in [left : {0, member[t].left, now + 1}, cleared : Nat, read : Nat]
    BY <1>4 DEF AtThread
<1>9. lastSeq'[t] \in Nat /\ lastSeq'[t] # 0
    BY <1>2, <1>6, <1>8 DEF AtThread
<1> QED BY <1>4, <1>5, <1>7, <1>8, <1>9 DEF Moved

LEMMA MarkMoves ==
    ASSUME NEW t \in Threads, AtThread(t),
           NEW row \in [left : {0, member[t].left, now + 1}, cleared : Nat, read : Nat],
           Mark(t, row)
    PROVE  Moved(t)
<1>1. /\ msgs' = msgs /\ lastSeq' = lastSeq /\ updated' = updated
      /\ member' = [member EXCEPT ![t] = row]
      /\ now' = now + 1 /\ steady' = steady \ {t} /\ pc # "done" /\ UNCHANGED request
    BY DEF Mark, Moving
<1>2. member'[t] = row /\ member' = [member EXCEPT ![t] = member'[t]]
    BY <1>1 DEF AtThread
<1>3. /\ msgs' = [msgs EXCEPT ![t] = msgs'[t]] /\ lastSeq' = [lastSeq EXCEPT ![t] = lastSeq'[t]]
      /\ updated' = [updated EXCEPT ![t] = updated'[t]] /\ updated'[t] = updated[t]
    BY <1>1 DEF AtThread
<1>4. /\ msgs'[t] \in Seq(Message) /\ \A i \in DOMAIN msgs'[t] : Meaningful(msgs'[t][i])
      /\ lastSeq'[t] \in Nat /\ (lastSeq'[t] = 0 => msgs'[t] = <<>>)
    BY <1>1 DEF AtThread
<1> QED BY <1>1, <1>2, <1>3, <1>4 DEF Moved

LEMMA HappensMoves ==
    ASSUME ThreadsInv, MessagesInv, NEW t \in Threads, Happens(t)
    PROVE  Moved(t)
<1>0. AtThread(t)
    BY ThreadAt
<1>1. CASE Rejoin(t)
    <2> DEFINE row == [member[t] EXCEPT !.left = 0]
    <2>1. Mark(t, row)
        BY <1>1 DEF Rejoin
    <2>2. row \in [left : {0, member[t].left, now + 1}, cleared : Nat, read : Nat]
        BY <1>0 DEF AtThread
    <2> HIDE DEF row
    <2> QED BY <1>0, <2>1, <2>2, MarkMoves
<1>2. CASE Clear(t)
    <2> DEFINE row == [member[t] EXCEPT !.cleared = now + 1]
    <2>1. Mark(t, row)
        BY <1>2 DEF Clear
    <2>2. row \in [left : {0, member[t].left, now + 1}, cleared : Nat, read : Nat]
        BY <1>0 DEF AtThread
    <2> HIDE DEF row
    <2> QED BY <1>0, <2>1, <2>2, MarkMoves
<1>3. CASE Read(t)
    <2> DEFINE newest == Last(msgs[t]).seq
               row == [member[t] EXCEPT !.read = IF @ < newest THEN newest ELSE @]
    <2>1. Mark(t, row) /\ msgs[t] # <<>>
        BY <1>3 DEF Read
    <2>2. newest \in Nat
        <3>1. Len(msgs[t]) \in DOMAIN msgs[t]
            BY <1>0, <2>1 DEF AtThread
        <3>2. msgs[t][Len(msgs[t])] \in Message
            BY <1>0, <3>1 DEF AtThread
        <3> QED BY <3>2 DEF Last, Message
    <2>3. row \in [left : {0, member[t].left, now + 1}, cleared : Nat, read : Nat]
        <3> HIDE DEF newest
        <3> QED BY <1>0, <2>2 DEF AtThread
    <2> HIDE DEF row
    <2> QED BY <1>0, <2>1, <2>3, MarkMoves
<1>4. CASE Erase(t)
    BY <1>0, <1>4, EraseMoves
<1>5. CASE \E m \in Says : Say(t, m)
    BY <1>0, <1>5, SayMoves
<1>6. CASE \E i \in DOMAIN msgs[t], body \in Edits : Edit(t, i, body)
    BY <1>0, <1>6, EditMoves
<1>7. CASE \E i \in DOMAIN msgs[t] : Withdraw(t, i)
    BY <1>0, <1>7, WithdrawMoves
<1>8. CASE \E viewer \in BOOLEAN : Leave(t, viewer)
    BY <1>0, <1>8, LeaveMoves
<1> QED BY <1>1, <1>2, <1>3, <1>4, <1>5, <1>6, <1>7, <1>8 DEF Happens

LEMMA MovedKeepsThreads ==
    ASSUME ThreadsInv, MessagesInv, TimesInv, NEW t \in Threads, Moved(t)
    PROVE  ThreadsInv' /\ MessagesInv' /\ TimesInv'
<1>1. now \in Nat /\ now' = now + 1
    BY DEF ThreadsInv, Moved
<1>2. msgs' \in [Threads -> Seq(Message)] /\ lastSeq' \in [Threads -> Nat]
    <2>1. /\ msgs \in [Threads -> Seq(Message)] /\ lastSeq \in [Threads -> Nat]
          /\ msgs'[t] \in Seq(Message) /\ lastSeq'[t] \in Nat
        BY DEF ThreadsInv, Moved
    <2>2. msgs' = [msgs EXCEPT ![t] = msgs'[t]] /\ lastSeq' = [lastSeq EXCEPT ![t] = lastSeq'[t]]
        BY DEF Moved
    <2> QED BY ONLY <2>1, <2>2
<1>3. updated' \in [Threads -> 1 .. now']
    <2>1. /\ updated \in [Threads -> 1 .. now] /\ updated' = [updated EXCEPT ![t] = updated'[t]]
          /\ updated'[t] \in {updated[t], now + 1}
        BY DEF ThreadsInv, Moved
    <2>2. updated[t] \in 1 .. now + 1 /\ now + 1 \in 1 .. now + 1
        BY <1>1, <2>1
    <2>3. \A u \in Threads : updated[u] \in 1 .. now + 1
        BY ONLY <1>1, <2>1
    <2>4. updated \in [Threads -> 1 .. now + 1]
        <3>1. updated = [u \in Threads |-> updated[u]]
            BY ONLY <2>1
        <3> QED BY ONLY <2>3, <3>1
    <2>5. updated'[t] \in 1 .. now + 1
        BY ONLY <2>1, <2>2
    <2>6. updated' \in [Threads -> 1 .. now + 1]
        BY ONLY <2>1, <2>4, <2>5
    <2> QED BY ONLY <1>1, <2>6
<1> USE DEF Moved
<1>4. member' \in [Threads -> [left : 0 .. now', cleared : Nat, read : Nat]]
    <2> DEFINE M == [left : 0 .. now + 1, cleared : Nat, read : Nat]
    <2>1. \A u \in Threads : member[u] \in M
        <3>1. \A u \in Threads : member[u] \in [left : 0 .. now, cleared : Nat, read : Nat]
            BY ONLY ThreadsInv DEF ThreadsInv
        <3>2. 0 .. now \subseteq 0 .. now + 1
            BY ONLY <1>1
        <3> QED BY ONLY <3>1, <3>2
    <2>2. member'[t] \in M
        <3>1. member[t].left \in 0 .. now + 1
            BY <2>1
        <3> QED BY <1>1, <3>1
    <2> HIDE DEF M
    <2>3. member = [u \in Threads |-> member[u]] /\ member' = [member EXCEPT ![t] = member'[t]]
        BY DEF ThreadsInv
    <2>4. member' \in [Threads -> M]
        BY ONLY <2>1, <2>2, <2>3
    <2> QED BY <1>1, <2>4 DEF M
<1>5. MessagesInv'
    <2> SUFFICES ASSUME NEW u \in Threads
                 PROVE  /\ lastSeq'[u] = 0 => msgs'[u] = <<>>
                        /\ \A i \in DOMAIN msgs'[u] : Meaningful(msgs'[u][i])
        BY DEF MessagesInv
    <2>1. CASE u = t
        BY <2>1
    <2>2. CASE u # t
        <3>1. lastSeq'[u] = lastSeq[u] /\ msgs'[u] = msgs[u]
            BY <2>2 DEF ThreadsInv
        <3> QED BY <3>1 DEF MessagesInv
    <2> QED BY <2>1, <2>2
<1>6. \A u \in Threads : updated[u] \in 1 .. now /\ member[u].left \in 0 .. now
    BY DEF ThreadsInv
<1>7. Distinct(updated)'
    <2> SUFFICES ASSUME NEW u \in Threads, NEW v \in Threads, updated'[u] = updated'[v], u # v
                 PROVE  FALSE
        BY DEF Distinct
    <2>1. updated[u] # updated[v]
        BY <1>6 DEF TimesInv, Distinct
    <2>2. \A x \in Threads : updated'[x] = updated[x] \/ (x = t /\ updated'[x] = now + 1)
        BY DEF ThreadsInv
    <2> QED BY <1>1, <1>6, <2>1, <2>2
<1>8. Distinct([x \in Threads |-> member[x].left])'
    <2> SUFFICES ASSUME NEW u \in Threads, NEW v \in Threads,
                        member'[u].left = member'[v].left, u # v, member'[u].left # 0
                 PROVE  FALSE
        BY DEF Distinct
    <2>1. member[u].left # member[v].left \/ member[u].left = 0
        BY DEF TimesInv, Distinct
    <2>2. \A x \in Threads : \/ member'[x].left = member[x].left
                             \/ x = t /\ member'[x].left \in {0, now + 1}
        BY DEF ThreadsInv
    <2> QED BY <1>1, <1>6, <2>1, <2>2
<1> QED BY <1>1, <1>2, <1>3, <1>4, <1>5, <1>7, <1>8 DEF ThreadsInv, TimesInv

(***************************************************************************)
(* A thread to which nothing happens is listed and read as before.         *)
(***************************************************************************)
Same(t) == msgs'[t] = msgs[t] /\ member'[t] = member[t] /\ updated'[t] = updated[t]

LEMMA StillRead ==
    ASSUME NEW t \in Threads, Same(t)
    PROVE  LastLine(t)' = LastLine(t) /\ Unread(t)' = Unread(t)
<1>1. Kept(t)' = Kept(t)
    BY DEF Same, Kept
<1>2. \A S : Newest(t, S)' = Newest(t, S)
    BY DEF Same, Newest
<1>3. Unread(t)' = Unread(t)
    BY DEF Same, Unread
<1> QED BY <1>1, <1>2, <1>3 DEF LastLine

LEMMA StillListed ==
    ASSUME NEW t \in Threads, Same(t), walk' = walk
    PROVE  /\ OnList(t)' <=> OnList(t)
           /\ Key(t)' = Key(t)
           /\ Shows(t)' <=> Shows(t)
           /\ Titled(t)' <=> Titled(t)
<1>1. LastLine(t)' = LastLine(t) /\ Unread(t)' = Unread(t)
    BY StillRead
<1>2. OnList(t)' <=> OnList(t)
    BY <1>1 DEF OnList, Same, Stays, ViewerLeftAt
<1>3. Key(t)' = Key(t)
    BY DEF Key, Same, ViewerLeftAt
<1>4. Titled(t)' <=> Titled(t)
    BY DEF Titled, TitleMatches
<1>5. FoundByLine(LastLine(t), walk.needle)' <=> FoundByLine(LastLine(t), walk.needle)
    BY <1>1 DEF FoundByLine
<1>6. Shows(t)' <=> Shows(t)
    BY <1>5 DEF Shows
<1> QED BY <1>2, <1>3, <1>4, <1>6

(***************************************************************************)
(* While a thread moves the request stands still, and so does all that     *)
(* the walk promises of the other threads.                                 *)
(***************************************************************************)
LEMMA MoveStep ==
    ASSUME IInv, NEW t \in Threads, Happens(t)
    PROVE  IInv'
<1>1. Moved(t)
    BY HappensMoves DEF IInv
<1>2. ThreadsInv' /\ MessagesInv' /\ TimesInv'
    BY <1>1, MovedKeepsThreads DEF IInv
<1>3. /\ pc' = pc /\ walk' = walk /\ anchor' = anchor /\ cards' = cards /\ page' = page
      /\ served' = served /\ spared' = spared /\ steady' = steady \ {t} /\ now' = now + 1
      /\ pc # "done"
    BY <1>1 DEF Moved, request
<1>4. now \in Nat /\ anchor \in 0 .. now
    BY DEF IInv, ThreadsInv, WalkTypes
<1>5. WalkTypes'
    <2>1. anchor' \in 0 .. now'
        BY <1>3, <1>4
    <2> QED BY <1>3, <2>1 DEF IInv, WalkTypes, Served, Listed
<1>6. PhasesInv' /\ CardsInv' /\ NoTwice' /\ Have' = Have
    BY <1>3 DEF IInv, PhasesInv, CardsInv, TitleMatches, NoTwice, Have
<1>7. FoundInv'
    <2>1. \A r : Told(r)' <=> Told(r)
        BY <1>3 DEF Told, FoundByLine
    <2> QED BY <1>3, <2>1 DEF IInv, FoundInv, TitleMatches
<1>8. \A u \in Threads \ {t} : Same(u)
    BY <1>1 DEF IInv, ThreadsInv, Moved, Same
<1>9. \A u \in Threads \ {t} :
         /\ OnList(u)' <=> OnList(u)
         /\ Key(u)' = Key(u)
         /\ Shows(u)' <=> Shows(u)
         /\ Titled(u)' <=> Titled(u)
    BY <1>3, <1>8, StillListed
<1>10. Have \subseteq Threads /\ steady \subseteq Threads
    <2>1. \A i \in DOMAIN served : served[i] \in Served
        BY DEF IInv, WalkTypes
    <2>2. \A i \in DOMAIN page.rows : page.rows[i] \in Listed
        BY DEF IInv, WalkTypes
    <2> QED BY <2>1, <2>2 DEF Have, Served, Listed, IInv, WalkTypes
<1>11. BehindInv'
    <2> SUFFICES ASSUME NEW u \in Have
                 PROVE  anchor # 0 /\ (Key(u)' >= anchor \/ (walk.left /\ Key(u)' = 0))
        BY <1>3, <1>6 DEF BehindInv
    <2>1. anchor # 0 /\ (Key(u) >= anchor \/ (walk.left /\ Key(u) = 0))
        BY DEF IInv, BehindInv
    <2>2. CASE u # t
        BY <1>9, <1>10, <2>1, <2>2
    <2>3. CASE u = t
        <3>1. CASE walk.left
            <4>1. Key(t)' = member'[t].left /\ Key(t) = member[t].left
                BY <1>3, <3>1 DEF Key, ViewerLeftAt
            <4>2. member'[t].left \in {0, member[t].left, now + 1}
                BY <1>1 DEF Moved
            <4> QED BY <1>4, <2>1, <2>3, <3>1, <4>1, <4>2
        <3>2. CASE ~walk.left
            <4>1. Key(t)' = updated'[t] /\ Key(t) = updated[t]
                BY <1>3, <3>2 DEF Key
            <4>2. updated'[t] \in {updated[t], now + 1}
                BY <1>1 DEF Moved
            <4> QED BY <1>4, <2>1, <2>3, <3>2, <4>1, <4>2
        <3> QED BY <3>1, <3>2
    <2> QED BY <2>2, <2>3
<1>12. SteadyInv'
    BY <1>3, <1>6, <1>9, <1>10 DEF IInv, SteadyInv
<1>13. IdsInv'
    BY <1>3, <1>9, <1>10 DEF IInv, IdsInv
<1>14. CompleteInv'
    <2>1. \A u \in Threads \ {t} : Ahead(u)' <=> Ahead(u)
        BY <1>3, <1>9 DEF Ahead
    <2> QED BY <1>3, <1>6, <1>9, <1>10, <2>1 DEF IInv, CompleteInv
<1> QED BY <1>2, <1>5, <1>6, <1>7, <1>11, <1>12, <1>13, <1>14 DEF IInv

LEMMA InvInit == Init => IInv
<1> SUFFICES ASSUME Init PROVE IInv
    OBVIOUS
<1>1. PICK p \in Prior :
         /\ msgs = p.msgs /\ lastSeq = p.lastSeq /\ updated = p.updated
         /\ member = p.member /\ otherLeft = p.otherLeft /\ now = p.now
    BY DEF Init
<1>2. /\ p.msgs \in [Threads -> Seq(Message)] /\ p.lastSeq \in [Threads -> Nat]
      /\ p.now \in Nat /\ p.updated \in [Threads -> 1 .. p.now]
      /\ p.member \in [Threads -> [left : 0 .. p.now, cleared : Nat, read : Nat]]
      /\ Distinct(p.updated) /\ Distinct([t \in Threads |-> p.member[t].left])
      /\ \A t \in Threads :
            /\ p.lastSeq[t] = 0 => p.msgs[t] = <<>>
            /\ \A i \in DOMAIN p.msgs[t] :
                  p.msgs[t][i].kind = "system" \/ ~p.msgs[t][i].deleted =>
                     SaysSomething(p.msgs[t][i])
    BY PriorAssumption
<1>3. ThreadsInv /\ TimesInv
    BY <1>1, <1>2 DEF ThreadsInv, TimesInv
<1>4. MessagesInv
    BY <1>1, <1>2 DEF MessagesInv, Meaningful
<1>5. /\ pc = "start" /\ anchor = 0 /\ cards = <<>> /\ served = <<>> /\ walk.left = FALSE
      /\ page = [rows |-> <<>>, more |-> FALSE, ids |-> {}] /\ steady = Threads /\ spared = FALSE
    BY DEF Init
<1>6. /\ served = <<>> /\ page.rows = <<>> /\ page.ids = {} /\ page.more = FALSE
      /\ DOMAIN served = {} /\ DOMAIN page.rows = {}
    BY <1>5
<1>7. WalkTypes
    <2>1. anchor \in 0 .. now /\ <<>> \in Seq(Listed) /\ <<>> \in Seq(Served)
        BY <1>3, <1>5 DEF ThreadsInv
    <2> QED BY <1>5, <2>1 DEF WalkTypes
<1>8. PhasesInv /\ CardsInv /\ FoundInv /\ NoTwice /\ Have = {}
    BY <1>5, <1>6 DEF PhasesInv, CardsInv, FoundInv, NoTwice, Have
<1>9. BehindInv /\ SteadyInv /\ IdsInv /\ CompleteInv
    BY <1>5, <1>8 DEF BehindInv, SteadyInv, IdsInv, CompleteInv, Ahead
<1> QED BY <1>3, <1>4, <1>7, <1>8, <1>9 DEF IInv

(***************************************************************************)
(* A step of the request leaves the threads alone.                         *)
(***************************************************************************)
LEMMA ThreadsStand ==
    ASSUME ThreadsInv, MessagesInv, TimesInv, UNCHANGED threads
    PROVE  /\ ThreadsInv' /\ MessagesInv' /\ TimesInv' /\ now' = now
           /\ \A t \in Threads : Same(t)
BY DEF threads, ThreadsInv, MessagesInv, TimesInv, Same, Distinct

LEMMA HaveAreThreads ==
    ASSUME WalkTypes
    PROVE  Have \subseteq Threads /\ steady \subseteq Threads /\ page.ids \subseteq Threads
<1>1. \A i \in DOMAIN served : served[i] \in Served
    BY DEF WalkTypes
<1>2. \A i \in DOMAIN page.rows : page.rows[i] \in Listed
    BY DEF WalkTypes
<1> QED BY <1>1, <1>2 DEF Have, Served, Listed, WalkTypes

LEMMA BeginStep ==
    ASSUME IInv, NEW w \in Walks, Begin(w)
    PROVE  IInv'
<1>1. /\ walk' = w /\ pc' = (IF w.needle = NoNeedle THEN "select" ELSE "scan")
      /\ steady' = Threads /\ UNCHANGED threads
      /\ anchor' = anchor /\ cards' = cards /\ page' = page /\ served' = served
      /\ spared' = spared /\ pc = "start"
    BY DEF Begin
<1>2. ThreadsInv' /\ MessagesInv' /\ TimesInv' /\ now' = now
    BY <1>1, ThreadsStand DEF IInv
<1>3. /\ served' = <<>> /\ page'.rows = <<>> /\ page'.ids = {} /\ anchor' = 0
      /\ DOMAIN served' = {} /\ DOMAIN page'.rows = {}
    BY <1>1 DEF IInv, PhasesInv
<1>4. WalkTypes'
    <2>1. w.left \in BOOLEAN
        BY WalksAssumption
    <2> QED BY <1>1, <1>2, <2>1 DEF IInv, WalkTypes, Served, Listed
<1>5. PhasesInv' /\ CardsInv' /\ FoundInv' /\ NoTwice' /\ Have' = {}
    BY <1>1, <1>3 DEF PhasesInv, CardsInv, FoundInv, NoTwice, Have
<1>6. BehindInv' /\ SteadyInv' /\ IdsInv'
    BY <1>1, <1>5 DEF BehindInv, SteadyInv, IdsInv
<1>7. CompleteInv'
    BY <1>1, <1>3 DEF CompleteInv, Ahead
<1> QED BY <1>2, <1>4, <1>5, <1>6, <1>7 DEF IInv

(***************************************************************************)
(* The beginning of a list.                                                *)
(***************************************************************************)
Cutting(f, s, n) ==
    /\ Len(f) \in Nat /\ DOMAIN f = 1 .. Len(f)
    /\ Len(f) = IF Len(s) < n THEN Len(s) ELSE n
    /\ \A i \in DOMAIN f : i \in DOMAIN s /\ f[i] = s[i]

LEMMA FirstOfCuts ==
    ASSUME NEW S, NEW s \in Seq(S), NEW n \in Nat \ {0}
    PROVE  Cutting(FirstOf(s, n), s, n) /\ FirstOf(s, n) \in Seq(S)
<1> DEFINE k == IF Len(s) < n THEN Len(s) ELSE n
<1>1. k \in 0 .. Len(s) /\ Len(s) \in Nat /\ k \in Nat
    OBVIOUS
<1>2. FirstOf(s, n) = SubSeq(s, 1, k) /\ k = IF Len(s) < n THEN Len(s) ELSE n
    BY DEF FirstOf
<1> HIDE DEF k
<1>3. /\ SubSeq(s, 1, k) \in Seq(S) /\ Len(SubSeq(s, 1, k)) = k
      /\ \A i \in 1 .. k : SubSeq(s, 1, k)[i] = s[i]
    BY <1>1
<1>4. DOMAIN SubSeq(s, 1, k) = 1 .. k /\ \A i \in 1 .. k : i \in DOMAIN s
    BY <1>1, <1>3
<1> QED BY <1>1, <1>2, <1>3, <1>4 DEF Cutting

\* The threads that the scan may read.
Subjects == {t \in Threads : OnList(t) /\ SubjectOf[t] # NoSubject}

LEMMA ScanReadsTheList ==
    ASSUME ThreadsInv, TimesInv
    PROVE  /\ Scanned \subseteq Subjects
           /\ ~(Len(WithSubject) > ScanLimit) => Scanned = Subjects
<1> DEFINE place == [t \in Subjects |-> -updated[t]]
<1>1. IsFiniteSet(Subjects)
    BY ThreadsAssumption, FS_Subset DEF Subjects
<1>2. place \in [Subjects -> Int] /\ \A x, y \in Subjects : place[x] = place[y] => x = y
    <2>1. \A x \in Subjects : x \in Threads /\ updated[x] \in 1 .. now /\ now \in Nat
        BY DEF ThreadsInv, Subjects
    <2>2. \A x, y \in Subjects : updated[x] = updated[y] => x = y
        BY <2>1 DEF TimesInv, Distinct
    <2>3. \A x \in Subjects : -updated[x] \in Int /\ updated[x] \in Int
        BY <2>1
    <2> QED BY <2>2, <2>3
<1>3. Sorted(InOrder(Subjects, place), Subjects, place)
    <2> HIDE DEF place
    <2> QED BY <1>1, <1>2, InOrderSorts
<1>4. WithSubject = InOrder(Subjects, place)
    BY DEF WithSubject, NewestFirst, Subjects
<1>5. Sorted(WithSubject, Subjects, place)
    BY <1>3, <1>4
<1> HIDE DEF place
<1>6. WithSubject \in Seq(Subjects) /\ ScanLimit \in Nat \ {0}
    BY <1>5, BoundsAssumption DEF Sorted
<1>7. Cutting(Cut(WithSubject), WithSubject, ScanLimit) /\ Cut(WithSubject) \in Seq(Subjects)
    BY <1>6, FirstOfCuts DEF Cut
<1>8. Scanned \subseteq Subjects
    BY <1>7 DEF Scanned, Range
<1>9. ASSUME ~(Len(WithSubject) > ScanLimit)
      PROVE  Subjects \subseteq Scanned
    <2>1. Len(Cut(WithSubject)) = Len(WithSubject)
        BY <1>6, <1>7, <1>9 DEF Cutting
    <2>2. DOMAIN Cut(WithSubject) = DOMAIN WithSubject
        BY <1>5, <1>7, <2>1 DEF Cutting, Sorted
    <2>3. ASSUME NEW t \in Subjects PROVE t \in Scanned
        <3>1. PICK k \in DOMAIN WithSubject : WithSubject[k] = t
            BY <1>5 DEF Sorted
        <3>2. k \in DOMAIN Cut(WithSubject) /\ Cut(WithSubject)[k] = t
            BY <1>7, <2>2, <3>1 DEF Cutting
        <3> QED BY <3>2 DEF Scanned, Range
    <2> QED BY <2>3
<1> QED BY <1>8, <1>9

LEMMA ScanStep ==
    ASSUME IInv, NEW came \in BOOLEAN, Scan(came)
    PROVE  IInv'
<1> DEFINE found == {t \in Scanned : came /\ TitleMatches(SubjectOf[t], walk.needle)}
<1>1. /\ pc = "scan" /\ pc' = "select" /\ UNCHANGED threads
      /\ cards' = [s \in {SubjectOf[t] : t \in Scanned} |-> came]
      /\ page' = [page EXCEPT !.ids = found]
      /\ spared' = (spared \/ ~came \/ Len(WithSubject) > ScanLimit)
      /\ walk' = walk /\ anchor' = anchor /\ served' = served /\ steady' = steady
    BY DEF Scan
<1>2. /\ ThreadsInv' /\ MessagesInv' /\ TimesInv' /\ now' = now
      /\ \A t \in Threads : Same(t)
    BY <1>1, ThreadsStand DEF IInv
<1>3. /\ Scanned \subseteq Subjects
      /\ ~(Len(WithSubject) > ScanLimit) => Scanned = Subjects
    BY ScanReadsTheList DEF IInv
<1>4. found \subseteq Threads /\ \A t \in found : t \in Scanned /\ SubjectOf[t] # NoSubject
    BY <1>3 DEF Subjects
<1>5. /\ page' = [rows |-> page.rows, more |-> page.more, ids |-> found]
      /\ page.rows = <<>> /\ page.more \in BOOLEAN
    BY <1>1 DEF IInv, WalkTypes, PhasesInv
<1>6. WalkTypes'
    <2> HIDE DEF found
    <2>1. spared' \in BOOLEAN
        BY <1>1
    <2>2. page' \in [rows : Seq(Listed), more : BOOLEAN, ids : SUBSET Threads]
        BY <1>4, <1>5
    <2> QED BY <1>1, <1>2, <2>1, <2>2 DEF IInv, WalkTypes, Served, Listed
<1>7. PhasesInv'
    BY <1>1, <1>5 DEF PhasesInv
<1>8. CardsInv'
    <2> SUFFICES ASSUME NEW t \in found
                 PROVE  /\ SubjectOf[t] # NoSubject /\ TitleMatches(SubjectOf[t], walk.needle)
                        /\ SubjectOf[t] \in DOMAIN cards' /\ cards'[SubjectOf[t]] = TRUE
        BY <1>1, <1>5 DEF CardsInv, TitleMatches
    <2>1. t \in Scanned /\ came = TRUE
        OBVIOUS
    <2>2. SubjectOf[t] \in {SubjectOf[u] : u \in Scanned}
        BY <2>1
    <2> QED BY <1>1, <1>4, <2>1, <2>2
<1>9. Have' = Have /\ NoTwice'
    BY <1>1, <1>5 DEF Have, NoTwice, IInv
<1>10. FoundInv'
    <2>1. \A r : Told(r)' <=> Told(r)
        BY <1>1 DEF Told, FoundByLine
    <2> QED BY <1>1, <1>5, <2>1 DEF IInv, FoundInv, TitleMatches
<1>11. \A u \in Threads :
         /\ OnList(u)' <=> OnList(u)
         /\ Key(u)' = Key(u)
         /\ Shows(u)' <=> Shows(u)
         /\ Titled(u)' <=> Titled(u)
    BY <1>1, <1>2, StillListed
<1>12. Have \subseteq Threads /\ steady \subseteq Threads
    BY HaveAreThreads DEF IInv
<1>13. BehindInv' /\ SteadyInv'
    BY <1>1, <1>9, <1>11, <1>12 DEF IInv, BehindInv, SteadyInv
<1>14. IdsInv'
    <2> SUFFICES ASSUME ~spared', NEW t \in steady, OnList(t), Titled(t)
                 PROVE  t \in page'.ids
        BY <1>1, <1>11, <1>12 DEF IdsInv
    <2>1. came /\ Scanned = Subjects
        BY <1>1, <1>3
    <2>2. t \in Subjects
        BY <1>12 DEF Subjects, Titled
    <2> QED BY <1>5, <2>1, <2>2 DEF Titled
<1>15. CompleteInv'
    <2>1. \A u \in Threads : Ahead(u) => Ahead(u)'
        BY <1>1, <1>11 DEF Ahead
    <2>2. ~spared' => ~spared
        BY <1>1
    <2> QED BY <1>1, <1>9, <1>11, <1>12, <2>1, <2>2 DEF IInv, CompleteInv
<1> QED BY <1>2, <1>6, <1>7, <1>8, <1>9, <1>10, <1>13, <1>14, <1>15 DEF IInv

(***************************************************************************)
(* The page: the newest of what is past the anchor, and what is left out   *)
(* of it stands behind its last row.                                       *)
(***************************************************************************)
LEMMA ListedKeys ==
    ASSUME ThreadsInv, TimesInv, walk.left \in BOOLEAN
    PROVE  /\ now \in Nat
           /\ \A t \in Threads : Key(t) \in 0 .. now
           /\ \A t \in Threads : OnList(t) => Key(t) # 0
           /\ \A t, u \in Threads : OnList(t) /\ OnList(u) /\ Key(t) = Key(u) => t = u
<1>1. now \in Nat /\ \A t \in Threads : updated[t] \in 1 .. now /\ member[t].left \in 0 .. now
    BY DEF ThreadsInv
<1>2. CASE walk.left
    <2>1. \A t \in Threads : Key(t) = member[t].left /\ (OnList(t) => member[t].left # 0)
        BY <1>2 DEF Key, ViewerLeftAt, OnList
    <2>2. \A t, u \in Threads : member[t].left = member[u].left => t = u \/ member[t].left = 0
        BY DEF TimesInv, Distinct
    <2> QED BY <1>1, <2>1, <2>2
<1>3. CASE ~walk.left
    <2>1. \A t \in Threads : Key(t) = updated[t]
        BY <1>3 DEF Key
    <2>2. \A t, u \in Threads : updated[t] = updated[u] => t = u \/ updated[t] = 0
        BY DEF TimesInv, Distinct
    <2> QED BY <1>1, <2>1, <2>2
<1> QED BY <1>2, <1>3

\* rows are the first page of the threads P.
PageOf(rows, more, P) ==
    /\ rows \in Seq(P) /\ Len(rows) \in Nat /\ DOMAIN rows = 1 .. Len(rows)
    /\ \A j, k \in DOMAIN rows : rows[j] = rows[k] => j = k
    /\ rows # <<>> => Last(rows) \in P /\ \A k \in DOMAIN rows : Key(rows[k]) >= Key(Last(rows))
    /\ \A t \in P :
          \/ \E k \in DOMAIN rows : rows[k] = t
          \/ more /\ rows # <<>> /\ Key(t) < Key(Last(rows))

LEMMA PageIsNewest ==
    ASSUME ThreadsInv, TimesInv, walk.left \in BOOLEAN,
           NEW P \in SUBSET Threads, \A t \in P : OnList(t)
    PROVE  LET list == NewestFirst(P, [t \in P |-> Key(t)])
           IN  PageOf(FirstOf(list, PageSize), Len(list) > PageSize, P)
<1> DEFINE list == NewestFirst(P, [t \in P |-> Key(t)])
           place == [t \in P |-> -Key(t)]
           rows == FirstOf(list, PageSize)
<1>1. /\ now \in Nat
      /\ \A t \in P : Key(t) \in 1 .. now
      /\ \A t, u \in P : Key(t) = Key(u) => t = u
    BY ListedKeys
<1>2. IsFiniteSet(P)
    BY ThreadsAssumption, FS_Subset
<1>3. place \in [P -> Int] /\ \A x, y \in P : place[x] = place[y] => x = y
    <2>1. \A x \in P : -Key(x) \in Int /\ Key(x) \in Int
        BY <1>1
    <2> QED BY <1>1, <2>1
<1>4. list = InOrder(P, place)
    <2>1. [t \in P |-> -[u \in P |-> Key(u)][t]] = place
        OBVIOUS
    <2> QED BY <2>1 DEF NewestFirst
<1>5. Sorted(list, P, place)
    <2> HIDE DEF place, list
    <2> QED BY <1>2, <1>3, <1>4, InOrderSorts
<1>6. \A x, y \in P : place[x] < place[y] <=> Key(y) < Key(x)
    <2>1. \A x \in P : place[x] = -Key(x) /\ Key(x) \in Int
        BY <1>1
    <2> HIDE DEF place
    <2> QED BY <2>1
<1> HIDE DEF place, list
<1>7. list \in Seq(P) /\ Len(list) \in Nat /\ DOMAIN list = 1 .. Len(list)
    BY <1>5 DEF Sorted
<1>8. PageSize \in Nat \ {0}
    BY BoundsAssumption
<1>9. Cutting(rows, list, PageSize) /\ rows \in Seq(P)
    BY <1>7, <1>8, FirstOfCuts
<1> HIDE DEF rows
<1>10. /\ Len(rows) \in Nat /\ DOMAIN rows = 1 .. Len(rows) /\ DOMAIN list = 1 .. Len(list)
       /\ Len(rows) = (IF Len(list) < PageSize THEN Len(list) ELSE PageSize)
       /\ \A k \in DOMAIN rows : k \in DOMAIN list /\ rows[k] = list[k] /\ rows[k] \in P
    BY <1>7, <1>9 DEF Cutting
<1>11. \A j, k \in DOMAIN list : j < k => Key(list[k]) < Key(list[j])
    <2>1. \A k \in DOMAIN list : list[k] \in P
        BY <1>7
    <2>2. \A j, k \in DOMAIN list : j < k => place[list[j]] < place[list[k]]
        BY <1>5 DEF Sorted
    <2> QED BY <1>6, <2>1, <2>2
<1>12. \A j, k \in DOMAIN rows : rows[j] = rows[k] => j = k
    <2> SUFFICES ASSUME NEW j \in DOMAIN rows, NEW k \in DOMAIN rows, rows[j] = rows[k], j # k
                 PROVE  FALSE
        OBVIOUS
    <2>1. j < k \/ k < j
        BY <1>10
    <2>2. Key(rows[j]) \in Int /\ Key(rows[k]) \in Int /\ Key(rows[j]) = Key(rows[k])
        BY <1>1, <1>10
    <2> QED BY <1>10, <1>11, <2>1, <2>2
<1>13. ASSUME rows # <<>>
       PROVE  /\ Len(rows) \in DOMAIN rows /\ Last(rows) = rows[Len(rows)] /\ Last(rows) \in P
              /\ \A k \in DOMAIN rows : Key(rows[k]) >= Key(Last(rows))
    <2>1. Len(rows) \in DOMAIN rows /\ Last(rows) = rows[Len(rows)]
        BY <1>9, <1>10, <1>13 DEF Last
    <2>2. \A k \in DOMAIN rows : Key(rows[k]) >= Key(Last(rows))
        <3> TAKE k \in DOMAIN rows
        <3>1. k = Len(rows) \/ k < Len(rows)
            BY <1>10
        <3>2. Key(rows[k]) \in Int /\ Key(Last(rows)) \in Int
            BY <1>1, <1>10, <2>1
        <3> QED BY <1>10, <1>11, <2>1, <3>1, <3>2
    <2> QED BY <1>10, <2>1, <2>2
<1>14. ASSUME NEW t \in P, ~\E k \in DOMAIN rows : rows[k] = t
       PROVE  Len(list) > PageSize /\ rows # <<>> /\ Key(t) < Key(Last(rows))
    <2>1. PICK n \in DOMAIN list : list[n] = t
        BY <1>5 DEF Sorted
    <2>2. n \notin DOMAIN rows
        BY <1>10, <1>14, <2>1
    <2>3. Len(rows) < n /\ Len(rows) < Len(list)
        BY <1>10, <2>1, <2>2
    <2>4. Len(list) > PageSize /\ Len(rows) = PageSize
        <3>1. Len(list) \in Nat /\ PageSize \in Nat /\ Len(rows) \in Nat
            BY <1>7, <1>8, <1>10
        <3>2. Len(rows) = IF Len(list) < PageSize THEN Len(list) ELSE PageSize
            BY <1>10
        <3>3. ~(Len(list) < PageSize)
            BY <2>3, <3>1, <3>2
        <3> QED BY <2>3, <3>1, <3>2, <3>3
    <2>5. rows # <<>>
        BY <1>8, <2>4
    <2>6. Key(list[n]) < Key(list[Len(rows)])
        BY <1>10, <1>11, <1>13, <2>3, <2>5
    <2> QED BY <1>10, <1>13, <2>1, <2>4, <2>5, <2>6
<1>15. PageOf(rows, Len(list) > PageSize, P)
    BY <1>9, <1>10, <1>12, <1>13, <1>14 DEF PageOf
<1> QED BY <1>15 DEF rows, list

LEMMA SelectStep ==
    ASSUME IInv, Select
    PROVE  IInv'
<1> DEFINE past == {t \in Threads : /\ OnList(t) /\ Matches(t, page.ids)
                                    /\ anchor # 0 => Key(t) < anchor}
           list == NewestFirst(past, [t \in past |-> Key(t)])
           rows == FirstOf(list, PageSize)
           more == Len(list) > PageSize
           drawn == [i \in DOMAIN rows |-> Row(rows[i])]
<1>1. /\ pc = "select" /\ pc' = "draw" /\ UNCHANGED threads
      /\ page' = [page EXCEPT !.rows = drawn, !.more = more]
      /\ anchor' = (IF rows = <<>> THEN anchor ELSE Key(Last(rows)))
      /\ walk' = walk /\ cards' = cards /\ served' = served /\ steady' = steady
      /\ spared' = spared
    BY DEF Select
<1>2. /\ ThreadsInv' /\ MessagesInv' /\ TimesInv' /\ now' = now
      /\ \A t \in Threads : Same(t)
    BY <1>1, ThreadsStand DEF IInv
<1>3. walk.left \in BOOLEAN /\ past \in SUBSET Threads /\ \A t \in past : OnList(t)
    BY DEF IInv, WalkTypes
<1>4. PageOf(rows, more, past)
    <2> HIDE DEF past
    <2> QED BY <1>3, PageIsNewest DEF IInv
<1>5. /\ \A t \in past : /\ t \in Threads /\ OnList(t) /\ Matches(t, page.ids)
                         /\ anchor # 0 => Key(t) < anchor
      /\ \A t \in Threads : OnList(t) /\ Matches(t, page.ids) /\ (anchor # 0 => Key(t) < anchor)
            => t \in past
    OBVIOUS
<1>6. more \in BOOLEAN
    OBVIOUS
<1> HIDE DEF past, rows, more
<1>7. /\ Len(rows) \in Nat /\ DOMAIN rows = 1 .. Len(rows) /\ DOMAIN drawn = DOMAIN rows
      /\ \A i \in DOMAIN rows : rows[i] \in past /\ rows[i] \in Threads
      /\ \A i \in DOMAIN rows : drawn[i] = Row(rows[i]) /\ drawn[i].thread = rows[i]
                                /\ drawn[i].line = LastLine(rows[i])
    BY <1>4, <1>5 DEF PageOf, Row
<1>8. drawn \in Seq(Listed)
    <2>1. \A i \in DOMAIN rows : Row(rows[i]) \in Listed
        BY <1>7, LineIsMeant, UnreadIsNat DEF IInv, Row, Listed
    <2> QED BY <1>7, <2>1
<1> HIDE DEF drawn
<1>9. /\ page' = [rows |-> drawn, more |-> more, ids |-> page.ids] /\ page.rows = <<>>
      /\ page'.rows = drawn /\ page'.more = more /\ page'.ids = page.ids
      /\ page.ids \subseteq Threads
    BY <1>1 DEF IInv, WalkTypes, PhasesInv
<1>10. /\ now \in Nat /\ anchor \in 0 .. now
       /\ \A t \in Threads : Key(t) \in 0 .. now
       /\ \A t \in Threads : OnList(t) => Key(t) # 0
    BY <1>3, ListedKeys DEF IInv, WalkTypes
<1>11. /\ rows # <<>> => Key(Last(rows)) \in 1 .. now /\ (anchor # 0 => Key(Last(rows)) < anchor)
       /\ anchor' \in 0 .. now
    BY <1>1, <1>4, <1>5, <1>10 DEF PageOf
<1>12. WalkTypes'
    BY <1>1, <1>2, <1>6, <1>8, <1>9, <1>11 DEF IInv, WalkTypes, Served, Listed
<1>13. PhasesInv' /\ CardsInv' /\ IdsInv'
    BY <1>1, <1>9 DEF IInv, PhasesInv, CardsInv, IdsInv, TitleMatches
<1>14. \A u \in Threads :
         /\ OnList(u)' <=> OnList(u)
         /\ Key(u)' = Key(u)
         /\ Shows(u)' <=> Shows(u)
         /\ Titled(u)' <=> Titled(u)
    BY <1>1, <1>2, StillListed
<1>15. FoundInv'
    <2>1. \A r : Told(r)' <=> Told(r)
        BY <1>1 DEF Told, FoundByLine
    <2>2. \A i \in DOMAIN drawn :
             Meaningful(drawn[i].line) /\ (Told(drawn[i]) \/ drawn[i].thread \in page.ids)
        <3> TAKE i \in DOMAIN drawn
        <3>1. Meaningful(LastLine(rows[i]))
            BY <1>7, LineIsMeant DEF IInv
        <3>2. Matches(rows[i], page.ids)
            BY <1>5, <1>7
        <3> QED BY <1>7, <3>1, <3>2 DEF Told, Matches
    <2> QED BY <1>1, <1>9, <2>1, <2>2 DEF IInv, FoundInv, TitleMatches
<1>16. /\ Have = {served[i].row.thread : i \in DOMAIN served}
       /\ Have' = Have \cup {rows[k] : k \in DOMAIN rows} /\ Have \subseteq Threads
    <2>1. Have = {served[i].row.thread : i \in DOMAIN served}
        BY <1>9 DEF Have
    <2>2. {drawn[i].thread : i \in DOMAIN drawn} = {rows[k] : k \in DOMAIN rows}
        BY <1>7
    <2>3. Have' = Have \cup {drawn[i].thread : i \in DOMAIN drawn}
        BY <1>1, <1>9, <2>1 DEF Have
    <2> QED BY <2>1, <2>2, <2>3, HaveAreThreads DEF IInv
<1>17. \A t \in past : t \notin Have
    <2> SUFFICES ASSUME NEW t \in past, t \in Have PROVE FALSE
        OBVIOUS
    <2>1. anchor # 0 /\ (Key(t) >= anchor \/ Key(t) = 0)
        BY DEF IInv, BehindInv
    <2> QED BY <1>5, <1>10, <2>1
<1>18. NoTwice'
    <2>1. \A i, j \in DOMAIN drawn : drawn[i].thread = drawn[j].thread => i = j
        BY <1>4, <1>7 DEF PageOf
    <2>2. \A i \in DOMAIN served, j \in DOMAIN drawn : served[i].row.thread # drawn[j].thread
        BY <1>7, <1>16, <1>17
    <2> QED BY <1>1, <1>9, <2>1, <2>2 DEF IInv, NoTwice
<1>19. BehindInv'
    <2> SUFFICES ASSUME NEW u \in Have'
                 PROVE  anchor' # 0 /\ (Key(u) >= anchor' \/ (walk.left /\ Key(u) = 0))
        <3>1. Have' \subseteq Threads
            BY <1>7, <1>16
        <3> QED BY <1>1, <1>14, <3>1 DEF BehindInv
    <2>1. CASE u \in Have
        <3>1. anchor # 0 /\ (Key(u) >= anchor \/ (walk.left /\ Key(u) = 0)) /\ Key(u) \in Int
            BY <1>10, <1>16, <2>1 DEF IInv, BehindInv
        <3> QED BY <1>1, <1>10, <1>11, <3>1
    <2>2. CASE u \notin Have
        <3>1. PICK k \in DOMAIN rows : rows[k] = u
            BY <1>16, <2>2
        <3>2. rows # <<>>
            BY <1>7, <3>1
        <3> QED BY <1>1, <1>4, <1>11, <3>1, <3>2 DEF PageOf
    <2> QED BY <2>1, <2>2
<1>20. \A t \in past : Shows(t) \/ Titled(t)
    BY <1>5 DEF Matches, Shows, Titled, IInv, CardsInv
<1>21. SteadyInv'
    <2> SUFFICES ASSUME NEW u \in Have', u \in steady
                 PROVE  OnList(u) /\ (Shows(u) \/ Titled(u))
        <3>1. Have' \subseteq Threads
            BY <1>7, <1>16
        <3> QED BY <1>1, <1>14, <3>1 DEF SteadyInv
    <2> QED BY <1>5, <1>7, <1>16, <1>20 DEF IInv, SteadyInv
<1>22. CompleteInv'
    <2> SUFFICES ASSUME NEW t \in steady, OnList(t), Shows(t) \/ (Titled(t) /\ ~spared),
                        t \notin Have'
                 PROVE  Ahead(t)'
        <3>1. steady \subseteq Threads
            BY HaveAreThreads DEF IInv
        <3> QED BY <1>1, <1>14, <3>1 DEF CompleteInv
    <2>1. t \in Threads /\ t \notin Have
        BY <1>16, HaveAreThreads DEF IInv
    <2>2. anchor = 0 \/ Key(t) < anchor
        BY <2>1 DEF IInv, CompleteInv, Ahead
    <2>3. Matches(t, page.ids)
        <3>1. CASE Shows(t)
            BY <3>1 DEF Shows, Matches
        <3>2. CASE Titled(t) /\ ~spared
            BY <1>1, <3>2 DEF IInv, IdsInv, Matches
        <3> QED BY <3>1, <3>2
    <2>4. t \in past
        BY <1>5, <2>1, <2>2, <2>3
    <2>5. ~\E k \in DOMAIN rows : rows[k] = t
        BY <1>16
    <2>6. more /\ rows # <<>> /\ Key(t) < Key(Last(rows))
        BY <1>4, <2>4, <2>5 DEF PageOf
    <2>7. anchor' = Key(Last(rows)) /\ anchor' # 0
        BY <1>1, <1>11, <2>6
    <2> QED BY <1>1, <1>9, <1>14, <2>1, <2>6, <2>7 DEF Ahead
<1> QED BY <1>2, <1>12, <1>13, <1>15, <1>18, <1>19, <1>21, <1>22 DEF IInv

(***************************************************************************)
(* One list after another.                                                 *)
(***************************************************************************)
Joined(q, s, u) ==
    /\ Len(s) \in Nat /\ DOMAIN s = 1 .. Len(s)
    /\ \A i \in DOMAIN s : i \in DOMAIN q /\ q[i] = s[i]
    /\ \A j \in DOMAIN u : j \in Int /\ Len(s) + j \in DOMAIN q /\ q[Len(s) + j] = u[j]
    /\ \A i \in DOMAIN q : i \in DOMAIN s \/ (\E j \in DOMAIN u : i = Len(s) + j)

LEMMA JoiningLists ==
    ASSUME NEW S, NEW s \in Seq(S), NEW u \in Seq(S)
    PROVE  s \o u \in Seq(S) /\ Joined(s \o u, s, u)
<1> DEFINE q == s \o u
<1>1. /\ Len(s) \in Nat /\ DOMAIN s = 1 .. Len(s) /\ Len(u) \in Nat /\ DOMAIN u = 1 .. Len(u)
      /\ q \in Seq(S) /\ DOMAIN q = 1 .. Len(s) + Len(u)
    OBVIOUS
<1>2. \A i \in 1 .. Len(s) + Len(u) : q[i] = IF i <= Len(s) THEN s[i] ELSE u[i - Len(s)]
    OBVIOUS
<1> HIDE DEF q
<1>3. \A i \in DOMAIN s : i \in DOMAIN q /\ q[i] = s[i]
    BY <1>1, <1>2
<1>4. \A j \in DOMAIN u : j \in Int /\ Len(s) + j \in DOMAIN q /\ q[Len(s) + j] = u[j]
    <2> TAKE j \in DOMAIN u
    <2>1. /\ j \in Int /\ Len(s) + j \in 1 .. Len(s) + Len(u) /\ ~(Len(s) + j <= Len(s))
          /\ (Len(s) + j) - Len(s) = j
        BY <1>1
    <2>2. q[Len(s) + j] = u[(Len(s) + j) - Len(s)]
        BY <1>2, <2>1
    <2> QED BY <1>1, <2>1, <2>2
<1>5. \A i \in DOMAIN q : i \in DOMAIN s \/ (\E j \in DOMAIN u : i = Len(s) + j)
    <2> TAKE i \in DOMAIN q
    <2>1. i \in DOMAIN s \/ i - Len(s) \in DOMAIN u
        BY <1>1
    <2>2. i = Len(s) + (i - Len(s))
        BY <1>1
    <2> QED BY <2>1, <2>2
<1> QED BY <1>1, <1>3, <1>4, <1>5 DEF Joined, q

LEMMA DrawStep ==
    ASSUME IInv, NEW came \in BOOLEAN, Draw(came)
    PROVE  IInv'
<1> DEFINE ss == {SubjectOf[page.rows[i].thread] : i \in DOMAIN page.rows} \ {NoSubject}
           all == Known(cards, ss, came)
           titled(r) == SubjectOf[r.thread] \in ss /\ all[SubjectOf[r.thread]]
           answer(r) == [row |-> r, title |-> titled(r)]
           new == [i \in DOMAIN page.rows |-> answer(page.rows[i])]
<1>1. /\ pc = "draw" /\ served' = served \o new /\ UNCHANGED threads
      /\ pc' = (IF ~page.more THEN "done" ELSE IF walk.needle = NoNeedle THEN "select" ELSE "scan")
      /\ cards' = <<>> /\ page' = [rows |-> <<>>, more |-> FALSE, ids |-> {}]
      /\ walk' = walk /\ anchor' = anchor /\ steady' = steady /\ spared' = spared
    BY DEF Draw
<1>2. /\ ThreadsInv' /\ MessagesInv' /\ TimesInv' /\ now' = now
      /\ \A t \in Threads : Same(t)
    BY <1>1, ThreadsStand DEF IInv
<1>3. /\ page.rows \in Seq(Listed) /\ served \in Seq(Served)
      /\ \A i \in DOMAIN page.rows : page.rows[i] \in Listed
    BY DEF IInv, WalkTypes
<1>4. \A i \in DOMAIN page.rows :
         page.rows[i].thread \in page.ids => answer(page.rows[i]).title = TRUE
    <2> SUFFICES ASSUME NEW i \in DOMAIN page.rows, page.rows[i].thread \in page.ids
                 PROVE  titled(page.rows[i]) = TRUE
        OBVIOUS
    <2> DEFINE s == SubjectOf[page.rows[i].thread]
    <2>1. s # NoSubject /\ s \in DOMAIN cards /\ cards[s] = TRUE
        BY DEF IInv, CardsInv
    <2>2. s \in ss
        BY <2>1
    <2>3. all[s] = TRUE
        <3> HIDE DEF ss, s
        <3> QED BY <2>1, <2>2 DEF Known
    <2> QED BY <2>2, <2>3
<1>5. \A i \in DOMAIN page.rows :
         answer(page.rows[i]) \in Served /\ answer(page.rows[i]).row = page.rows[i]
    <2> TAKE i \in DOMAIN page.rows
    <2>1. titled(page.rows[i]) \in BOOLEAN
        OBVIOUS
    <2> HIDE DEF titled
    <2> QED BY <1>3, <2>1 DEF Served
<1> HIDE DEF ss, all, titled, answer
<1>6. /\ new \in Seq(Served) /\ DOMAIN new = DOMAIN page.rows
      /\ \A i \in DOMAIN new : new[i] = answer(page.rows[i]) /\ new[i].row = page.rows[i]
    BY <1>3, <1>5
<1> HIDE DEF new
<1>7. served' \in Seq(Served) /\ Joined(served', served, new)
    BY <1>1, <1>3, <1>6, JoiningLists
<1>8. page'.rows = <<>> /\ page'.ids = {} /\ page'.more = FALSE /\ DOMAIN page'.rows = {}
    BY <1>1
<1>9. WalkTypes'
    <2>1. <<>> \in Seq(Listed)
        OBVIOUS
    <2>2. page' \in [rows : Seq(Listed), more : BOOLEAN, ids : SUBSET Threads]
        BY <1>1, <2>1
    <2>3. pc' \in {"start", "scan", "select", "draw", "done"}
        BY <1>1
    <2> QED BY <1>1, <1>2, <1>7, <2>2, <2>3 DEF IInv, WalkTypes, Served, Listed
<1>10. PhasesInv' /\ CardsInv'
    BY <1>1, <1>8 DEF PhasesInv, CardsInv
<1>11. FoundInv'
    <2>1. \A r : Told(r)' <=> Told(r)
        BY <1>1 DEF Told, FoundByLine
    <2> DEFINE Good(r) == /\ Meaningful(r.row.line)
                          /\ \/ Told(r.row)
                             \/ r.title /\ TitleMatches(SubjectOf[r.row.thread], walk.needle)
    <2>2. \A i \in DOMAIN served : Good(served[i])
        BY DEF IInv, FoundInv
    <2>3. \A j \in DOMAIN new : Good(new[j])
        <3> TAKE j \in DOMAIN new
        <3>1. Meaningful(page.rows[j].line) /\ (Told(page.rows[j]) \/ page.rows[j].thread \in page.ids)
            BY <1>6 DEF IInv, FoundInv
        <3>2. page.rows[j].thread \in page.ids =>
                 TitleMatches(SubjectOf[page.rows[j].thread], walk.needle)
            BY DEF IInv, CardsInv
        <3>3. new[j].row = page.rows[j]
            BY <1>5, <1>6
        <3>4. page.rows[j].thread \in page.ids => new[j].title = TRUE
            BY <1>4, <1>6
        <3> QED BY <3>1, <3>2, <3>3, <3>4
    <2> HIDE DEF Good
    <2>4. \A i \in DOMAIN served' : Good(served'[i])
        BY <1>7, <2>2, <2>3 DEF Joined
    <2> USE DEF Good
    <2> QED BY <1>1, <1>8, <2>1, <2>4 DEF FoundInv, TitleMatches
<1>12. Have' = Have
    <2>1. Have' = {served'[i].row.thread : i \in DOMAIN served'}
        BY <1>8 DEF Have
    <2>2. \A i \in DOMAIN served' : served'[i].row.thread \in Have
        <3> TAKE i \in DOMAIN served'
        <3>1. CASE i \in DOMAIN served
            BY <1>7, <3>1 DEF Joined, Have
        <3>2. CASE i \notin DOMAIN served
            <4>1. PICK j \in DOMAIN new : i = Len(served) + j
                BY <1>7, <3>2 DEF Joined
            <4>2. served'[i].row = page.rows[j] /\ j \in DOMAIN page.rows
                BY <1>6, <1>7, <4>1 DEF Joined
            <4> QED BY <4>2 DEF Have
        <3> QED BY <3>1, <3>2
    <2>3. \A i \in DOMAIN served : served[i].row.thread \in Have'
        BY <1>7, <2>1 DEF Joined
    <2>4. \A j \in DOMAIN page.rows : page.rows[j].thread \in Have'
        <3> TAKE j \in DOMAIN page.rows
        <3>1. j \in DOMAIN new /\ new[j].row = page.rows[j]
            BY <1>6
        <3>2. Len(served) + j \in DOMAIN served' /\ served'[Len(served) + j] = new[j]
            BY <1>7, <3>1 DEF Joined
        <3>3. served'[Len(served) + j].row.thread = page.rows[j].thread
            BY <3>1, <3>2
        <3> QED BY <2>1, <3>2, <3>3
    <2>5. Have' \subseteq Have
        BY ONLY <2>1, <2>2
    <2>6. Have \subseteq Have'
        <3> DEFINE H == Have'
        <3> HIDE DEF H
        <3>1. /\ \A i \in DOMAIN served : served[i].row.thread \in H
              /\ \A j \in DOMAIN page.rows : page.rows[j].thread \in H
            BY <2>3, <2>4 DEF H
        <3>2. Have \subseteq H
            BY ONLY <3>1 DEF Have
        <3> QED BY <3>2 DEF H
    <2> QED BY ONLY <2>5, <2>6
<1>13. NoTwice'
    <2> SUFFICES ASSUME NEW i \in DOMAIN served', NEW j \in DOMAIN served',
                        served'[i].row.thread = served'[j].row.thread
                 PROVE  i = j
        BY <1>8 DEF NoTwice
    <2>1. CASE i \in DOMAIN served /\ j \in DOMAIN served
        BY <1>7, <2>1 DEF Joined, IInv, NoTwice
    <2>2. CASE i \notin DOMAIN served /\ j \notin DOMAIN served
        <3>1. PICK m \in DOMAIN new : i = Len(served) + m
            BY <1>7, <2>2 DEF Joined
        <3>2. PICK n \in DOMAIN new : j = Len(served) + n
            BY <1>7, <2>2 DEF Joined
        <3>3. page.rows[m].thread = page.rows[n].thread
            BY <1>6, <1>7, <3>1, <3>2 DEF Joined
        <3> QED BY <1>6, <3>1, <3>2, <3>3 DEF IInv, NoTwice
    <2>3. \A x \in DOMAIN served, y \in DOMAIN served' :
             y \notin DOMAIN served => served'[x].row.thread # served'[y].row.thread
        <3> SUFFICES ASSUME NEW x \in DOMAIN served, NEW y \in DOMAIN served', y \notin DOMAIN served
                     PROVE  served'[x].row.thread # served'[y].row.thread
            OBVIOUS
        <3>1. PICK n \in DOMAIN new : y = Len(served) + n
            BY <1>7 DEF Joined
        <3> QED BY <1>6, <1>7, <3>1 DEF Joined, IInv, NoTwice
    <2> QED BY <2>1, <2>2, <2>3
<1>14. \A u \in Threads :
         /\ OnList(u)' <=> OnList(u)
         /\ Key(u)' = Key(u)
         /\ Shows(u)' <=> Shows(u)
         /\ Titled(u)' <=> Titled(u)
    BY <1>1, <1>2, StillListed
<1>15. Have \subseteq Threads /\ steady \subseteq Threads
    BY HaveAreThreads DEF IInv
<1>16. BehindInv' /\ SteadyInv'
    BY <1>1, <1>12, <1>14, <1>15 DEF IInv, BehindInv, SteadyInv
<1>17. IdsInv'
    BY <1>1 DEF IdsInv
<1>18. CompleteInv'
    <2>1. \A u \in Threads : Ahead(u) => Ahead(u)'
        BY <1>1, <1>14 DEF Ahead
    <2> QED BY <1>1, <1>12, <1>14, <1>15, <2>1 DEF IInv, CompleteInv
<1> QED BY <1>2, <1>9, <1>10, <1>11, <1>13, <1>16, <1>17, <1>18 DEF IInv

LEMMA InvStep == IInv /\ [Next]_vars => IInv'
<1> SUFFICES ASSUME IInv, [Next]_vars PROVE IInv'
    OBVIOUS
<1>1. CASE UNCHANGED vars
    <2>1. /\ UNCHANGED threads /\ pc' = pc /\ walk' = walk /\ anchor' = anchor /\ cards' = cards
          /\ page' = page /\ served' = served /\ steady' = steady /\ spared' = spared
        BY <1>1 DEF vars, threads
    <2>2. /\ ThreadsInv' /\ MessagesInv' /\ TimesInv' /\ now' = now
          /\ \A t \in Threads : Same(t)
        BY <2>1, ThreadsStand DEF IInv
    <2>3. \A u \in Threads :
             /\ OnList(u)' <=> OnList(u)
             /\ Key(u)' = Key(u)
             /\ Shows(u)' <=> Shows(u)
             /\ Titled(u)' <=> Titled(u)
             /\ Ahead(u)' <=> Ahead(u)
        BY <2>1, <2>2, StillListed DEF Ahead
    <2>4. WalkTypes' /\ PhasesInv' /\ CardsInv' /\ NoTwice' /\ Have' = Have
        BY <2>1, <2>2 DEF IInv, WalkTypes, Served, Listed, PhasesInv, CardsInv, NoTwice, Have,
                          TitleMatches
    <2>5. FoundInv'
        <3>1. \A r : Told(r)' <=> Told(r)
            BY <2>1 DEF Told, FoundByLine
        <3> QED BY <2>1, <3>1 DEF IInv, FoundInv, TitleMatches
    <2>6. Have \subseteq Threads /\ steady \subseteq Threads
        BY HaveAreThreads DEF IInv
    <2>7. BehindInv' /\ SteadyInv' /\ IdsInv' /\ CompleteInv'
        BY <2>1, <2>3, <2>4, <2>6 DEF IInv, BehindInv, SteadyInv, IdsInv, CompleteInv
    <2> QED BY <2>2, <2>4, <2>5, <2>7 DEF IInv
<1>2. CASE \E w \in Walks : Begin(w)
    BY <1>2, BeginStep
<1>3. CASE \E came \in BOOLEAN : Scan(came)
    BY <1>3, ScanStep
<1>4. CASE Select
    BY <1>4, SelectStep
<1>5. CASE \E came \in BOOLEAN : Draw(came)
    BY <1>5, DrawStep
<1>6. CASE \E t \in Threads : Happens(t)
    BY <1>6, MoveStep
<1> QED BY <1>1, <1>2, <1>3, <1>4, <1>5, <1>6 DEF Next

(***************************************************************************)
(* A walk that is done.                                                    *)
(***************************************************************************)
LEMMA ServedOnce ==
    ASSUME NoTwice, NEW t
    PROVE  /\ (\E i \in DOMAIN served : served[i].row.thread = t) => Times(t) = 1
           /\ ~(\E i \in DOMAIN served : served[i].row.thread = t) => Times(t) = 0
<1> DEFINE S == {i \in DOMAIN served : served[i].row.thread = t}
<1>1. ASSUME NEW i \in DOMAIN served, served[i].row.thread = t
      PROVE  Cardinality(S) = 1
    <2>1. S = {i}
        BY <1>1 DEF NoTwice
    <2> QED BY <2>1, FS_Singleton
<1>2. ASSUME ~(\E i \in DOMAIN served : served[i].row.thread = t)
      PROVE  Cardinality(S) = 0
    <2>1. S = {}
        BY <1>2
    <2> QED BY <2>1, FS_EmptySet
<1> QED BY <1>1, <1>2 DEF Times

LEMMA WalksAreFaithful == IInv => WalkIsFaithful
<1> SUFFICES ASSUME IInv, pc = "done" PROVE WalkIsFaithful
    BY DEF WalkIsFaithful
<1>1. Have = {served[i].row.thread : i \in DOMAIN served}
    BY DEF IInv, PhasesInv, Have
<1>2. \A t : (t \in Have => Times(t) = 1) /\ (t \notin Have => Times(t) = 0)
    BY <1>1, ServedOnce DEF IInv
<1>3. \A t \in Threads : Times(t) <= 1
    BY <1>2
<1> DEFINE n == walk.needle
           listed(t) == ((member[t].left # 0) = walk.left) /\ (walk.unread => Unread(t) > 0)
           shown(t) == n \in {NoNeedle} \cup Range(Names[t]) \cup Range(Drawn(LastLine(t)))
           titled(t) == SubjectOf[t] # NoSubject /\ n \in Range(Titles[SubjectOf[t]])
<1>4. ASSUME NEW t \in steady, ~Nested(LastLine(t)), ~Orphaned(LastLine(t))
      PROVE  /\ listed(t) /\ (shown(t) \/ (titled(t) /\ ~spared)) => Times(t) = 1
             /\ ~listed(t) \/ ~(shown(t) \/ titled(t)) => Times(t) = 0
    <2>1. t \in Threads
        BY DEF IInv, WalkTypes
    <2>2. LastLine(t) \in Message \cup {NoLine} /\ Meaningful(LastLine(t))
        BY <2>1, LineIsMeant DEF IInv
    <2>3. n \in Range(Drawn(LastLine(t))) <=> FoundByLine(LastLine(t), n)
        BY <1>4, <2>2, FoundIffDrawn
    <2>4. shown(t) <=> Shows(t)
        BY <2>3 DEF Shows
    <2>5. titled(t) <=> Titled(t)
        BY DEF Titled, TitleMatches
    <2>6. listed(t) <=> OnList(t)
        BY DEF OnList, Stays, ViewerLeftAt, IInv, WalkTypes
    <2> HIDE DEF listed, shown, titled
    <2>7. listed(t) /\ (shown(t) \/ (titled(t) /\ ~spared)) => t \in Have
        BY <2>4, <2>5, <2>6 DEF IInv, CompleteInv, Ahead
    <2>8. t \in Have => listed(t) /\ (shown(t) \/ titled(t))
        BY <2>4, <2>5, <2>6 DEF IInv, SteadyInv
    <2> QED BY <1>2, <2>7, <2>8
<1> QED BY <1>3, <1>4 DEF WalkIsFaithful

(***************************************************************************)
(* What is drawn is found, and what is found is drawn: for any labels,     *)
(* names, titles and messages, however the threads move while a search     *)
(* walks its pages and whichever cards come.                               *)
(***************************************************************************)
THEOREM SearchFindsWhatRowsDraw == Spec => []FoundIsDrawn
<1>1. IInv => FoundIsDrawn
    BY FoundDrawn DEF IInv
<1> QED BY <1>1, InvInit, InvStep, PTL DEF Spec

(***************************************************************************)
(* The list and the single conversation tell one line and one badge, and a *)
(* row without words says why: for any history of messages, withdrawals,   *)
(* erasures and clearings.                                                 *)
(***************************************************************************)
THEOREM ListAndDetailAgree == Spec => []RowsTellTheLine
<1>1. IInv => RowsTellTheLine
    BY RowsTell DEF IInv
<1> QED BY <1>1, InvInit, InvStep, PTL DEF Spec

(***************************************************************************)
(* However many threads there are, however long the pages and however the  *)
(* others move: a walk that is done served each steady thread of its list  *)
(* once, no other steady thread, and none twice.                           *)
(***************************************************************************)
THEOREM PagesMissNothing == Spec => []WalkIsFaithful
<1>1. IInv => WalkIsFaithful
    BY WalksAreFaithful
<1> QED BY <1>1, InvInit, InvStep, PTL DEF Spec
==============================================================================
