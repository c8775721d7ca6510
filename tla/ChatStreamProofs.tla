--------------------------- MODULE ChatStreamProofs ---------------------------
(***************************************************************************)
(* Theorems about ChatStream, for any number of positions, any window and  *)
(* any number of connections.                                              *)
(***************************************************************************)
EXTENDS ChatStream, RevisionJournal, FiniteSetTheorems, TLAPS

(***************************************************************************)
(* The inductive invariant.                                                *)
(***************************************************************************)
Row == [rev : Nat, gone : BOOLEAN, over : BOOLEAN]

AnyFrame == [id : Nat, rev : Nat, gone : BOOLEAN, after : Nat]

TypeInv ==
    /\ rows \in Seq(Row) /\ lastSeq \in Nat /\ lastSeq <= MaxSeq
    /\ pushes \subseteq AnyFrame /\ wire \in Seq(AnyFrame)
    /\ cache \in [1 .. MaxSeq -> Nat]
    /\ cleared \in Nat /\ hidden \in Nat /\ mark \in Nat /\ high \in Nat
    /\ asked \in Nat /\ serverSeq \in Nat /\ cursor \in Nat /\ upTo \in Nat /\ sound \in Nat
    /\ sock \in {"off", "joined", "mark", "rows", "live", "resync"}

\* Each row stands at a position of its own that was issued.
RowsInv ==
    /\ Len(rows) <= lastSeq
    /\ \A i \in DOMAIN rows : rows[i].rev \in 1 .. lastSeq
    /\ \A i, j \in DOMAIN rows : rows[i].rev = rows[j].rev => i = j

\* Nobody heard of a position that was not issued, or of a mark that was not set.
BoundsInv ==
    /\ asked <= lastSeq /\ serverSeq <= lastSeq /\ cursor <= lastSeq
    /\ upTo <= lastSeq /\ sound <= lastSeq
    /\ cleared <= hidden /\ mark <= hidden

\* The frame says of row r what it is, or what the edit written over it says.
Says(f, r) == f.gone = r.gone \/ (r.over /\ ~f.gone)

\* What a frame still tells about a row: nothing newer than the row itself, and
\* nothing visible stands between the position it follows and its own.
FrameOK(f) ==
    /\ f.rev <= lastSeq
    /\ f.id = None => f.after <= f.rev
    /\ f.id # None => /\ f.id \in DOMAIN rows
                      /\ f.after < f.rev /\ f.rev <= rows[f.id].rev
                      /\ f.rev = rows[f.id].rev => Says(f, rows[f.id])
    /\ \A i \in Visible : f.after < rows[i].rev /\ rows[i].rev <= f.rev => i = f.id

FramesInv ==
    /\ \A f \in pushes : FrameOK(f) /\ f.id # None
    /\ \A k \in DOMAIN wire : FrameOK(wire[k])

\* The device holds all that is visible up to the position it missed nothing before.
SoundInv == \A i \in Visible : rows[i].rev <= sound => Holds(i)

\* The device holds row i, or will by the last frame of i that is on its way.
Settled(i) ==
    \/ Holds(i) /\ \A k \in DOMAIN wire : wire[k].id # i
    \/ \E k \in DOMAIN wire :
          /\ wire[k].id = i /\ wire[k].rev = rows[i].rev
          /\ \A n \in DOMAIN wire : n > k => wire[n].id # i

\* A device that was answered, with nothing written since, settles all that it
\* did not have before.
LiveInv ==
    sock = "live" /\ upTo = lastSeq =>
        \A i \in Visible :
           rows[i].rev <= high /\ (rows[i].rev <= asked \/ Settled(i))

IInv == TypeInv /\ RowsInv /\ BoundsInv /\ FramesInv /\ SoundInv /\ LiveInv

(***************************************************************************)
(* Pages.                                                                  *)
(***************************************************************************)
\* The rows of S that come before i in the journal.
Ahead(S, i) == {j \in S : Before(j, i)}

(***************************************************************************)
(* In a finite set of rows, in whatever total order, the number of rows    *)
(* that come before tells a row's place, and every place is taken.         *)
(***************************************************************************)
LEMMA PlacesAreTaken ==
    ASSUME NEW S, IsFiniteSet(S),
           \A i \in S : ~Before(i, i),
           \A i, j, k \in S : Before(i, j) /\ Before(j, k) => Before(i, k),
           \A i, j \in S : i = j \/ Before(i, j) \/ Before(j, i)
    PROVE  /\ Cardinality(S) \in Nat
           /\ \A i \in S : Cardinality(Ahead(S, i)) \in 0 .. Cardinality(S) - 1
           /\ \A i, j \in S :
                 Before(i, j) <=> Cardinality(Ahead(S, i)) < Cardinality(Ahead(S, j))
           /\ \A n \in 0 .. Cardinality(S) - 1 : \E i \in S : Cardinality(Ahead(S, i)) = n
<1> DEFINE c == Cardinality(S)
           r(i) == Cardinality(Ahead(S, i))
           f == [i \in S |-> r(i)]
<1>1. c \in Nat
    BY FS_CardinalityType
<1>2. \A i \in S : IsFiniteSet(Ahead(S, i)) /\ r(i) \in 0 .. c - 1
    <2> TAKE i \in S
    <2>1. Ahead(S, i) \subseteq S /\ i \notin Ahead(S, i)
        BY DEF Ahead
    <2>2. IsFiniteSet(Ahead(S, i)) /\ r(i) \in Nat /\ r(i) <= c /\ r(i) # c
        BY <2>1, FS_Subset, FS_CardinalityType
    <2> QED BY <1>1, <2>2
<1>3. \A i, j \in S : Before(i, j) => r(i) < r(j)
    <2> SUFFICES ASSUME NEW i \in S, NEW j \in S, Before(i, j) PROVE r(i) < r(j)
        OBVIOUS
    <2>1. Ahead(S, i) \subseteq Ahead(S, j) /\ i \in Ahead(S, j) /\ i \notin Ahead(S, i)
        BY DEF Ahead
    <2>2. r(i) <= r(j) /\ r(i) # r(j)
        BY <1>2, <2>1, FS_Subset
    <2> QED BY <1>2, <2>2
<1>4. \A i, j \in S : r(i) < r(j) => Before(i, j)
    <2> SUFFICES ASSUME NEW i \in S, NEW j \in S, r(i) < r(j) PROVE Before(i, j)
        OBVIOUS
    <2>1. r(i) \in Int /\ r(j) \in Int
        BY <1>2
    <2>2. i # j /\ ~Before(j, i)
        BY <1>3, <2>1
    <2> QED BY <2>2
<1>5. f \in Injection(S, 0 .. c - 1)
    <2>1. \A i, j \in S : f[i] = f[j] => i = j
        <3> SUFFICES ASSUME NEW i \in S, NEW j \in S, f[i] = f[j] PROVE i = j
            OBVIOUS
        <3>1. ~(r(i) < r(j)) /\ ~(r(j) < r(i))
            <4>1. r(i) = r(j) /\ r(i) \in Int
                BY <1>2
            <4> QED BY <4>1
        <3> QED BY <1>3, <3>1
    <2>2. f \in [S -> 0 .. c - 1]
        BY <1>2
    <2> QED BY <2>1, <2>2 DEF Injection, IsInjective
<1>6. IsFiniteSet(0 .. c - 1) /\ Cardinality(0 .. c - 1) = c
    BY <1>1, FS_Interval
<1>7. f \in Surjection(S, 0 .. c - 1)
    BY <1>1, <1>5, <1>6, FS_Injection
<1>8. \A n \in 0 .. c - 1 : \E i \in S : r(i) = n
    BY <1>7 DEF Surjection
<1> QED BY <1>1, <1>2, <1>3, <1>4, <1>8

\* A beginning of S in the order of the journal.
InJournalOrder(ids, S) ==
    /\ ids \in Seq(S) /\ Len(ids) \in Nat /\ DOMAIN ids = 1 .. Len(ids)
    /\ \A k, n \in DOMAIN ids : k < n => rows[ids[k]].rev < rows[ids[n]].rev
    /\ \A k \in DOMAIN ids : \A i \in S :
          rows[i].rev <= rows[ids[k]].rev => \E n \in DOMAIN ids : ids[n] = i
    /\ Len(ids) = Cardinality(S) => \A i \in S : \E n \in DOMAIN ids : ids[n] = i

(***************************************************************************)
(* A page of the replay holds missed rows in the order of the journal,     *)
(* leaves out none that stands before one it holds, and leaves out none if *)
(* it is as long as there are missed rows.                                 *)
(***************************************************************************)
LEMMA PageFollowsJournal ==
    ASSUME TypeInv, RowsInv, NEW after \in Nat, NEW upto \in Nat
    PROVE  InJournalOrder(Page(after, upto), Missed(after, upto))
<1> DEFINE S == Missed(after, upto)
           ids == Page(after, upto)
<1> DEFINE c == Cardinality(S)
           m == Min({Window, c})
           r(i) == Cardinality(Ahead(S, i))
<1>1. S \subseteq DOMAIN rows /\ \A i \in S : rows[i].rev \in Int
    BY DEF Missed, TypeInv, RowsInv
<1>2. IsFiniteSet(S)
    <2>1. DOMAIN rows = 1 .. Len(rows) /\ Len(rows) \in Nat
        BY DEF TypeInv
    <2>2. IsFiniteSet(1 .. Len(rows))
        BY <2>1, FS_Interval
    <2> QED BY <1>1, <2>1, <2>2, FS_Subset
<1>3. /\ \A i \in S : ~Before(i, i)
      /\ \A i, j, k \in S : Before(i, j) /\ Before(j, k) => Before(i, k)
      /\ \A i, j \in S : i = j \/ Before(i, j) \/ Before(j, i)
    BY <1>1 DEF Before, RowsInv
<1>4. /\ c \in Nat
      /\ \A i \in S : r(i) \in 0 .. c - 1
      /\ \A i, j \in S : Before(i, j) <=> r(i) < r(j)
      /\ \A n \in 0 .. c - 1 : \E i \in S : r(i) = n
    BY <1>2, <1>3, PlacesAreTaken
<1>5. m \in Nat /\ m <= c
    <2>1. \E x \in {Window, c} : \A y \in {Window, c} : x =< y
        BY <1>4, BoundsAssumption
    <2> QED BY <1>4, <2>1, BoundsAssumption DEF Min
<1>6. ids = [k \in 1 .. m |-> CHOOSE i \in S : r(i) = k - 1]
    BY DEF Page, Ahead
<1> HIDE DEF c, m, r, S, ids
<1>7. \A k \in 1 .. m : ids[k] \in S /\ r(ids[k]) = k - 1
    <2> TAKE k \in 1 .. m
    <2>1. k - 1 \in 0 .. c - 1
        BY <1>4, <1>5
    <2>2. \E i \in S : r(i) = k - 1
        BY <1>4, <2>1
    <2> QED BY <1>6, <2>2
<1>8. ids \in Seq(S) /\ Len(ids) = m /\ DOMAIN ids = 1 .. m
    <2>1. DOMAIN ids = 1 .. m /\ ids \in [1 .. m -> S]
        BY <1>6, <1>7
    <2> QED BY <1>5, <2>1
<1>9. \A i, j \in S : r(i) = r(j) => i = j
    <2> SUFFICES ASSUME NEW i \in S, NEW j \in S, r(i) = r(j) PROVE i = j
        OBVIOUS
    <2>1. ~(r(i) < r(j)) /\ ~(r(j) < r(i))
        <3>1. r(i) \in Int
            BY <1>4
        <3> QED BY <3>1
    <2> QED BY <1>3, <1>4, <2>1
<1>10. \A k, n \in 1 .. m : k < n => rows[ids[k]].rev < rows[ids[n]].rev
    <2> SUFFICES ASSUME NEW k \in 1 .. m, NEW n \in 1 .. m, k < n
                 PROVE  rows[ids[k]].rev < rows[ids[n]].rev
        OBVIOUS
    <2>1. r(ids[k]) < r(ids[n])
        BY <1>7
    <2> QED BY <1>4, <1>7, <2>1 DEF Before
<1>11. \A i \in S : r(i) < m => \E n \in 1 .. m : ids[n] = i
    <2> SUFFICES ASSUME NEW i \in S, r(i) < m PROVE \E n \in 1 .. m : ids[n] = i
        OBVIOUS
    <2>1. PICK n \in 1 .. m : n - 1 = r(i)
        <3>1. \A x \in 0 .. m - 1 : x + 1 \in 1 .. m /\ x + 1 - 1 = x
            BY <1>5
        <3>2. r(i) \in 0 .. m - 1
            BY <1>4, <1>5
        <3> QED BY <3>1, <3>2
    <2>2. ids[n] \in S /\ r(ids[n]) = r(i)
        BY <1>7, <2>1
    <2>3. ids[n] = i
        BY <1>9, <2>2
    <2> QED BY <2>3
<1>12. \A k \in 1 .. m : \A i \in S :
          rows[i].rev <= rows[ids[k]].rev => \E n \in 1 .. m : ids[n] = i
    <2> SUFFICES ASSUME NEW k \in 1 .. m, NEW i \in S, rows[i].rev <= rows[ids[k]].rev
                 PROVE  \E n \in 1 .. m : ids[n] = i
        OBVIOUS
    <2>1. ~Before(ids[k], i)
        BY <1>1, <1>7 DEF Before
    <2>2. r(i) <= k - 1
        BY <1>4, <1>7, <2>1
    <2> QED BY <1>4, <1>5, <1>11, <2>2
<1>13. m = c => \A i \in S : \E n \in 1 .. m : ids[n] = i
    BY <1>4, <1>11
<1> QED BY <1>5, <1>8, <1>10, <1>12, <1>13 DEF c, S, ids, InJournalOrder

\* R is the replay of the page ids: its frames are of the rows of the page, one
\* each, and replay_done is the last.
Tells(R, ids) ==
    LET n == Len(ids) IN
    /\ n \in Nat /\ R \in Seq(AnyFrame) /\ Len(R) = n + 1 /\ DOMAIN R = 1 .. n + 1
    /\ \A k \in 1 .. n : /\ ids[k] \in DOMAIN rows /\ R[k].id = ids[k]
                         /\ R[k].rev = rows[ids[k]].rev
    /\ R[n + 1] = Done(ids) /\ Done(ids).id = None
    /\ Done(ids).rev \in Nat /\ Done(ids).rev <= lastSeq
    /\ \A k \in DOMAIN R : FrameOK(R[k])
    /\ \A k, m \in 1 .. n : ids[k] = ids[m] => k = m
    /\ Done(ids).rev = lastSeq =>
          \A i \in Missed(asked, mark) : \E k \in 1 .. n : ids[k] = i

(***************************************************************************)
(* The position a replay frame follows lies between the cursor that was    *)
(* asked from and the frame's own, and behind it lie the frames before.    *)
(***************************************************************************)
LEMMA PrevIsBetween ==
    ASSUME TypeInv, RowsInv, BoundsInv, NEW ids, ids = Page(asked, mark), NEW k \in 1 .. Len(ids) + 1
    PROVE  /\ Prev(ids, k) \in Nat /\ asked <= Prev(ids, k) /\ Prev(ids, k) <= lastSeq
           /\ k <= Len(ids) => Prev(ids, k) < rows[ids[k]].rev
           /\ \A n \in DOMAIN ids : n < k => rows[ids[n]].rev <= Prev(ids, k)
<1> DEFINE S == Missed(asked, mark)
<1>1. /\ ids \in Seq(S) /\ Len(ids) \in Nat /\ DOMAIN ids = 1 .. Len(ids)
      /\ \A m, n \in DOMAIN ids : m < n => rows[ids[m]].rev < rows[ids[n]].rev
    BY PageFollowsJournal DEF TypeInv, InJournalOrder
<1>2. \A n \in DOMAIN ids : ids[n] \in S
    BY <1>1
<1>3. \A i \in S : /\ rows[i].rev \in Nat /\ asked < rows[i].rev /\ rows[i].rev <= lastSeq
    BY DEF Missed, TypeInv, RowsInv
<1> HIDE DEF S
<1>4. CASE k = 1
    <2>1. Prev(ids, k) = asked
        BY <1>4 DEF Prev
    <2> QED BY <1>1, <1>2, <1>3, <1>4, <2>1 DEF TypeInv, BoundsInv
<1>5. CASE k # 1
    <2>1. k - 1 \in DOMAIN ids /\ k - 1 < k /\ Prev(ids, k) = rows[ids[k - 1]].rev
        BY <1>1, <1>5 DEF Prev
    <2>2. ids[k - 1] \in S
        BY <1>2, <2>1
    <2>3. \A n \in DOMAIN ids : n < k => n = k - 1 \/ n < k - 1
        BY <1>1, <2>1
    <2>4. \A n \in DOMAIN ids : n < k => rows[ids[n]].rev <= rows[ids[k - 1]].rev
        <3> SUFFICES ASSUME NEW n \in DOMAIN ids, n < k
                     PROVE  rows[ids[n]].rev <= rows[ids[k - 1]].rev
            OBVIOUS
        <3>1. CASE n = k - 1 BY <1>3, <2>2, <3>1
        <3>2. CASE n < k - 1
            <4>1. rows[ids[n]].rev < rows[ids[k - 1]].rev BY <1>1, <2>1, <3>2
            <4>2. rows[ids[n]].rev \in Nat /\ rows[ids[k - 1]].rev \in Nat BY <1>2, <1>3, <2>2
            <4> QED BY <4>1, <4>2
        <3> QED BY <2>3, <3>1, <3>2
    <2>5. k <= Len(ids) => k \in DOMAIN ids
        BY <1>1
    <2>6. k <= Len(ids) => rows[ids[k - 1]].rev < rows[ids[k]].rev
        BY <1>1, <2>1, <2>5
    <2> QED BY <1>3, <2>1, <2>2, <2>4, <2>6 DEF TypeInv
<1> QED BY <1>4, <1>5

(***************************************************************************)
(* What the socket replays.  Every frame follows the one before it: no     *)
(* visible row stands between the two.  A replay that reaches the head of  *)
(* the journal has all that was missed.                                    *)
(***************************************************************************)
LEMMA ReplayTells ==
    ASSUME TypeInv, RowsInv, BoundsInv, NEW ids, ids = Page(asked, mark)
    PROVE  Tells(Replay(ids), ids)
<1> DEFINE n == Len(ids)
           R == Replay(ids)
<1> DEFINE S == Missed(asked, mark)
           rv(k) == rows[ids[k]].rev
<1>1. /\ ids \in Seq(S) /\ n \in Nat /\ DOMAIN ids = 1 .. n
      /\ \A k, m \in 1 .. n : k < m => rv(k) < rv(m)
      /\ \A k \in 1 .. n : \A i \in S : rows[i].rev <= rv(k) => \E m \in 1 .. n : ids[m] = i
      /\ n = Cardinality(S) => \A i \in S : \E m \in 1 .. n : ids[m] = i
    <2>1. asked \in Nat /\ mark \in Nat
        BY DEF TypeInv
    <2>2. InJournalOrder(ids, S)
        BY <2>1, PageFollowsJournal
    <2> HIDE DEF S
    <2>3. /\ ids \in Seq(S) /\ Len(ids) \in Nat /\ DOMAIN ids = 1 .. Len(ids)
          /\ \A k, m \in DOMAIN ids : k < m => rows[ids[k]].rev < rows[ids[m]].rev
          /\ \A k \in DOMAIN ids : \A i \in S :
                rows[i].rev <= rows[ids[k]].rev => \E m \in DOMAIN ids : ids[m] = i
          /\ Len(ids) = Cardinality(S) => \A i \in S : \E m \in DOMAIN ids : ids[m] = i
        BY <2>2 DEF InJournalOrder
    <2> QED BY <2>3
<1>2. /\ \A k \in 1 .. n : ids[k] \in S
      /\ \A i \in S : /\ i \in DOMAIN rows /\ i \in Nat /\ i # None
                      /\ rows[i] \in Row /\ rows[i].rev \in Nat /\ rows[i].gone \in BOOLEAN
                      /\ rows[i].rev <= lastSeq
    <2>1. \A k \in 1 .. n : ids[k] \in S
        BY <1>1
    <2>2. \A i \in DOMAIN rows : /\ i \in Nat /\ i # None /\ rows[i] \in Row
                                 /\ rows[i].rev \in 1 .. lastSeq
        BY DEF TypeInv, RowsInv, None
    <2>3. S \subseteq DOMAIN rows
        BY DEF Missed
    <2> HIDE DEF S
    <2> QED BY <2>1, <2>2, <2>3 DEF Row, TypeInv
<1>3. \A i \in Visible : asked < rows[i].rev => i \in S
    <2>1. \A i \in Visible : i \in DOMAIN rows /\ i > hidden /\ rows[i].rev \in Nat
        BY DEF Visible, RowsInv, TypeInv
    <2>2. DOMAIN rows \subseteq Nat /\ mark \in Nat /\ hidden \in Nat /\ mark <= hidden
        BY DEF TypeInv, BoundsInv
    <2>3. asked \in Nat
        BY DEF TypeInv
    <2> QED BY <2>1, <2>2, <2>3 DEF Missed
<1>4. \A k, m \in 1 .. n : ids[k] = ids[m] => k = m
    <2> SUFFICES ASSUME NEW k \in 1 .. n, NEW m \in 1 .. n, ids[k] = ids[m] PROVE k = m
        OBVIOUS
    <2>1. rv(k) = rv(m) /\ rv(k) \in Nat
        BY <1>2
    <2>2. ~(k < m) /\ ~(m < k)
        BY <1>1, <2>1
    <2> QED BY <1>1, <2>2
<1> DEFINE fs == [k \in 1 .. n |-> LET r == rows[ids[k]]
                                    IN  Frame(ids[k], r.rev, r.gone, Prev(ids, k))]
<1>5. \A k \in 1 .. n + 1 :
         /\ Prev(ids, k) \in Nat /\ asked <= Prev(ids, k) /\ Prev(ids, k) <= lastSeq
         /\ k <= n => Prev(ids, k) < rv(k)
         /\ \A m \in 1 .. n : m < k => rv(m) <= Prev(ids, k)
    BY <1>1, PrevIsBetween
<1> HIDE DEF S, rv
<1>6. /\ Done(ids) \in AnyFrame /\ Done(ids).id = None /\ Done(ids).after = Prev(ids, n + 1)
      /\ Done(ids).after <= Done(ids).rev /\ Done(ids).rev <= lastSeq
      /\ Done(ids).rev = IF n = Cardinality(S) THEN lastSeq ELSE Prev(ids, n + 1)
    <2>1. n + 1 \in 1 .. n + 1
        BY <1>1
    <2>2. Prev(ids, n + 1) \in Nat /\ Prev(ids, n + 1) <= lastSeq /\ lastSeq \in Nat
        BY <1>5, <2>1 DEF TypeInv
    <2> QED BY <2>2 DEF Done, AnyFrame, None, S
<1>7. \A k \in 1 .. n : fs[k] \in AnyFrame
    <2> TAKE k \in 1 .. n
    <2>1. k \in 1 .. n + 1
        BY <1>1
    <2>2. ids[k] \in S /\ Prev(ids, k) \in Nat
        BY <1>2, <1>5, <2>1
    <2> QED BY <1>2, <2>2 DEF Frame, AnyFrame
<1>8. /\ R \in Seq(AnyFrame) /\ Len(R) = n + 1 /\ DOMAIN R = 1 .. n + 1
      /\ \A k \in 1 .. n : R[k] = fs[k]
      /\ R[n + 1] = Done(ids)
    <2>1. R = Append(fs, Done(ids))
        BY DEF Replay
    <2>2. fs \in Seq(AnyFrame) /\ Len(fs) = n
        BY <1>1, <1>7
    <2> HIDE DEF fs
    <2> QED BY <1>1, <1>6, <2>1, <2>2
<1>9. \A k \in 1 .. n : /\ R[k].id = ids[k] /\ R[k].rev = rv(k)
                        /\ R[k].gone = rows[ids[k]].gone /\ R[k].after = Prev(ids, k)
    <2> TAKE k \in 1 .. n
    <2>1. R[k] = Frame(ids[k], rows[ids[k]].rev, rows[ids[k]].gone, Prev(ids, k))
        BY <1>8
    <2> QED BY <2>1 DEF Frame, rv
<1>10. ASSUME NEW k \in 1 .. n
       PROVE  FrameOK(R[k])
    <2>1. k \in 1 .. n + 1 /\ ids[k] \in S /\ k \in Int /\ n \in Int
        BY <1>1, <1>2
    <2>2. /\ Prev(ids, k) \in Nat /\ asked <= Prev(ids, k) /\ Prev(ids, k) < rv(k)
          /\ \A m \in 1 .. n : m < k => rv(m) <= Prev(ids, k)
        BY <1>5, <2>1
    <2>3. rv(k) \in Nat /\ rv(k) <= lastSeq
        BY <1>2, <2>1 DEF rv
    <2>4. ASSUME NEW i \in Visible, Prev(ids, k) < rows[i].rev, rows[i].rev <= rv(k)
          PROVE  i = ids[k]
        <3>1. i \in DOMAIN rows /\ rows[i].rev \in Nat
            BY DEF Visible, RowsInv, TypeInv
        <3>2. i \in S
            BY <1>3, <2>2, <2>4, <3>1 DEF TypeInv
        <3>3. PICK m \in 1 .. n : ids[m] = i
            BY <1>1, <2>4, <3>2
        <3>4. rv(m) = rows[i].rev
            BY <3>3 DEF rv
        <3>5. ~(m < k)
            BY <2>2, <2>4, <3>1, <3>4
        <3>6. ~(k < m)
            BY <1>1, <2>3, <2>4, <3>1, <3>4
        <3> QED BY <2>1, <3>3, <3>5, <3>6
    <2> QED BY <1>2, <1>9, <2>1, <2>2, <2>3, <2>4 DEF FrameOK, Says, rv
<1>11. n = Cardinality(S) \/ Prev(ids, n + 1) = lastSeq =>
          \A i \in S : \E k \in 1 .. n : ids[k] = i
    <2>1. CASE n = Cardinality(S)
        BY <1>1, <2>1
    <2>2. CASE Prev(ids, n + 1) = lastSeq
        <3> SUFFICES ASSUME NEW i \in S PROVE \E k \in 1 .. n : ids[k] = i
            OBVIOUS
        <3>1. rows[i].rev \in Nat /\ rows[i].rev <= lastSeq /\ asked < rows[i].rev /\ lastSeq \in Nat
            BY <1>2 DEF S, Missed, TypeInv
        <3>2. n # 0
            <4>1. n = 0 => Prev(ids, n + 1) = asked
                BY DEF Prev
            <4> QED BY <2>2, <3>1, <4>1 DEF TypeInv
        <3>3. n \in 1 .. n /\ Prev(ids, n + 1) = rv(n)
            BY <1>1, <3>2 DEF Prev, rv
        <3> QED BY <1>1, <2>2, <3>1, <3>3
    <2> QED BY <2>1, <2>2
<1>12. FrameOK(R[n + 1])
    <2>1. n + 1 \in 1 .. n + 1
        BY <1>1
    <2>2. /\ Prev(ids, n + 1) \in Nat /\ asked <= Prev(ids, n + 1)
          /\ \A m \in 1 .. n : rv(m) <= Prev(ids, n + 1)
        <3>1. \A m \in 1 .. n : m < n + 1
            BY <1>1
        <3> QED BY <1>5, <2>1, <3>1
    <2>3. ASSUME NEW i \in Visible, Prev(ids, n + 1) < rows[i].rev, rows[i].rev <= Done(ids).rev
          PROVE  FALSE
        <3>1. i \in DOMAIN rows /\ rows[i].rev \in Nat
            BY DEF Visible, RowsInv, TypeInv
        <3>2. i \in S
            BY <1>3, <2>2, <2>3, <3>1 DEF TypeInv
        <3>3. n = Cardinality(S)
            BY <1>6, <2>2, <2>3, <3>1
        <3>4. PICK m \in 1 .. n : ids[m] = i
            BY <1>1, <3>2, <3>3
        <3>5. rv(m) = rows[i].rev
            BY <3>4 DEF rv
        <3> QED BY <2>2, <2>3, <3>1, <3>5
    <2> QED BY <1>6, <1>8, <2>3 DEF FrameOK
<1>13. \A k \in 1 .. n + 1 : k \in 1 .. n \/ k = n + 1
    BY <1>1
<1>14. \A k \in DOMAIN R : FrameOK(R[k])
    BY <1>8, <1>10, <1>12, <1>13
<1>15. Done(ids).rev = lastSeq => \A i \in S : \E k \in 1 .. n : ids[k] = i
    BY <1>6, <1>11
<1>16. Done(ids).rev \in Nat
    BY <1>6 DEF AnyFrame
<1> QED BY <1>1, <1>2, <1>4, <1>6, <1>8, <1>9, <1>14, <1>15, <1>16 DEF S, rv, Tells

(***************************************************************************)
(* The invariant holds at first.                                           *)
(***************************************************************************)
LEMMA InvInit == Init => IInv
<1> SUFFICES ASSUME Init PROVE IInv
    OBVIOUS
<1>1. /\ rows = <<>> /\ lastSeq = 0 /\ pushes = {} /\ wire = <<>> /\ sock = "off"
      /\ rows \in Seq(Row) /\ wire \in Seq(AnyFrame) /\ DOMAIN rows = {} /\ DOMAIN wire = {}
      /\ Len(rows) = 0
    BY DEF Init
<1>2. TypeInv
    BY <1>1, BoundsAssumption DEF Init, TypeInv, None
<1>3. RowsInv /\ BoundsInv
    BY <1>1 DEF Init, RowsInv, BoundsInv
<1>4. FramesInv /\ SoundInv /\ LiveInv
    BY <1>1 DEF FramesInv, SoundInv, LiveInv, Visible
<1> QED BY <1>2, <1>3, <1>4 DEF IInv

(***************************************************************************)
(* Writers.                                                                *)
(***************************************************************************)
\* A transaction puts one row on the next position and leaves the others alone.
LEMMA WriteEffect ==
    ASSUME TypeInv, RowsInv, NEW i \in 1 .. Len(rows) + 1, NEW gone \in BOOLEAN,
           NEW over \in BOOLEAN, Write(i, gone, over)
    PROVE  /\ lastSeq' = lastSeq + 1 /\ lastSeq' <= MaxSeq
           /\ rows' \in Seq(Row) /\ Len(rows) <= Len(rows') /\ Len(rows') <= lastSeq'
           /\ DOMAIN rows' = DOMAIN rows \cup {i}
           /\ rows'[i] = [rev |-> lastSeq + 1, gone |-> gone, over |-> over]
           /\ \A j \in DOMAIN rows : j # i => rows'[j] = rows[j]
<1> DEFINE r == [rev |-> lastSeq + 1, gone |-> gone, over |-> over]
<1>1. r \in Row /\ rows \in Seq(Row) /\ lastSeq \in Nat /\ Len(rows) \in Nat
    BY DEF TypeInv, Row
<1>2. /\ lastSeq < MaxSeq /\ lastSeq' = lastSeq + 1
      /\ rows' = IF i > Len(rows) THEN Append(rows, r) ELSE [rows EXCEPT ![i] = r]
    BY DEF Write, NextRev
<1>3. lastSeq' <= MaxSeq
    BY <1>1, <1>2, BoundsAssumption
<1>4. CASE i > Len(rows)
    <2>1. i = Len(rows) + 1 /\ rows' = Append(rows, r)
        BY <1>1, <1>2, <1>4
    <2> HIDE DEF r
    <2>2. /\ rows' \in Seq(Row) /\ Len(rows') = Len(rows) + 1
          /\ rows'[Len(rows) + 1] = r
          /\ \A j \in 1 .. Len(rows) : rows'[j] = rows[j]
        BY <1>1, <2>1
    <2>3. DOMAIN rows' = 1 .. Len(rows) + 1 /\ DOMAIN rows = 1 .. Len(rows)
        BY <1>1, <2>2
    <2>4. Len(rows) <= Len(rows') /\ Len(rows') <= lastSeq'
        BY <1>1, <1>2, <2>2 DEF RowsInv
    <2>5. DOMAIN rows' = DOMAIN rows \cup {i}
        BY <1>1, <2>1, <2>3
    <2> QED BY <1>2, <1>3, <2>1, <2>2, <2>3, <2>4, <2>5 DEF r
<1>5. CASE ~(i > Len(rows))
    <2>1. i \in DOMAIN rows /\ rows' = [rows EXCEPT ![i] = r]
        BY <1>1, <1>2, <1>5
    <2> HIDE DEF r
    <2>2. /\ rows' \in Seq(Row) /\ Len(rows') = Len(rows) /\ rows'[i] = r
          /\ DOMAIN rows' = DOMAIN rows
          /\ \A j \in DOMAIN rows : j # i => rows'[j] = rows[j]
        BY <1>1, <2>1
    <2> QED BY <1>1, <1>2, <1>3, <2>1, <2>2 DEF RowsInv, r
<1> QED BY <1>4, <1>5

\* The frame it leaves follows the position issued before, so nothing is between.
LEMMA WriteStep ==
    ASSUME IInv, NEW i \in 1 .. Len(rows) + 1, NEW gone \in BOOLEAN,
           NEW over \in BOOLEAN, Write(i, gone, over)
    PROVE  IInv'
<1> DEFINE r == [rev |-> lastSeq + 1, gone |-> gone, over |-> over]
           f == Frame(i, lastSeq + 1, gone /\ ~over, lastSeq)
<1>1. /\ lastSeq' = lastSeq + 1 /\ lastSeq' <= MaxSeq
      /\ rows' \in Seq(Row) /\ Len(rows) <= Len(rows') /\ Len(rows') <= lastSeq'
      /\ DOMAIN rows' = DOMAIN rows \cup {i} /\ rows'[i] = r
      /\ \A j \in DOMAIN rows : j # i => rows'[j] = rows[j]
    BY WriteEffect DEF IInv
<1>2. /\ TypeInv /\ RowsInv /\ BoundsInv /\ FramesInv /\ SoundInv /\ LiveInv
      /\ lastSeq \in Nat /\ i \in Nat /\ i # None /\ Len(rows) \in Nat /\ hidden \in Nat
    BY DEF IInv, TypeInv, None
<1>3. /\ pushes' = pushes \cup {f}
      /\ UNCHANGED <<cleared, hidden, sock, asked, serverSeq, mark, high, wire, cache, cursor,
                     upTo, sound>>
    BY DEF Write, NextRev, marks, socket, device
<1>4. /\ r \in Row
      /\ f \in AnyFrame /\ f.id = i /\ f.rev = lastSeq + 1 /\ f.after = lastSeq
      /\ f.gone = (gone /\ ~over)
    BY <1>2 DEF Frame, AnyFrame, Row
<1> HIDE DEF r, f
<1>5. TypeInv'
    BY <1>1, <1>2, <1>3, <1>4 DEF TypeInv
<1>6. r.rev = lastSeq + 1 /\ r.gone = gone /\ r.over = over
    BY DEF r
<1>7. \A j \in DOMAIN rows' : \/ j = i /\ rows'[j].rev = lastSeq + 1
                              \/ /\ j \in DOMAIN rows /\ j # i /\ rows'[j] = rows[j]
                                 /\ rows[j].rev \in 1 .. lastSeq
    BY <1>1, <1>2, <1>6 DEF RowsInv
<1>8. RowsInv'
    <2>1. \A j \in DOMAIN rows' : rows'[j].rev \in 1 .. lastSeq'
        BY <1>1, <1>2, <1>7
    <2>2. \A j, k \in DOMAIN rows' : rows'[j].rev = rows'[k].rev => j = k
        BY <1>2, <1>7 DEF RowsInv
    <2> QED BY <1>1, <2>1, <2>2 DEF RowsInv
<1>9. BoundsInv'
    BY <1>1, <1>2, <1>3, <1>5 DEF BoundsInv, TypeInv
<1>10. \A j \in Visible' : \/ j = i /\ rows'[j].rev = lastSeq + 1
                           \/ /\ j \in Visible /\ j # i /\ rows'[j] = rows[j]
                              /\ rows[j].rev \in 1 .. lastSeq
    BY <1>3, <1>7 DEF Visible
<1>11. \A g \in AnyFrame : FrameOK(g) => FrameOK(g)'
    <2> SUFFICES ASSUME NEW g \in AnyFrame, FrameOK(g) PROVE FrameOK(g)'
        OBVIOUS
    <2>1. g.rev \in Nat /\ g.rev <= lastSeq /\ g.after \in Nat
        BY DEF FrameOK, AnyFrame
    <2>2. g.rev <= lastSeq'
        BY <1>1, <1>2, <2>1
    <2>3. g.id # None => /\ g.id \in DOMAIN rows'
                         /\ g.after < g.rev /\ g.rev <= rows'[g.id].rev
                         /\ g.rev = rows'[g.id].rev => Says(g, rows'[g.id])
        BY <1>1, <1>2, <1>6, <2>1 DEF FrameOK
    <2>4. \A j \in Visible' : g.after < rows'[j].rev /\ rows'[j].rev <= g.rev => j = g.id
        BY <1>2, <1>10, <2>1 DEF FrameOK
    <2> QED BY <2>2, <2>3, <2>4 DEF FrameOK
<1>12. \A g : g = f => FrameOK(g)'
    <2> SUFFICES ASSUME NEW g, g = f PROVE FrameOK(g)'
        OBVIOUS
    <2>1. g.rev <= lastSeq' /\ g.id # None /\ g.id \in DOMAIN rows' /\ g.after < g.rev
          /\ g.rev <= rows'[g.id].rev
        BY <1>1, <1>2, <1>4, <1>6
    <2>3. Says(g, rows'[g.id])
        <3>1. rows'[g.id].gone = gone /\ rows'[g.id].over = over /\ g.gone = (gone /\ ~over)
            BY <1>1, <1>4, <1>6
        <3>2. g.gone = gone \/ (over /\ ~g.gone)
            <4>1. g.gone = (gone /\ ~over) BY <3>1
            <4>2. CASE over BY <4>1, <4>2
            <4>3. CASE ~over
                <5>1. (gone /\ ~over) = gone BY <4>3
                <5> QED BY <4>1, <5>1
            <4> QED BY <4>2, <4>3
        <3> QED BY <3>1, <3>2 DEF Says
    <2>2. \A j \in Visible' : g.after < rows'[j].rev /\ rows'[j].rev <= g.rev => j = g.id
        BY <1>2, <1>4, <1>10
    <2> QED BY <2>1, <2>2, <2>3 DEF FrameOK
<1>13. FramesInv'
    <2>1. \A g \in pushes : g \in AnyFrame
        BY <1>2 DEF TypeInv
    <2>2. \A k \in DOMAIN wire : wire[k] \in AnyFrame
        BY <1>2 DEF TypeInv
    <2>3. \A g \in pushes : FrameOK(g)' /\ g.id # None
        BY <1>2, <1>11, <2>1 DEF FramesInv
    <2>4. \A k \in DOMAIN wire : FrameOK(wire[k])'
        BY <1>2, <1>3, <1>11, <2>2 DEF FramesInv
    <2> QED BY <1>2, <1>3, <1>4, <1>12, <2>3, <2>4 DEF FramesInv
<1>14. SoundInv'
    <2>1. sound \in Nat /\ sound <= lastSeq
        BY <1>2 DEF TypeInv, BoundsInv
    <2> QED BY <1>2, <1>3, <1>10, <2>1 DEF SoundInv, Holds
<1>15. LiveInv'
    <2>1. upTo' # lastSeq'
        BY <1>1, <1>2, <1>3 DEF BoundsInv, TypeInv
    <2> QED BY <2>1 DEF LiveInv
<1> QED BY <1>5, <1>8, <1>9, <1>13, <1>14, <1>15 DEF IInv

(***************************************************************************)
(* While no row changes, frames keep what they tell.                       *)
(***************************************************************************)
LEMMA FrameKeeps ==
    ASSUME UNCHANGED <<rows, lastSeq>>, Visible' \subseteq Visible, NEW g, FrameOK(g)
    PROVE  FrameOK(g)'
<1>1. \A i \in Visible' : i \in Visible /\ rows'[i] = rows[i]
    OBVIOUS
<1>2. \A i \in Visible' : g.after < rows'[i].rev /\ rows'[i].rev <= g.rev => i = g.id
    BY <1>1 DEF FrameOK
<1>3. /\ g.rev <= lastSeq'
      /\ g.id = None => g.after <= g.rev
      /\ g.id # None => /\ g.id \in DOMAIN rows'
                        /\ g.after < g.rev /\ g.rev <= rows'[g.id].rev
                        /\ g.rev = rows'[g.id].rev => Says(g, rows'[g.id])
    BY DEF FrameOK
<1> QED BY <1>2, <1>3 DEF FrameOK

\* The later of two positions is one of them and below neither.
LEMMA LaterIsOne ==
    ASSUME NEW a \in Nat, NEW b \in Nat
    PROVE  Later(a, b) \in Nat /\ Later(a, b) \in {a, b} /\ a <= Later(a, b) /\ b <= Later(a, b)
<1>1. \E x \in {a, b} : \A y \in {a, b} : x >= y
    <2>1. CASE a >= b BY <2>1
    <2>2. CASE b >= a BY <2>2
    <2> QED BY <2>1, <2>2
<1> QED BY <1>1 DEF Later, Max

\* A clearing shows nothing that no mark covered before, and hides what it covers.
LEMMA ClearStep ==
    ASSUME IInv, NEW m \in 0 .. Len(rows) + 1, Clear(m)
    PROVE  IInv'
<1>1. /\ cleared' = m /\ hidden' = Later(hidden, m)
      /\ UNCHANGED <<rows, lastSeq, pushes, sock, asked, serverSeq, mark, high, wire, cache,
                     cursor, upTo, sound>>
    BY DEF Clear, journal, socket, device
<1>2. /\ TypeInv /\ RowsInv /\ BoundsInv /\ FramesInv /\ SoundInv /\ LiveInv
      /\ Len(rows) \in Nat /\ DOMAIN rows = 1 .. Len(rows)
      /\ m \in Nat /\ hidden \in Nat /\ cleared \in Nat /\ mark \in Nat
    BY DEF IInv, TypeInv
<1>3. hidden' \in Nat /\ hidden <= hidden' /\ m <= hidden'
    BY <1>1, <1>2, LaterIsOne
<1>4. Visible' \subseteq Visible
    BY <1>1, <1>2, <1>3 DEF Visible
<1>5. TypeInv' /\ RowsInv'
    BY <1>1, <1>2, <1>3 DEF TypeInv, RowsInv
<1>6. BoundsInv'
    BY <1>1, <1>2, <1>3 DEF BoundsInv
<1>7. FramesInv'
    <2>1. \A g : FrameOK(g) => FrameOK(g)'
        BY <1>1, <1>4, FrameKeeps
    <2> QED BY <1>1, <1>2, <2>1 DEF FramesInv
<1>8. \A i \in Visible' : i \in Visible /\ (Holds(i) => Holds(i)') /\ (Settled(i) => Settled(i)')
    BY <1>1, <1>4 DEF Holds, Settled
<1>9. SoundInv' /\ LiveInv'
    BY <1>1, <1>2, <1>8 DEF SoundInv, LiveInv
<1> QED BY <1>5, <1>6, <1>7, <1>9 DEF IInv

(***************************************************************************)
(* The socket.                                                             *)
(***************************************************************************)
\* A frame that is sent is about a row that moved on since the socket last told of it.
LEMMA DeliverStep ==
    ASSUME IInv, NEW f \in pushes, Deliver(f)
    PROVE  IInv'
<1>1. /\ pushes' \subseteq pushes
      /\ UNCHANGED <<rows, lastSeq, cleared, hidden, sock, asked, serverSeq, mark, cache,
                     cursor, upTo, sound>>
      /\ \/ f.rev > high /\ wire' = Append(wire, f) /\ high' = f.rev
         \/ UNCHANGED <<wire, high>>
    BY DEF Deliver, marks, device
<1>2. /\ TypeInv /\ RowsInv /\ BoundsInv /\ FramesInv /\ SoundInv /\ LiveInv
      /\ f \in AnyFrame /\ f.rev \in Nat /\ wire \in Seq(AnyFrame) /\ Len(wire) \in Nat
      /\ DOMAIN wire = 1 .. Len(wire)
      /\ FrameOK(f) /\ f.id # None /\ high \in Nat
    BY DEF IInv, TypeInv, FramesInv, AnyFrame
<1>3. TypeInv' /\ RowsInv' /\ BoundsInv' /\ SoundInv'
    <2>1. wire' \in Seq(AnyFrame) /\ high' \in Nat
        BY <1>1, <1>2
    <2> QED BY <1>1, <1>2, <2>1 DEF TypeInv, RowsInv, BoundsInv, SoundInv, Visible, Holds
<1>4. \A g : FrameOK(g) => FrameOK(g)'
    BY <1>1, FrameKeeps DEF Visible
<1>5. CASE UNCHANGED <<wire, high>>
    <2>1. FramesInv'
        BY <1>1, <1>2, <1>4, <1>5 DEF FramesInv
    <2>2. LiveInv'
        BY <1>1, <1>2, <1>5 DEF LiveInv, Visible, Settled, Holds
    <2> QED BY <1>3, <2>1, <2>2 DEF IInv
<1>6. CASE f.rev > high /\ wire' = Append(wire, f) /\ high' = f.rev
    <2>1. /\ DOMAIN wire' = 1 .. Len(wire) + 1
          /\ \A k \in 1 .. Len(wire) : wire'[k] = wire[k]
          /\ wire'[Len(wire) + 1] = f
        BY <1>2, <1>6
    <2>2. \A k \in DOMAIN wire' : (k \in DOMAIN wire /\ wire'[k] = wire[k]) \/ wire'[k] = f
        BY <1>2, <2>1
    <2>3. FramesInv'
        <3>1. \A g \in pushes' : FrameOK(g)' /\ g.id # None
            BY <1>1, <1>2, <1>4 DEF FramesInv
        <3>2. \A k \in DOMAIN wire' : \A g : g = wire'[k] => FrameOK(g)
            BY <1>2, <2>2 DEF FramesInv
        <3>3. \A k \in DOMAIN wire' : \A g : g = wire'[k] => FrameOK(g)'
            BY <1>4, <3>2
        <3> QED BY <3>1, <3>3 DEF FramesInv
    <2>4. LiveInv'
        <3> SUFFICES ASSUME sock = "live", upTo = lastSeq, NEW i \in Visible
                     PROVE  rows[i].rev <= high' /\ (rows[i].rev <= asked \/ Settled(i)')
            BY <1>1 DEF LiveInv, Visible
        <3>1. /\ rows[i].rev <= high /\ (rows[i].rev <= asked \/ Settled(i))
              /\ rows[i].rev \in Nat /\ i \in DOMAIN rows
            BY <1>2 DEF LiveInv, Visible, TypeInv, RowsInv
        <3>2. f.id # i
            BY <1>2, <1>6, <3>1 DEF FrameOK
        <3>3. rows[i].rev <= high'
            BY <1>2, <1>6, <3>1
        <3>4. ASSUME Settled(i) PROVE Settled(i)'
            <4>1. CASE Holds(i) /\ \A k \in DOMAIN wire : wire[k].id # i
                <5>1. Holds(i)'
                    BY <1>1, <4>1 DEF Holds
                <5>2. \A k \in DOMAIN wire' : wire'[k].id # i
                    BY <2>2, <3>2, <4>1
                <5> QED BY <5>1, <5>2 DEF Settled
            <4>2. ASSUME NEW k \in DOMAIN wire, wire[k].id = i, wire[k].rev = rows[i].rev,
                         \A n \in DOMAIN wire : n > k => wire[n].id # i
                  PROVE  Settled(i)'
                <5>1. k \in DOMAIN wire' /\ wire'[k].id = i /\ wire'[k].rev = rows'[i].rev
                    BY <1>1, <1>2, <2>1, <4>2
                <5>2. \A n \in DOMAIN wire' : n > k => wire'[n].id # i
                    BY <2>2, <3>2, <4>2
                <5> QED BY <5>1, <5>2 DEF Settled
            <4> QED BY <3>4, <4>1, <4>2 DEF Settled
        <3> QED BY <3>1, <3>3, <3>4
    <2> QED BY <1>3, <2>3, <2>4 DEF IInv
<1> QED BY <1>1, <1>5, <1>6

\* Steps of the protocol that tell the device nothing.
LEMMA QuietStep ==
    ASSUME IInv,
           \/ \E f \in pushes : Lose(f)
           \/ ReadServerSeq \/ ReadMark \/ Connect \/ Disconnect
    PROVE  IInv'
<1>1. /\ TypeInv /\ RowsInv /\ BoundsInv /\ FramesInv /\ SoundInv /\ LiveInv
      /\ lastSeq \in Nat
    BY DEF IInv, TypeInv
<1>2. /\ pushes' \subseteq pushes
      /\ UNCHANGED <<rows, lastSeq, cleared, hidden, cache, cursor, sound>>
    BY DEF Lose, ReadServerSeq, ReadMark, Connect, Disconnect, journal, marks, device, socket
<1>3. \/ UNCHANGED wire
      \/ wire' = <<>>
    BY DEF Lose, ReadServerSeq, ReadMark, Connect, Disconnect
<1>4. \/ UNCHANGED <<sock, asked, serverSeq, mark, high, upTo, wire>>
      \/ /\ sock' \in {"off", "joined", "mark", "rows", "resync"}
         /\ asked' \in {asked, cursor, 0} /\ serverSeq' \in {serverSeq, lastSeq, 0}
         /\ mark' \in {mark, cleared, 0} /\ high' \in {high, 0} /\ upTo' \in {upTo, 0}
    BY DEF Lose, ReadServerSeq, ReadMark, Connect, Disconnect, socket
<1>5. wire' \in Seq(AnyFrame) /\ \A k \in DOMAIN wire' : k \in DOMAIN wire /\ wire'[k] = wire[k]
    <2>1. CASE UNCHANGED wire
        BY <1>1, <2>1 DEF TypeInv
    <2>2. CASE wire' = <<>>
        <3>1. wire' \in Seq(AnyFrame) /\ DOMAIN wire' = {}
            BY <2>2
        <3> QED BY <3>1
    <2> QED BY <1>3, <2>1, <2>2
<1>6. TypeInv'
    BY <1>1, <1>2, <1>4, <1>5 DEF TypeInv
<1>7. RowsInv' /\ SoundInv'
    BY <1>1, <1>2 DEF RowsInv, SoundInv, Visible, Holds
<1>8. BoundsInv'
    BY <1>1, <1>2, <1>4 DEF BoundsInv, TypeInv
<1>9. FramesInv'
    <2>1. \A g : FrameOK(g) => FrameOK(g)'
        BY <1>2, FrameKeeps DEF Visible
    <2>2. \A g \in pushes' : FrameOK(g)' /\ g.id # None
        BY <1>1, <1>2, <2>1 DEF FramesInv
    <2>3. \A k \in DOMAIN wire' : \A g : g = wire'[k] => FrameOK(g)'
        BY <1>1, <1>5, <2>1 DEF FramesInv
    <2> QED BY <2>2, <2>3 DEF FramesInv
<1>10. LiveInv'
    BY <1>1, <1>2, <1>4 DEF LiveInv, Visible, Settled, Holds
<1> QED BY <1>6, <1>7, <1>8, <1>9, <1>10 DEF IInv

(***************************************************************************)
(* The replay: all that was missed is on its way, each row by a last frame *)
(* that tells it as it stands.                                             *)
(***************************************************************************)
LEMMA ReadRowsStep ==
    ASSUME IInv, ReadRows
    PROVE  IInv'
<1> DEFINE ids == Page(asked, mark)
           n == Len(ids)
           R == Replay(ids)
           w == Len(wire)
           revs == {rows[ids[k]].rev : k \in DOMAIN ids}
<1>1. /\ sock' = "live" /\ wire' = wire \o R
      /\ high' = Max({high, asked} \cup revs)
      /\ upTo' = Done(ids).rev /\ serverSeq' = 0 /\ mark' = 0
      /\ UNCHANGED <<rows, lastSeq, pushes, cleared, hidden, asked, cache, cursor, sound>>
    BY DEF ReadRows, journal, marks, device
<1>2. /\ TypeInv /\ RowsInv /\ BoundsInv /\ FramesInv /\ SoundInv
      /\ high \in Nat /\ asked \in Nat /\ mark \in Nat /\ lastSeq \in Nat /\ hidden \in Nat
      /\ wire \in Seq(AnyFrame) /\ w \in Nat
    BY DEF IInv, TypeInv
<1>3. /\ n \in Nat /\ R \in Seq(AnyFrame) /\ Len(R) = n + 1 /\ DOMAIN R = 1 .. n + 1
      /\ \A k \in 1 .. n : /\ ids[k] \in DOMAIN rows /\ R[k].id = ids[k]
                           /\ R[k].rev = rows[ids[k]].rev
      /\ R[n + 1] = Done(ids) /\ Done(ids).id = None
      /\ Done(ids).rev \in Nat /\ Done(ids).rev <= lastSeq
      /\ \A k \in DOMAIN R : FrameOK(R[k])
      /\ \A k, m \in 1 .. n : ids[k] = ids[m] => k = m
      /\ Done(ids).rev = lastSeq =>
            \A i \in Missed(asked, mark) : \E k \in 1 .. n : ids[k] = i
    <2>1. Tells(R, ids)
        BY <1>2, ReplayTells
    <2> HIDE DEF ids, R
    <2> QED BY <2>1 DEF Tells
<1>4. /\ DOMAIN ids = 1 .. n
      /\ \A k, m \in 1 .. n : k < m => rows[ids[k]].rev < rows[ids[m]].rev
    <2>1. InJournalOrder(ids, Missed(asked, mark))
        BY <1>2, PageFollowsJournal
    <2> QED BY <2>1 DEF InJournalOrder
<1> HIDE DEF ids, n, R, w
<1>5. /\ high' \in Nat /\ asked <= high'
      /\ \A k \in 1 .. n : rows[ids[k]].rev <= high'
    <2> DEFINE H == {high, asked} \cup revs
    <2>1. \A k \in 1 .. n : rows[ids[k]].rev \in Nat
        BY <1>2, <1>3 DEF RowsInv
    <2>2. \E x \in H : \A y \in H : x >= y
        <3>1. PICK a \in {high, asked} : a >= high /\ a >= asked
            BY <1>2
        <3>2. CASE n = 0
            BY <1>4, <3>1, <3>2
        <3>3. CASE n # 0
            <4>1. n \in 1 .. n
                BY <1>3, <3>3
            <4> DEFINE b == rows[ids[n]].rev
            <4>2. b \in revs /\ b \in Nat /\ a \in Nat
                BY <1>2, <1>4, <2>1, <4>1
            <4>3. \A k \in 1 .. n : rows[ids[k]].rev <= b
                BY <1>3, <1>4, <2>1, <4>1
            <4>4. \A y \in revs : y \in Nat /\ y <= b
                BY <1>4, <2>1, <4>3
            <4> HIDE DEF b, revs
            <4>5. CASE a >= b
                BY <1>2, <3>1, <4>2, <4>4, <4>5
            <4>6. CASE b >= a
                BY <1>2, <3>1, <4>2, <4>4, <4>6
            <4> QED BY <4>2, <4>5, <4>6
        <3> QED BY <3>2, <3>3
    <2>3. high' \in H /\ \A y \in H : high' >= y
        BY <1>1, <2>2 DEF Max
    <2>4. \A y \in H : y \in Nat
        BY <1>2, <1>4, <2>1
    <2>5. \A k \in 1 .. n : rows[ids[k]].rev \in H
        BY <1>4
    <2> HIDE DEF H
    <2>6. asked \in H
        BY DEF H
    <2> QED BY <2>3, <2>4, <2>5, <2>6
<1>6. /\ wire' \in Seq(AnyFrame) /\ DOMAIN wire' = 1 .. w + (n + 1)
      /\ \A k \in 1 .. w : wire'[k] = wire[k]
      /\ \A k \in 1 .. n + 1 : wire'[w + k] = R[k]
    <2>1. w = Len(wire) /\ wire' = wire \o R /\ Len(R) = n + 1
        BY <1>1, <1>3 DEF w
    <2>2. wire' \in Seq(AnyFrame) /\ Len(wire') = w + (n + 1)
        <3>1. wire \in Seq(AnyFrame) /\ R \in Seq(AnyFrame)
            BY <1>2, <1>3
        <3>2. wire \o R \in Seq(AnyFrame) /\ Len(wire \o R) = Len(wire) + Len(R)
            BY <3>1
        <3> QED BY <2>1, <3>2
    <2>3. \A k \in 1 .. w : wire'[k] = wire[k]
        BY <1>2, <1>3, <2>1
    <2>4. \A k \in 1 .. n + 1 : wire'[w + k] = R[k]
        <3> TAKE k \in 1 .. n + 1
        <3>1. w + k \in 1 .. w + (n + 1) /\ ~(w + k <= w) /\ w + k - w = k
            BY <1>2, <1>3
        <3> QED BY <1>2, <1>3, <2>1, <3>1
    <2> QED BY <2>2, <2>3, <2>4
<1>7. \A k \in DOMAIN wire' : \/ k \in 1 .. w
                              \/ k - w \in 1 .. n + 1 /\ k = w + (k - w)
    BY <1>2, <1>3, <1>6
<1>8. TypeInv' /\ RowsInv' /\ BoundsInv' /\ SoundInv'
    BY <1>1, <1>2, <1>3, <1>5, <1>6
       DEF TypeInv, RowsInv, BoundsInv, SoundInv, Visible, Holds
<1>9. FramesInv'
    <2>1. \A g : FrameOK(g) => FrameOK(g)'
        BY <1>1, FrameKeeps DEF Visible
    <2>2. \A g \in pushes' : FrameOK(g)' /\ g.id # None
        BY <1>1, <1>2, <2>1 DEF FramesInv
    <2>3. \A k \in 1 .. w : FrameOK(wire[k])
        BY <1>2 DEF FramesInv, w
    <2>4. \A k \in DOMAIN wire' : \A g : g = wire'[k] => FrameOK(g)
        BY <1>3, <1>6, <1>7, <2>3
    <2>5. \A k \in DOMAIN wire' : \A g : g = wire'[k] => FrameOK(g)'
        BY <2>1, <2>4
    <2> QED BY <2>2, <2>5 DEF FramesInv
<1>10. LiveInv'
    <2> SUFFICES ASSUME upTo' = lastSeq, NEW i \in Visible
                 PROVE  rows[i].rev <= high' /\ (rows[i].rev <= asked \/ Settled(i)')
        BY <1>1 DEF LiveInv, Visible
    <2>1. /\ i \in DOMAIN rows /\ i > hidden /\ rows[i].rev \in Nat /\ i \in Nat /\ i # None
        BY <1>2 DEF Visible, RowsInv, TypeInv, None
    <2>2. CASE rows[i].rev <= asked
        BY <1>2, <1>5, <2>1, <2>2
    <2>3. CASE ~(rows[i].rev <= asked)
        <3>1. i \in Missed(asked, mark)
            BY <1>2, <2>1, <2>3 DEF Missed, BoundsInv
        <3>2. PICK k \in 1 .. n : ids[k] = i
            BY <1>1, <1>3, <3>1
        <3>3. rows[i].rev <= high'
            BY <1>5, <3>2
        <3>4. w + k \in DOMAIN wire' /\ wire'[w + k].id = i /\ wire'[w + k].rev = rows'[i].rev
            <4>1. k \in 1 .. n + 1 /\ w + k \in 1 .. w + (n + 1)
                BY <1>2, <1>3
            <4>2. wire'[w + k] = R[k]
                BY <1>6, <4>1
            <4> QED BY <1>1, <1>3, <1>6, <3>2, <4>1, <4>2
        <3>5. ASSUME NEW m \in DOMAIN wire', m > w + k PROVE wire'[m].id # i
            <4>1. PICK j \in 1 .. n + 1 : m = w + j
                <5>1. m - w \in 1 .. n + 1 /\ m = w + (m - w)
                    BY <1>2, <1>3, <1>6, <1>7, <3>5
                <5> QED BY <5>1
            <4>2. wire'[m] = R[j] /\ j # k
                BY <1>2, <1>3, <1>6, <3>5, <4>1
            <4>3. CASE j = n + 1
                BY <1>3, <2>1, <4>2, <4>3
            <4>4. CASE j # n + 1
                <5>1. j \in 1 .. n
                    BY <1>3, <4>4
                <5> QED BY <1>3, <3>2, <4>2, <5>1
            <4> QED BY <4>3, <4>4
        <3>6. Settled(i)'
            BY <3>4, <3>5 DEF Settled
        <3> QED BY <3>3, <3>6
    <2> QED BY <2>2, <2>3
<1> QED BY <1>8, <1>9, <1>10 DEF IInv

(***************************************************************************)
(* The device.                                                             *)
(***************************************************************************)
\* The first frame of the wire f is upserted, and the history of what was missed kept.
LEMMA ReceiveStep ==
    ASSUME IInv, Receive
    PROVE  IInv'
<1> DEFINE f == Head(wire)
           w == Len(wire)
<1>1. /\ TypeInv /\ RowsInv /\ BoundsInv /\ FramesInv /\ SoundInv /\ LiveInv
      /\ wire \in Seq(AnyFrame) /\ lastSeq \in Nat /\ cursor \in Nat /\ sound \in Nat
      /\ cache \in [1 .. MaxSeq -> Nat] /\ Len(rows) <= MaxSeq
    BY BoundsAssumption DEF IInv, TypeInv, RowsInv
<1>2. wire # <<>> /\ wire' = Tail(wire)
    BY DEF Receive
<1>3. /\ w \in Nat /\ 1 \in DOMAIN wire /\ DOMAIN wire = 1 .. w /\ f = wire[1]
      /\ wire' \in Seq(AnyFrame) /\ DOMAIN wire' = 1 .. w - 1
      /\ \A k \in 1 .. w - 1 : wire'[k] = wire[k + 1]
    BY <1>1, <1>2
<1>4. /\ UNCHANGED <<rows, lastSeq, pushes, cleared, hidden, sock, asked, serverSeq, mark, high,
                     upTo>>
      /\ f.id = None => UNCHANGED <<cache, cursor>>
      /\ f.id # None => /\ cache' = [cache EXCEPT ![f.id] = Shown(f)]
                        /\ cursor' = Later(cursor, f.rev)
      /\ sound' = IF f.after <= sound
                  THEN IF f.rev > sound \/ f.id = None THEN Later(sound, f.rev) ELSE f.after
                  ELSE sound
    BY DEF Receive, journal, marks, socket
<1>5. /\ FrameOK(f) /\ f \in AnyFrame
      /\ f.rev \in Nat /\ f.after \in Nat /\ f.rev <= lastSeq /\ f.id \in Nat
    <2>1. FrameOK(wire[1]) /\ wire[1] \in AnyFrame
        BY <1>1, <1>3 DEF FramesInv
    <2>2. f = wire[1]
        BY <1>3
    <2> HIDE DEF f
    <2>3. FrameOK(f) /\ f \in AnyFrame
        BY <2>1, <2>2
    <2>4. f.rev <= lastSeq
        BY <2>3 DEF FrameOK
    <2> QED BY <2>3, <2>4 DEF AnyFrame
<1> HIDE DEF f, w
<1>6. Later(sound, f.rev) \in {sound, f.rev} /\ Later(cursor, f.rev) \in {cursor, f.rev}
      /\ Later(sound, f.rev) \in Nat /\ Later(cursor, f.rev) \in Nat
    BY <1>1, <1>5, LaterIsOne
<1>7. f.id # None => f.id \in DOMAIN rows /\ f.id \in 1 .. MaxSeq /\ f.after < f.rev
    <2>1. DOMAIN rows \subseteq 1 .. MaxSeq
        BY <1>1, BoundsAssumption DEF TypeInv
    <2> QED BY <1>5, <2>1 DEF FrameOK
<1>8. /\ \A i \in DOMAIN rows : i # f.id => cache'[i] = cache[i]
      /\ f.id # None => cache'[f.id] = Shown(f)
      /\ cache' \in [1 .. MaxSeq -> Nat]
    <2>1. CASE f.id = None
        BY <1>1, <1>4, <2>1
    <2>2. CASE f.id # None
        <3>1. Shown(f) \in Nat
            BY <1>5 DEF Shown, None
        <3>2. DOMAIN rows \subseteq 1 .. MaxSeq
            BY <1>1, BoundsAssumption DEF TypeInv
        <3> QED BY <1>1, <1>4, <1>7, <2>2, <3>1, <3>2
    <2> QED BY <2>1, <2>2
<1>9. cursor' \in Nat /\ cursor' <= lastSeq /\ sound' \in Nat /\ sound' <= lastSeq
    <2>1. cursor <= lastSeq /\ sound <= lastSeq
        BY <1>1 DEF BoundsInv
    <2>2. cursor' \in {cursor, f.rev}
        BY <1>4, <1>6
    <2>3. sound' \in {sound, f.rev} \/ (sound' = f.after /\ f.after <= sound)
        BY <1>4, <1>6
    <2> QED BY <1>1, <1>5, <2>1, <2>2, <2>3
<1>10. TypeInv' /\ RowsInv' /\ BoundsInv'
    BY <1>1, <1>3, <1>4, <1>8, <1>9 DEF TypeInv, RowsInv, BoundsInv
<1>11. FramesInv'
    <2>1. \A g : FrameOK(g) => FrameOK(g)'
        BY <1>4, FrameKeeps DEF Visible
    <2>2. \A g \in pushes' : FrameOK(g)' /\ g.id # None
        BY <1>1, <1>4, <2>1 DEF FramesInv
    <2>3. \A k \in 1 .. w - 1 : k + 1 \in DOMAIN wire
        BY <1>3
    <2>4. \A k \in DOMAIN wire' : \A g : g = wire'[k] => FrameOK(g)
        BY <1>1, <1>3, <2>3 DEF FramesInv
    <2>5. \A k \in DOMAIN wire' : \A g : g = wire'[k] => FrameOK(g)'
        BY <2>1, <2>4
    <2> QED BY <2>2, <2>5 DEF FramesInv
<1>12. ASSUME NEW i \in Visible, rows[i].rev = f.rev, i = f.id
       PROVE  Holds(i)'
    <2>1. i # None /\ Says(f, rows[i])
        BY <1>1, <1>5, <1>12 DEF FrameOK, Visible, TypeInv, None
    <2>2. Shown(f) = Shown(rows[i]) \/ (rows[i].over /\ Shown(f) = rows[i].rev)
        BY <1>12, <2>1 DEF Shown, Says
    <2> QED BY <1>4, <1>8, <1>12, <2>1, <2>2 DEF Holds
<1>13. ASSUME NEW i \in Visible, Holds(i), i # f.id
       PROVE  Holds(i)'
    BY <1>4, <1>8, <1>13 DEF Holds, Visible
<1>14. SoundInv'
    <2> SUFFICES ASSUME NEW i \in Visible, rows[i].rev <= sound' PROVE Holds(i)'
        BY <1>4 DEF SoundInv, Visible
    <2>1. /\ rows[i].rev \in Nat /\ i \in DOMAIN rows /\ i # None
          /\ rows[i].rev <= sound => Holds(i)
          /\ f.after < rows[i].rev /\ rows[i].rev <= f.rev => i = f.id
          /\ i = f.id => f.after < f.rev /\ f.rev <= rows[i].rev
        BY <1>1, <1>5 DEF Visible, SoundInv, FrameOK, RowsInv, TypeInv, None
    <2>2. CASE f.after <= sound /\ (f.rev > sound \/ f.id = None)
        <3>1. sound' \in {sound, f.rev}
            BY <1>4, <1>6, <2>2
        <3>2. CASE i = f.id
            <4>1. f.rev = rows[i].rev
                BY <1>1, <1>5, <2>1, <2>2, <3>1, <3>2
            <4> QED BY <1>12, <3>2, <4>1
        <3>3. CASE i # f.id
            <4>1. rows[i].rev <= sound
                BY <1>1, <1>5, <2>1, <2>2, <3>1, <3>3
            <4> QED BY <1>13, <2>1, <3>3, <4>1
        <3> QED BY <3>2, <3>3
    <2>3. CASE f.after <= sound /\ ~(f.rev > sound \/ f.id = None)
        <3>1. sound' = f.after
            BY <1>4, <2>3
        <3>2. i # f.id /\ rows[i].rev <= sound
            BY <1>1, <1>5, <2>1, <2>3, <3>1
        <3> QED BY <1>13, <2>1, <3>2
    <2>4. CASE ~(f.after <= sound)
        <3>1. sound' = sound
            BY <1>4, <2>4
        <3>2. i # f.id
            BY <1>1, <1>5, <2>1, <2>4, <3>1
        <3> QED BY <1>13, <2>1, <3>1, <3>2
    <2> QED BY <2>2, <2>3, <2>4
<1>15. LiveInv'
    <2> SUFFICES ASSUME sock = "live", upTo = lastSeq, NEW i \in Visible, Settled(i)
                 PROVE  Settled(i)'
        BY <1>1, <1>4 DEF LiveInv, Visible
    <2>1. CASE Holds(i) /\ \A k \in DOMAIN wire : wire[k].id # i
        <3>1. Holds(i)'
            BY <1>3, <1>13, <2>1
        <3>2. \A k \in 1 .. w - 1 : k + 1 \in DOMAIN wire
            BY <1>3
        <3>3. \A k \in DOMAIN wire' : wire'[k].id # i
            BY <1>3, <2>1, <3>2
        <3> QED BY <3>1, <3>3 DEF Settled
    <2>2. ASSUME NEW k \in DOMAIN wire, wire[k].id = i, wire[k].rev = rows[i].rev,
                 \A n \in DOMAIN wire : n > k => wire[n].id # i
          PROVE  Settled(i)'
        <3>1. CASE k = 1
            <4>1. Holds(i)'
                BY <1>3, <1>12, <2>2, <3>1
            <4>2. \A n \in 1 .. w - 1 : n + 1 \in DOMAIN wire /\ n + 1 > k
                BY <1>3, <3>1
            <4>3. \A n \in DOMAIN wire' : wire'[n].id # i
                BY <1>3, <2>2, <4>2
            <4> QED BY <4>1, <4>3 DEF Settled
        <3>2. CASE k # 1
            <4>1. k - 1 \in 1 .. w - 1 /\ k - 1 + 1 = k
                BY <1>3, <3>2
            <4>2. wire'[k - 1].id = i /\ wire'[k - 1].rev = rows'[i].rev
                BY <1>3, <1>4, <2>2, <4>1
            <4>3. \A n \in 1 .. w - 1 : n > k - 1 => n + 1 \in DOMAIN wire /\ n + 1 > k
                BY <1>3
            <4>4. \A n \in DOMAIN wire' : n > k - 1 => wire'[n].id # i
                BY <1>3, <2>2, <4>3
            <4> QED BY <1>3, <4>1, <4>2, <4>4 DEF Settled
        <3> QED BY <3>1, <3>2
    <2> QED BY <2>1, <2>2 DEF Settled
<1> QED BY <1>10, <1>11, <1>14, <1>15 DEF IInv

\* A page of the history over REST is taken at once: the device starts anew from it.
LEMMA RehydrateStep ==
    ASSUME IInv, Rehydrate
    PROVE  IInv'
<1>1. /\ TypeInv /\ RowsInv /\ BoundsInv /\ FramesInv
      /\ lastSeq \in Nat /\ Len(rows) <= MaxSeq /\ serverSeq \in Nat
    BY BoundsAssumption DEF IInv, TypeInv, RowsInv
<1>2. /\ cache' = [i \in DOMAIN cache |->
                      IF i \in DOMAIN rows /\ i > cleared THEN Shown(rows[i]) ELSE None]
      /\ cursor' = serverSeq /\ sound' = serverSeq /\ asked' = serverSeq
      /\ sock' = "joined" /\ serverSeq' = 0
      /\ UNCHANGED <<rows, lastSeq, pushes, cleared, hidden, mark, high, wire, upTo>>
    BY DEF Rehydrate, journal, marks
<1>3. DOMAIN cache = 1 .. MaxSeq /\ DOMAIN rows \subseteq 1 .. MaxSeq
    BY <1>1, BoundsAssumption DEF TypeInv
<1>4. cache' \in [1 .. MaxSeq -> Nat]
    <2>1. \A i \in DOMAIN rows : Shown(rows[i]) \in Nat
        BY <1>1 DEF Shown, None, TypeInv, RowsInv
    <2> QED BY <1>2, <1>3, <2>1 DEF None
<1>5. TypeInv' /\ RowsInv' /\ BoundsInv'
    BY <1>1, <1>2, <1>4 DEF TypeInv, RowsInv, BoundsInv
<1>6. FramesInv'
    <2>1. \A g : FrameOK(g) => FrameOK(g)'
        BY <1>2, FrameKeeps DEF Visible
    <2> QED BY <1>1, <1>2, <2>1 DEF FramesInv
<1>7. \A i \in Visible' : cache'[i] = Shown(rows[i]) /\ rows'[i] = rows[i]
    <2>1. hidden \in Nat /\ cleared \in Nat /\ cleared <= hidden
        BY <1>1 DEF TypeInv, BoundsInv
    <2>2. \A i \in Visible' : i \in DOMAIN rows /\ i \in DOMAIN cache /\ i > cleared
        BY <1>1, <1>2, <1>3, <2>1 DEF Visible
    <2> QED BY <1>2, <2>2
<1>8. SoundInv' /\ LiveInv'
    BY <1>2, <1>7 DEF SoundInv, LiveInv, Holds
<1> QED BY <1>5, <1>6, <1>8 DEF IInv

\* What is dropped is hidden anyway.
LEMMA DropHistoryStep ==
    ASSUME IInv, NEW m \in 1 .. hidden, DropHistory(m)
    PROVE  IInv'
<1>1. TypeInv /\ RowsInv /\ BoundsInv /\ FramesInv /\ SoundInv /\ LiveInv /\ Len(rows) <= MaxSeq
    BY BoundsAssumption DEF IInv, TypeInv, RowsInv
<1>2. /\ cache' = [i \in DOMAIN cache |-> IF i > m THEN cache[i] ELSE None]
      /\ UNCHANGED <<rows, lastSeq, pushes, cleared, hidden, sock, asked, serverSeq, mark, high,
                     wire, cursor, upTo, sound>>
    BY DEF DropHistory, journal, marks, socket
<1>3. \A i \in Visible : cache'[i] = cache[i]
    <2>1. DOMAIN cache = 1 .. MaxSeq /\ DOMAIN rows \subseteq 1 .. MaxSeq
        BY <1>1, BoundsAssumption DEF TypeInv
    <2>2. hidden \in Nat /\ m \in Nat /\ m <= hidden
        BY <1>1 DEF TypeInv
    <2>3. \A i \in Visible : i \in DOMAIN cache /\ i > m
        BY <1>1, <2>1, <2>2 DEF Visible, TypeInv
    <2> QED BY <1>2, <2>3
<1>4. TypeInv' /\ RowsInv' /\ BoundsInv'
    <2>1. cache' \in [1 .. MaxSeq -> Nat]
        BY <1>1, <1>2 DEF TypeInv, None
    <2> QED BY <1>1, <1>2, <2>1 DEF TypeInv, RowsInv, BoundsInv
<1>5. FramesInv'
    <2>1. \A g : FrameOK(g) => FrameOK(g)'
        BY <1>2, FrameKeeps DEF Visible
    <2> QED BY <1>1, <1>2, <2>1 DEF FramesInv
<1>6. \A i \in Visible : i \in Visible' /\ Holds(i) = Holds(i)'
    BY <1>2, <1>3 DEF Visible, Holds
<1>7. SoundInv'
    BY <1>1, <1>2, <1>6 DEF SoundInv, Visible
<1>8. LiveInv'
    BY <1>1, <1>2, <1>6 DEF LiveInv, Visible, Settled
<1> QED BY <1>4, <1>5, <1>7, <1>8 DEF IInv

(***************************************************************************)
(* Every step.                                                             *)
(***************************************************************************)
\* What the writers' actions have in common.
LEMMA WritersWrite ==
    ASSUME IInv, Post \/ \E i \in DOMAIN rows : Edit(i) \/ Delete(i)
    PROVE  \E i \in 1 .. Len(rows) + 1 : \E gone, over \in BOOLEAN : Write(i, gone, over)
<1>1. Len(rows) \in Nat /\ DOMAIN rows = 1 .. Len(rows)
    BY DEF IInv, TypeInv
<1>2. CASE Post
    <2>1. Len(rows) + 1 \in 1 .. Len(rows) + 1 /\ FALSE \in BOOLEAN
        BY <1>1
    <2> QED BY <1>2, <2>1 DEF Post
<1>3. ASSUME NEW i \in DOMAIN rows, Edit(i) \/ Delete(i)
      PROVE  \E gone, over \in BOOLEAN : Write(i, gone, over)
    <2>1. rows \in Seq(Row)
        BY DEF IInv, TypeInv
    <2>2. rows[i] \in Row
        BY <2>1
    <2>3. rows[i].gone \in BOOLEAN
        BY <2>2 DEF Row
    <2> QED BY <1>3, <2>3 DEF Edit, Delete
<1>4. DOMAIN rows \subseteq 1 .. Len(rows) + 1
    BY <1>1
<1> QED BY <1>2, <1>3, <1>4

\* Each action by its lemma.
LEMMA InvStep ==
    ASSUME IInv, [Next]_vars
    PROVE  IInv'
<1>1. CASE Post \/ \E i \in DOMAIN rows : Edit(i) \/ Delete(i)
    BY <1>1, WritersWrite, WriteStep
<1>2. ASSUME NEW m \in 0 .. Len(rows) + 1, Clear(m) PROVE IInv'
    BY <1>2, ClearStep
<1>3. ASSUME NEW f \in pushes, Deliver(f) PROVE IInv'
    BY <1>3, DeliverStep
<1>4. CASE \/ \E f \in pushes : Lose(f)
           \/ ReadServerSeq \/ ReadMark \/ Connect \/ Disconnect
    BY <1>4, QuietStep
<1>5. CASE ReadRows BY <1>5, ReadRowsStep
<1>6. CASE Receive BY <1>6, ReceiveStep
<1>7. CASE Rehydrate BY <1>7, RehydrateStep
<1>8. ASSUME NEW m \in 1 .. hidden, DropHistory(m) PROVE IInv'
    BY <1>8, DropHistoryStep
<1>9. CASE UNCHANGED vars
    <2>1. UNCHANGED <<rows, lastSeq, pushes, cleared, hidden, sock, asked, serverSeq, mark, high,
                      wire, cache, cursor, opened, upTo, sound>>
        BY <1>9 DEF vars
    <2>2. (TypeInv /\ RowsInv /\ BoundsInv)' /\ (SoundInv /\ LiveInv)'
        BY <2>1 DEF IInv, TypeInv, RowsInv, BoundsInv, SoundInv, LiveInv, Visible, Holds, Settled
    <2>3. FramesInv'
        <3>1. \A g : FrameOK(g) => FrameOK(g)'
            BY <2>1, FrameKeeps DEF Visible
        <3> QED BY <2>1, <3>1 DEF IInv, FramesInv
    <2> QED BY <2>2, <2>3 DEF IInv
<1> QED BY <1>1, <1>2, <1>3, <1>4, <1>5, <1>6, <1>7, <1>8, <1>9 DEF Next

\* The invariant holds for ever.
LEMMA Invariance == Spec => []IInv
<1>1. IInv /\ [Next]_vars => IInv'
    BY InvStep
<1> QED BY InvInit, <1>1, PTL DEF Spec

(***************************************************************************)
(* Resuming is enough: a device whose cursor skipped no frame holds every  *)
(* message the reader never cleared as it stands, up to that cursor,       *)
(* however its replays were cut off, limited by the window, overtaken or   *)
(* replaced, and however late an edit or a deletion commits.  Of a message *)
(* whose tombstone an edit was written over it may hold that edit, and is  *)
(* wrong of nothing else.                                                  *)
(***************************************************************************)
THEOREM TheCursorIsHonest == Spec => []CursorIsHonest
<1>1. IInv => CursorIsHonest
    <2> SUFFICES ASSUME IInv, cursor <= sound, NEW i \in Visible, rows[i].rev <= cursor
                 PROVE  Holds(i)
        BY DEF CursorIsHonest
    <2>1. cursor \in Nat /\ sound \in Nat /\ rows[i].rev \in Nat
        BY DEF IInv, TypeInv, RowsInv, Visible
    <2>2. rows[i].rev <= sound
        BY <2>1
    <2> QED BY <2>2 DEF IInv, SoundInv
<1> QED BY Invariance, <1>1, PTL

(***************************************************************************)
(* A first visit is complete: a device that has just been answered, and    *)
(* had skipped no frame before it asked, holds every message the reader    *)
(* never cleared if nothing was written since, an edit written over a      *)
(* tombstone excepted.                                                     *)
(***************************************************************************)
THEOREM TheAnsweredAreComplete == Spec => []AnsweredIsComplete
<1>1. IInv => AnsweredIsComplete
    <2> SUFFICES ASSUME IInv, Answered, asked <= sound, NEW i \in Visible
                 PROVE  Holds(i)
        BY DEF AnsweredIsComplete
    <2>1. asked \in Nat /\ sound \in Nat /\ rows[i].rev \in Nat
        BY DEF IInv, TypeInv, RowsInv, Visible
    <2>2. rows[i].rev <= asked \/ Settled(i)
        BY DEF IInv, LiveInv, Answered
    <2>3. CASE rows[i].rev <= asked
        <3>1. rows[i].rev <= sound
            BY <2>1, <2>3
        <3> QED BY <3>1 DEF IInv, SoundInv
    <2>4. CASE Settled(i)
        <3>1. DOMAIN wire = {}
            BY DEF Answered
        <3> QED BY <2>4, <3>1 DEF Settled
    <2> QED BY <2>2, <2>3, <2>4
<1> QED BY Invariance, <1>1, PTL

(***************************************************************************)
(* Each writer is one move of RevisionJournal, and nobody else touches it. *)
(***************************************************************************)
LEMMA RefinementStep ==
    ASSUME IInv, [Next]_vars
    PROVE  [Journal!JNext]_(Journal!jvars)
<1>1. CASE Post \/ \E i \in DOMAIN rows : Edit(i) \/ Delete(i)
    <2>1. PICK i \in 1 .. Len(rows) + 1 : \E gone, over \in BOOLEAN : Write(i, gone, over)
        BY <1>1, WritersWrite
    <2>2. PICK gone \in BOOLEAN, over \in BOOLEAN : Write(i, gone, over)
        BY <2>1
    <2>3. /\ lastSeq' = lastSeq + 1 /\ lastSeq \in Nat
          /\ DOMAIN rows' = DOMAIN rows \cup {i}
          /\ rows'[i].rev = lastSeq + 1
          /\ \A j \in DOMAIN rows : j # i => rows'[j] = rows[j]
        <3>1. TypeInv /\ RowsInv /\ lastSeq \in Nat
            BY DEF IInv, TypeInv
        <3>2. rows'[i] = [rev |-> lastSeq + 1, gone |-> gone, over |-> over]
            BY <2>2, <3>1, WriteEffect
        <3>3. rows'[i].rev = lastSeq + 1
            BY <3>2
        <3>4. /\ lastSeq' = lastSeq + 1 /\ DOMAIN rows' = DOMAIN rows \cup {i}
              /\ \A j \in DOMAIN rows : j # i => rows'[j] = rows[j]
            BY <2>2, <3>1, WriteEffect
        <3> QED BY <3>1, <3>3, <3>4
    <2> DEFINE p == [j \in DOMAIN rows  |-> rows[j].rev]
               q == [j \in DOMAIN rows' |-> rows'[j].rev]
    <2>4. DOMAIN p = DOMAIN rows /\ DOMAIN q = DOMAIN rows'
        OBVIOUS
    <2>5. q[i] = lastSeq + 1
        BY <2>3
    <2>6. \A j \in DOMAIN p \ {i} : q[j] = p[j]
        BY <2>3
    <2> HIDE DEF p, q
    <2>7. {q[j] : j \in {i}} = lastSeq + 1 .. lastSeq'
        <3>1. {q[j] : j \in {i}} = {lastSeq + 1}
            BY <2>5
        <3>2. lastSeq + 1 .. lastSeq' = {lastSeq + 1}
            BY <2>3
        <3> QED BY <3>1, <3>2
    <2>8. /\ {i} # {} /\ DOMAIN q = DOMAIN p \cup {i}
          /\ \A j, k \in {i} : q[j] = q[k] => j = k
          /\ {i} \in SUBSET DOMAIN q
        BY <2>3, <2>4
    <2>9. Journal!Move({i})
        BY <2>3, <2>6, <2>7, <2>8 DEF Journal!Move, p, q
    <2> QED BY <2>8, <2>9 DEF Journal!JNext, q
<1>2. CASE UNCHANGED <<rows, lastSeq>>
    BY <1>2 DEF Journal!jvars
<1>3. \/ Post \/ \E i \in DOMAIN rows : Edit(i) \/ Delete(i)
      \/ UNCHANGED <<rows, lastSeq>>
    BY DEF Next, vars, Clear, Deliver, Lose, ReadServerSeq, ReadMark, ReadRows, Connect,
           Disconnect, Receive, Rehydrate, DropHistory, journal
<1> QED BY <1>1, <1>2, <1>3

(***************************************************************************)
(* ChatStream implements RevisionJournal: every position a socket is told  *)
(* of is a position of that journal.                                       *)
(***************************************************************************)
THEOREM StreamRefinement == Spec => ImplementsJournal
<1>1. Init => Journal!JInit
    BY DEF Init, Journal!JInit
<1>2. IInv /\ [Next]_vars => [Journal!JNext]_(Journal!jvars)
    BY RefinementStep
<1> QED BY <1>1, <1>2, Invariance, PTL DEF Spec, ImplementsJournal, Journal!JSpec

(***************************************************************************)
(* The promise of RevisionJournal, of whatever implements it.              *)
(***************************************************************************)
PlacesInv == head \in Nat /\ PlacesAreIssuedOnce

\* Positions follow the head, so a row that moves comes to stand above it.
LEMMA MovesRise ==
    ASSUME NEW moved, PlacesInv, Move(moved)
    PROVE  /\ head' \in Nat /\ head' > head
           /\ \A i \in moved : pos'[i] \in head + 1 .. head'
<1>1. head \in Nat /\ head' \in Nat
    BY DEF PlacesInv, Move
<1>2. \A i \in moved : pos'[i] \in head + 1 .. head'
    BY DEF Move
<1>3. PICK i \in moved : TRUE
    BY DEF Move
<1> QED BY <1>1, <1>2, <1>3

LEMMA PlacesStep ==
    ASSUME PlacesInv, [JNext]_jvars
    PROVE  PlacesInv'
<1>1. CASE UNCHANGED jvars
    BY <1>1 DEF jvars, PlacesInv, PlacesAreIssuedOnce
<1>2. ASSUME NEW moved, Move(moved)
      PROVE  PlacesInv'
    <2>1. /\ head \in Nat /\ head' \in Nat /\ head' > head
          /\ \A i \in moved : pos'[i] \in head + 1 .. head'
        BY <1>2, MovesRise DEF PlacesInv
    <2>2. \A i \in DOMAIN pos' : i \in moved \/ (i \in DOMAIN pos /\ pos'[i] = pos[i])
        BY <1>2 DEF Move
    <2>3. \A i \in DOMAIN pos : pos[i] \in 1 .. head
        BY DEF PlacesInv, PlacesAreIssuedOnce
    <2>4. ASSUME NEW i \in DOMAIN pos'
          PROVE  pos'[i] \in 1 .. head'
        BY <2>1, <2>2, <2>3
    <2>5. ASSUME NEW i \in DOMAIN pos', NEW j \in DOMAIN pos', pos'[i] = pos'[j]
          PROVE  i = j
        <3>1. CASE i \in moved /\ j \in moved
            BY <1>2, <2>5, <3>1 DEF Move
        <3>2. CASE i \notin moved /\ j \notin moved
            BY <2>2, <2>5, <3>2 DEF PlacesInv, PlacesAreIssuedOnce
        <3>3. (i \in moved) <=> (j \in moved)
            BY <2>1, <2>2, <2>3, <2>5
        <3> QED BY <3>1, <3>2, <3>3
    <2> QED BY <2>1, <2>4, <2>5 DEF PlacesInv, PlacesAreIssuedOnce
<1> QED BY <1>1, <1>2 DEF JNext

(***************************************************************************)
(* No position is given to two rows, and none is beyond the counter        *)
(* (_allocate_seq and whoever writes the position it returns).             *)
(***************************************************************************)
THEOREM PositionsAreIssuedOnce == JSpec => []PlacesAreIssuedOnce
<1>1. JInit => PlacesInv
    BY DEF JInit, PlacesInv, PlacesAreIssuedOnce
<1>2. PlacesInv => PlacesAreIssuedOnce
    BY DEF PlacesInv
<1> QED BY <1>1, <1>2, PlacesStep, PTL DEF JSpec

SinceThen(h, p) == head \in Nat /\ h \in Nat /\ h <= head /\ NewsIsAbove(h, p)

LEMMA NewsStep ==
    ASSUME NEW h, NEW p, PlacesInv, SinceThen(h, p), [JNext]_jvars
    PROVE  SinceThen(h, p)'
<1>1. CASE UNCHANGED jvars
    BY <1>1 DEF jvars, SinceThen, NewsIsAbove
<1>2. ASSUME NEW moved, Move(moved)
      PROVE  SinceThen(h, p)'
    <2>1. /\ head \in Nat /\ head' \in Nat /\ head' > head
          /\ \A i \in moved : pos'[i] \in head + 1 .. head'
        BY <1>2, MovesRise DEF PlacesInv
    <2>2. h \in Nat /\ h <= head /\ NewsIsAbove(h, p)
        BY DEF SinceThen
    <2>3. DOMAIN p \subseteq DOMAIN pos'
        BY <1>2, <2>2 DEF Move, NewsIsAbove
    <2>4. ASSUME NEW i \in DOMAIN pos'
          PROVE  pos'[i] > h \/ (i \in DOMAIN p /\ pos'[i] = p[i])
        <3>1. CASE i \in moved
            BY <2>1, <2>2, <3>1
        <3>2. CASE i \notin moved
            <4>1. i \in DOMAIN pos /\ pos'[i] = pos[i]
                BY <1>2, <3>2 DEF Move
            <4> QED BY <2>2, <4>1 DEF NewsIsAbove
        <3> QED BY <3>1, <3>2
    <2>5. h <= head'
        BY <2>1, <2>2
    <2> QED BY <2>1, <2>2, <2>3, <2>4, <2>5 DEF SinceThen, NewsIsAbove
<1> QED BY <1>1, <1>2 DEF JNext

(***************************************************************************)
(* Whoever held all rows when the head was h, and later asks for what      *)
(* stands above h, is told of all that was created or changed since, in    *)
(* however many transactions: every other row is the one it held, where it *)
(* held it (messages_since over rev_seq).                                  *)
(***************************************************************************)
THEOREM ACursorLosesNothing ==
    ASSUME NEW CONSTANT h, NEW CONSTANT p
    PROVE  JSpec => [](head = h /\ pos = p => []NewsIsAbove(h, p))
<1>1. JInit => PlacesInv
    BY DEF JInit, PlacesInv, PlacesAreIssuedOnce
<1>2. PlacesInv /\ head = h /\ pos = p => SinceThen(h, p)
    BY DEF PlacesInv, SinceThen, NewsIsAbove
<1>3. PlacesInv /\ SinceThen(h, p) /\ [JNext]_jvars => SinceThen(h, p)'
    BY NewsStep
<1>4. SinceThen(h, p) => NewsIsAbove(h, p)
    BY DEF SinceThen
<1>5. PlacesInv /\ [JNext]_jvars => PlacesInv'
    BY PlacesStep
<1> QED BY <1>1, <1>2, <1>3, <1>4, <1>5, PTL DEF JSpec
===============================================================================
