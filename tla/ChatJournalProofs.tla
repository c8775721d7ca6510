-------------------------- MODULE ChatJournalProofs --------------------------
(***************************************************************************)
(* Proofs about ChatJournal, for every set of participants, bodies,        *)
(* client_msg_id values and workers, and every bound.                      *)
(*                                                                         *)
(* Everything rests on one case analysis, JournalStep: whatever the five   *)
(* kinds of request do, on the counter and the rows a step either appends  *)
(* one row at the next position, rewrites one row at the next position,    *)
(* erases a set of rows on the block of positions that follows, or changes *)
(* nothing.                                                                *)
(***************************************************************************)
EXTENDS ChatJournal, TLAPS, FiniteSetTheorems, SequenceTheorems

(***************************************************************************)
(* Ranks.                                                                  *)
(***************************************************************************)
\* Rank numbers the members of a set of row ids from 1 to its size.
LEMMA RankBounds ==
    ASSUME NEW n \in Nat, NEW S \in SUBSET (1 .. n), NEW i \in S
    PROVE  /\ IsFiniteSet(S)
           /\ Cardinality(S) \in Nat
           /\ Rank(S, i) \in 1 .. Cardinality(S)
<1> DEFINE T == {j \in S : j <= i}
<1>0. i \in Int /\ IsFiniteSet(1 .. n)
  BY FS_Interval
<1>1. IsFiniteSet(S) /\ Cardinality(S) \in Nat
  BY <1>0, FS_Subset, FS_CardinalityType
<1>2. IsFiniteSet(T) /\ Cardinality(T) <= Cardinality(S) /\ Cardinality(T) \in Nat
  BY <1>1, FS_Subset, FS_CardinalityType
<1>3. i \in T
  BY <1>0
<1>4. Cardinality(T) # 0
  BY <1>2, <1>3, FS_EmptySet
<1>5. Rank(S, i) = Cardinality(T)
  BY DEF Rank
<1> HIDE DEF T
<1>6. QED
  BY <1>1, <1>2, <1>4, <1>5

\* A later row has a higher rank.
LEMMA RankIncreases ==
    ASSUME NEW n \in Nat, NEW S \in SUBSET (1 .. n),
           NEW i \in S, NEW j \in S, i < j
    PROVE  Rank(S, i) < Rank(S, j)
<1>1. IsFiniteSet(S) /\ Cardinality(S) \in Nat
      /\ Rank(S, i) \in 1 .. Cardinality(S)
  BY RankBounds
<1>2. Rank(S, j) \in 1 .. Cardinality(S)
  BY RankBounds
<1>3. i \in Int /\ j \in Int /\ \A k \in S : k \in Int
  OBVIOUS
<1>0. \A k \in S : k <= i => k <= j
  BY <1>3
<1> DEFINE T == {k \in S : k <= i}
           U == {k \in S : k <= j}
<1>4. T \subseteq U
  BY <1>0
<1>5. j \in U /\ j \notin T
  BY <1>3
<1>6. IsFiniteSet(U)
  BY <1>1, FS_Subset
<1>7. Rank(S, i) = Cardinality(T) /\ Rank(S, j) = Cardinality(U)
  BY DEF Rank
<1> HIDE DEF T, U
<1>8. Cardinality(T) <= Cardinality(U) /\ Cardinality(T) # Cardinality(U)
  BY <1>4, <1>5, <1>6, FS_Subset
<1>9. QED
  BY <1>1, <1>2, <1>7, <1>8

\* Every rank up to the size of the set is taken.
LEMMA RankCovers ==
    ASSUME NEW n \in Nat, NEW S \in SUBSET (1 .. n), NEW k \in 1 .. Cardinality(S)
    PROVE  \E i \in S : Rank(S, i) = k
<1>1. IsFiniteSet(S) /\ Cardinality(S) \in Nat
  <2>1. IsFiniteSet(1 .. n)
    BY FS_Interval
  <2>2. QED
    BY <2>1, FS_Subset, FS_CardinalityType
<1>2. \A i \in S : Rank(S, i) \in 1 .. Cardinality(S)
  BY RankBounds
<1>3. \A i, j \in S : i < j => Rank(S, i) < Rank(S, j)
  BY RankIncreases
<1> DEFINE c == Cardinality(S)
           f == [i \in S |-> Rank(S, i)]
<1>4. f \in Injection(S, 1 .. c)
  <2>1. \A i, j \in S : Rank(S, i) = Rank(S, j) => i = j
    <3> SUFFICES ASSUME NEW i \in S, NEW j \in S, Rank(S, i) = Rank(S, j)
                 PROVE  i = j
      OBVIOUS
    <3>1. Rank(S, i) \in Int /\ ~(Rank(S, i) < Rank(S, j)) /\ ~(Rank(S, j) < Rank(S, i))
      BY <1>1, <1>2
    <3>2. i \in Int /\ j \in Int
      OBVIOUS
    <3>3. QED
      BY <1>3, <3>1, <3>2
  <2>2. f \in [S -> 1 .. c]
    BY <1>2
  <2>3. QED
    BY <2>1, <2>2 DEF Injection, IsInjective
<1>5. IsFiniteSet(1 .. c) /\ Cardinality(1 .. c) = c
  BY <1>1, FS_Interval
<1>6. f \in Surjection(S, 1 .. c)
  BY <1>4, <1>5, FS_Injection
<1>7. QED
  BY <1>6 DEF Surjection

(***************************************************************************)
(* Type correctness.                                                       *)
(***************************************************************************)
\* A loaded request names a row and a user that exist: rows never go away.
RequestsOK ==
    \A w \in Workers :
       /\ pc[w] \in {"edit", "delete"} =>
             req[w].id \in DOMAIN rows /\ req[w].user \in Users
       /\ pc[w] = "leave" => req[w].user \in Users

\* Rows are records at the positions 1 .. Len(rows).
LEMMA RowsType ==
    ASSUME TypeOK
    PROVE  /\ Len(rows) \in Nat
           /\ DOMAIN rows = 1 .. Len(rows)
           /\ \A id \in DOMAIN rows : rows[id] \in Row
BY LenProperties, ElementOfSeq DEF TypeOK

\* A set of rows can be counted.
LEMMA RowSetFinite ==
    ASSUME TypeOK, NEW S \in SUBSET DOMAIN rows
    PROVE  IsFiniteSet(S) /\ Cardinality(S) \in Nat
<1>1. IsFiniteSet(1 .. Len(rows)) /\ S \in SUBSET (1 .. Len(rows))
  BY RowsType, FS_Interval
<1>2. QED
  BY <1>1, FS_Subset, FS_CardinalityType

\* The frame of a row, whatever the recipients.
LEMMA FrameType ==
    ASSUME NEW id \in Nat, NEW m \in Row, NEW to \in SUBSET Users
    PROVE  Frame(id, m, to) \in Push
BY DEF Frame, Push, Row, Bodies

\* An inserted row, its event, its frame and the marks it leaves are well typed.
LEMMA InsertType ==
    ASSUME TypeOK,
           NEW w \in Workers, NEW m \in Row, NEW hidden \in SUBSET Users,
           NEW extra \in Seq(Push), replies' \subseteq (Cids \cup {NoCid}) \X Nat,
           Insert(w, m, hidden, extra)
    PROVE  TypeOK'
<1>1. Len(rows) + 1 \in Nat
  BY RowsType
<1>2. lastSeq' \in 0 .. MaxSeq
  BY MaxSeqAssumption DEF TypeOK, Insert, NextSeq
<1>3. rows' \in Seq(Row)
  BY DEF TypeOK, Insert
<1>4. outbox' \in Seq(Event)
  <2>1. [type |-> "message", id |-> Len(rows) + 1, rev |-> m.rev, body |-> m.body]
           \in Event
    BY <1>1 DEF Event, Row
  <2>2. QED
    BY <2>1 DEF TypeOK, Insert
<1>5. pushes' \in [Workers -> Seq(Push)]
  <2>1. Frame(Len(rows) + 1, m, Users \ hidden) \in Push
    BY <1>1, FrameType
  <2>2. <<Frame(Len(rows) + 1, m, Users \ hidden)>> \o extra \in Seq(Push)
    BY <2>1
  <2>3. QED
    BY <2>2 DEF TypeOK, Insert, Committed
<1>6. req' \in [Workers -> Request]
  BY DEF TypeOK, Insert, Committed, Request, Idle, Bodies
<1>7. pc' \in [Workers -> Working]
  BY DEF TypeOK, Insert, Committed, Working
<1>8. left' \subseteq Users
  BY DEF Insert
<1>9. QED
  BY <1>2, <1>3, <1>4, <1>5, <1>6, <1>7, <1>8 DEF TypeOK

\* Rewriting one row keeps every row well typed and every id in place.
LEMMA RewriteType ==
    ASSUME TypeOK, NEW id \in DOMAIN rows, NEW m \in Row
    PROVE  /\ [rows EXCEPT ![id] = m] \in Seq(Row)
           /\ DOMAIN [rows EXCEPT ![id] = m] = DOMAIN rows
BY RowsType, ExceptSeq DEF TypeOK

\* What an edit and a deletion make of a row, field by field.
LEMMA EditedRowType ==
    ASSUME lastSeq \in Nat, NEW m \in Row, NEW body \in Bodies
    PROVE  /\ EditedRow(m, body) \in Row
           /\ EditedRow(m, body).seq = m.seq
           /\ EditedRow(m, body).rev = lastSeq + 1
           /\ EditedRow(m, body).deleted = m.deleted
           /\ EditedRow(m, body).sender = m.sender
           /\ EditedRow(m, body).cid = m.cid
<1>1. lastSeq + 1 \in Nat
  OBVIOUS
<1>2. QED
  BY <1>1 DEF EditedRow, Row

LEMMA TombstoneType ==
    ASSUME lastSeq \in Nat, NEW m \in Row
    PROVE  /\ Tombstone(m) \in Row
           /\ Tombstone(m).seq = m.seq
           /\ Tombstone(m).rev = lastSeq + 1
           /\ Tombstone(m).deleted = TRUE
           /\ Tombstone(m).sender = m.sender
           /\ Tombstone(m).cid = m.cid
<1>1. lastSeq + 1 \in Nat /\ NoText \in Bodies
  BY DEF Bodies
<1>2. QED
  BY <1>1 DEF Tombstone, Row

\* Erasing rows keeps every row well typed and every id in place.
LEMMA ErasedType ==
    ASSUME TypeOK, NEW S \in SUBSET DOMAIN rows
    PROVE  /\ Erased(S) \in Seq(Row)
           /\ DOMAIN Erased(S) = DOMAIN rows
           /\ \A id \in DOMAIN rows : Erased(S)[id] \in Row
<1>1. \A id \in S : Rank(S, id) \in Nat
  <2>1. S \in SUBSET (1 .. Len(rows)) /\ Len(rows) \in Nat
    BY RowsType
  <2>2. \A id \in S : Rank(S, id) \in 1 .. Cardinality(S)
    BY <2>1, RankBounds
  <2>3. Cardinality(S) \in Nat
    BY RowSetFinite
  <2>4. QED
    BY <2>2, <2>3
<1>2. \A id \in DOMAIN rows : Erased(S)[id] \in Row
  <2> SUFFICES ASSUME NEW id \in DOMAIN rows
               PROVE  Erased(S)[id] \in Row
    OBVIOUS
  <2>1. rows[id] \in Row
    BY RowsType
  <2>2. CASE id \notin S
    BY <2>1, <2>2 DEF Erased
  <2>3. CASE id \in S
    <3> DEFINE v == lastSeq + Rank(S, id)
    <3>1. v \in Nat /\ NoText \in Bodies
      BY <1>1, <2>3 DEF TypeOK, Bodies
    <3>2. Erased(S)[id] = [rows[id] EXCEPT !.body = NoText, !.sender = NoUser,
                                           !.deleted = TRUE, !.rev = v]
      BY <2>3 DEF Erased
    <3> HIDE DEF v
    <3>3. QED
      BY <2>1, <3>1, <3>2 DEF Row
  <2>4. QED
    BY <2>2, <2>3
<1>3. DOMAIN Erased(S) = 1 .. Len(rows)
  BY RowsType DEF Erased
<1>4. Erased(S) = [id \in 1 .. Len(rows) |-> Erased(S)[id]]
  BY RowsType DEF Erased
<1>5. Erased(S) \in [1 .. Len(rows) -> Row]
  BY <1>2, <1>4, RowsType
<1>6. QED
  BY <1>2, <1>3, <1>5, RowsType, SeqDef

(***************************************************************************)
(* Every worker state, request, row, event and frame keeps its type, and a *)
(* request keeps naming an existing row.                                   *)
(***************************************************************************)
LEMMA TypeStep == TypeOK /\ RequestsOK /\ [Next]_vars => TypeOK'
<1> SUFFICES ASSUME TypeOK, RequestsOK, [Next]_vars
             PROVE  TypeOK'
  OBVIOUS
<1>1. ASSUME NEW w \in Workers, NEW state \in Working, NEW r \in Request,
             Load(w, state, r)
      PROVE  TypeOK'
  BY <1>1 DEF TypeOK, Load
<1>2. ASSUME NEW w \in Workers, Begin(w)
      PROVE  TypeOK'
  <2>1. ASSUME NEW u \in Users \cup {NoUser}, NEW cid \in Cids \cup {NoCid},
               NEW text \in Texts, BeginSend(w, u, cid, text)
        PROVE  TypeOK'
    BY <1>1, <2>1 DEF BeginSend, Request, Bodies, Working
  <2>2. ASSUME NEW u \in Users, NEW id \in DOMAIN rows, NEW text \in Texts,
               BeginEdit(w, u, id, text)
        PROVE  TypeOK'
    BY <1>1, <2>2, RowsType DEF BeginEdit, Request, Bodies, Working
  <2>3. ASSUME NEW u \in Users, NEW id \in DOMAIN rows, BeginDelete(w, u, id)
        PROVE  TypeOK'
    BY <1>1, <2>3, RowsType DEF BeginDelete, Request, Bodies, Working
  <2>4. ASSUME NEW u \in Users, BeginErase(w, u)
        PROVE  TypeOK'
    BY <1>1, <2>4 DEF BeginErase, Request, Bodies, Working
  <2>5. ASSUME NEW u \in Users, BeginLeave(w, u)
        PROVE  TypeOK'
    BY <1>1, <2>5 DEF BeginLeave, Request, Bodies, Working
  <2>6. QED
    BY <1>2, <2>1, <2>2, <2>3, <2>4, <2>5 DEF Begin
<1>3. ASSUME NEW w \in Workers, CommitSend(w)
      PROVE  TypeOK'
  <2> DEFINE kind == IF req[w].user = NoUser THEN "system" ELSE "text"
             m    == NewRow(req[w].user, kind, req[w].body, req[w].cid)
  <2>1. req[w] \in Request
    BY DEF TypeOK
  <2>2. m \in Row
    BY <2>1 DEF NewRow, NextSeq, Row, Request, TypeOK
  <2>3. Resurfaced(req[w].user) \in SUBSET Users
    BY DEF Resurfaced, TypeOK
  <2>4. replies' \subseteq (Cids \cup {NoCid}) \X Nat
    BY <1>3, <2>1, RowsType DEF CommitSend, Request, TypeOK
  <2>5. Insert(w, m, Resurfaced(req[w].user), <<>>)
    BY <1>3 DEF CommitSend
  <2> HIDE DEF m
  <2>6. QED
    BY <2>2, <2>3, <2>4, <2>5, InsertType, EmptySeq
<1>4. ASSUME NEW w \in Workers, CommitLeave(w)
      PROVE  TypeOK'
  <2> DEFINE u == req[w].user
             m == NewRow(NoUser, "system", LeftLine(u), NoCid)
  <2>1. u \in Users
    BY <1>4 DEF CommitLeave, RequestsOK
  <2>2. m \in Row
    BY <2>1 DEF NewRow, NextSeq, Row, Bodies, TypeOK
  <2>3. left \cup {u} \in SUBSET Users
    BY <2>1 DEF TypeOK
  <2>4. Revoke(u) \in Push
    BY <2>1 DEF Revoke, Push, Bodies
  <2>5. Insert(w, m, left \cup {u}, <<Revoke(u)>>) /\ replies' = replies
    BY <1>4 DEF CommitLeave
  <2> HIDE DEF m, u
  <2>6. <<Revoke(u)>> \in Seq(Push)
    BY <2>4
  <2>7. replies' \subseteq (Cids \cup {NoCid}) \X Nat
    BY <2>5 DEF TypeOK
  <2>8. QED
    BY <2>2, <2>3, <2>5, <2>6, <2>7, InsertType
<1>5. ASSUME NEW w \in Workers, CommitEdit(w)
      PROVE  TypeOK'
  <2> DEFINE r == req[w]
             m == EditedRow(rows[r.id], r.body)
             f == Frame(r.id, [m EXCEPT !.deleted = FALSE, !.sender = r.user],
                        Users \ left)
  <2>1. r \in Request /\ r.id \in DOMAIN rows /\ r.user \in Users
    BY <1>5 DEF TypeOK, RequestsOK, CommitEdit
  <2>2. rows[r.id] \in Row /\ r.id \in Nat
    BY <2>1, RowsType
  <2>3. m \in Row /\ m.rev \in Nat
    <3>1. lastSeq \in Nat /\ r.body \in Bodies
      BY <2>1 DEF TypeOK, Request
    <3>2. m \in Row
      BY <2>2, <3>1, EditedRowType
    <3>3. QED
      BY <3>2 DEF Row
  <2>4. [m EXCEPT !.deleted = FALSE, !.sender = r.user] \in Row
    BY <2>1, <2>3 DEF Row
  <2>5. f \in Push
    BY <2>2, <2>4, FrameType
  <2>6. rows' \in Seq(Row)
    BY <1>5, <2>1, <2>3, RewriteType DEF CommitEdit
  <2>7. [type |-> "edited", id |-> r.id, rev |-> m.rev, body |-> r.body] \in Event
    BY <2>1, <2>2, <2>3 DEF Event, Request
  <2>8. outbox' \in Seq(Event)
    BY <1>5, <2>7 DEF CommitEdit, TypeOK
  <2>9. pushes' \in [Workers -> Seq(Push)]
    BY <1>5, <2>5 DEF CommitEdit, Committed, TypeOK
  <2> HIDE DEF m, f
  <2>10. QED
    BY <1>5, <2>6, <2>8, <2>9, MaxSeqAssumption
    DEF CommitEdit, Committed, NextSeq, TypeOK, Working, Request, Idle, Bodies
<1>6. ASSUME NEW w \in Workers, CommitDelete(w)
      PROVE  TypeOK'
  <2> DEFINE r == req[w]
             m == Tombstone(rows[r.id])
             f == Frame(r.id, [m EXCEPT !.sender = r.user], Users \ left)
  <2>1. r \in Request /\ r.id \in DOMAIN rows /\ r.user \in Users
    BY <1>6 DEF TypeOK, RequestsOK, CommitDelete
  <2>2. rows[r.id] \in Row /\ r.id \in Nat
    BY <2>1, RowsType
  <2>3. m \in Row /\ m.rev \in Nat
    <3>1. lastSeq \in Nat
      BY DEF TypeOK
    <3>2. m \in Row
      BY <2>2, <3>1, TombstoneType
    <3>3. QED
      BY <3>2 DEF Row
  <2>4. [m EXCEPT !.sender = r.user] \in Row
    BY <2>1, <2>3 DEF Row
  <2>5. f \in Push
    BY <2>2, <2>4, FrameType
  <2>6. rows' \in Seq(Row)
    BY <1>6, <2>1, <2>3, RewriteType DEF CommitDelete
  <2>7. [type |-> "deleted", id |-> r.id, rev |-> m.rev, body |-> NoText] \in Event
    BY <2>2, <2>3 DEF Event, Bodies
  <2>8. outbox' \in Seq(Event)
    BY <1>6, <2>7 DEF CommitDelete, TypeOK
  <2>9. pushes' \in [Workers -> Seq(Push)]
    BY <1>6, <2>5 DEF CommitDelete, Committed, TypeOK
  <2> HIDE DEF m, f
  <2>10. QED
    BY <1>6, <2>6, <2>8, <2>9, MaxSeqAssumption
    DEF CommitDelete, Committed, NextSeq, TypeOK, Working, Request, Idle, Bodies
<1>7. ASSUME NEW w \in Workers, CommitErase(w)
      PROVE  TypeOK'
  <2> DEFINE S     == Authored(req[w].user)
             n     == Cardinality(S)
             At(k) == CHOOSE id \in S : Rank(S, id) = k
             ps    == [k \in 1 .. n |-> Frame(At(k), Erased(S)[At(k)], Users)]
  <2>1. S \in SUBSET DOMAIN rows /\ S \in SUBSET (1 .. Len(rows))
    BY RowsType DEF Authored
  <2>2. n \in Nat
    BY <2>1, RowSetFinite
  <2>3. \A k \in 1 .. n : At(k) \in S
    BY <2>1, RowsType, RankCovers
  <2>4. \A k \in 1 .. n : Frame(At(k), Erased(S)[At(k)], Users) \in Push
    <3> SUFFICES ASSUME NEW k \in 1 .. n
                 PROVE  Frame(At(k), Erased(S)[At(k)], Users) \in Push
      OBVIOUS
    <3>1. At(k) \in DOMAIN rows /\ At(k) \in Nat
      <4>1. At(k) \in S
        BY <2>3
      <4>2. \A i \in S : i \in DOMAIN rows /\ i \in Nat
        BY ONLY <2>1
      <4>3. QED
        BY ONLY <4>1, <4>2
    <3>2. Erased(S)[At(k)] \in Row
      BY <2>1, <3>1, ErasedType
    <3>3. QED
      BY <3>1, <3>2, FrameType
  <2>5. ps \in Seq(Push)
    <3> DEFINE P(k) == Frame(At(k), Erased(S)[At(k)], Users)
    <3>1. ps = [k \in 1 .. n |-> P(k)] /\ \A k \in 1 .. n : P(k) \in Push
      BY <2>4
    <3> HIDE DEF P
    <3>2. ps \in [1 .. n -> Push]
      BY ONLY <3>1
    <3>3. QED
      BY <2>2, <3>2, SeqDef
  <2>6. rows' = Erased(S) /\ lastSeq' = lastSeq + n /\ lastSeq + n <= MaxSeq
        /\ Committed(w, ps) /\ UNCHANGED <<left, outbox, replies>>
    BY <1>7 DEF CommitErase
  <2>7. rows' \in Seq(Row)
    BY <2>1, <2>6, ErasedType
  <2> HIDE DEF S, n, ps
  <2>8. QED
    BY <2>2, <2>5, <2>6, <2>7, MaxSeqAssumption
    DEF Committed, TypeOK, Working, Request, Idle, Bodies
<1>8. ASSUME NEW w \in Workers, NEW cid \in Cids, SendAgain(w, cid)
      PROVE  TypeOK'
  <2>1. WithCid(cid) \subseteq Nat
    BY RowsType DEF WithCid
  <2>2. QED
    BY <1>8, <2>1 DEF SendAgain, TypeOK
<1>9. ASSUME NEW w \in Workers, SendCollides(w)
      PROVE  TypeOK'
  <2>1. WithCid(req[w].cid) \subseteq Nat /\ req[w].cid \in Cids \cup {NoCid}
    BY RowsType DEF WithCid, TypeOK, Request
  <2>2. QED
    BY <1>9, <2>1 DEF SendCollides, Returned, TypeOK, Working, Request, Idle, Bodies
<1>10. ASSUME NEW w \in Workers, EraseNothing(w) \/ Finish(w)
       PROVE  TypeOK'
  <2>1. Returned(w) /\ UNCHANGED <<lastSeq, rows, left, outbox, pushes, replies>>
    BY <1>10 DEF EraseNothing, Finish
  <2>2. QED
    BY <2>1 DEF Returned, TypeOK, Working, Request, Idle, Bodies
<1>11. ASSUME NEW w \in Workers, Deliver(w)
       PROVE  TypeOK'
  <2>1. Tail(pushes[w]) \in Seq(Push)
    BY <1>11, HeadTailProperties DEF Deliver, TypeOK
  <2>2. QED
    BY <1>11, <2>1 DEF Deliver, TypeOK
<1>12. ASSUME NEW w \in Workers, Crash(w)
       PROVE  TypeOK'
  BY <1>12 DEF Crash, Returned, TypeOK, Working, Request, Idle, Bodies
<1>13. ASSUME NEW u \in Users, Rejoin(u)
       PROVE  TypeOK'
  BY <1>13 DEF Rejoin, TypeOK
<1>14. CASE UNCHANGED vars
  BY <1>14 DEF vars, TypeOK
<1>15. QED
  BY <1>2, <1>3, <1>4, <1>5, <1>6, <1>7, <1>8, <1>9, <1>10, <1>11, <1>12,
     <1>13, <1>14 DEF Next, Commit

(***************************************************************************)
(* What a step does to the counter and the rows.                           *)
(***************************************************************************)
Appended ==
    \E m \in Row :
       /\ m.seq = lastSeq + 1 /\ m.rev = lastSeq + 1
       /\ WithCid(m.cid) = {}
       /\ rows' = Append(rows, m)
       /\ lastSeq' = lastSeq + 1

Rewritten ==
    \E id \in DOMAIN rows, m \in Row :
       /\ m.seq = rows[id].seq /\ m.rev = lastSeq + 1
       /\ rows[id].deleted => m.deleted
       /\ m.sender = rows[id].sender /\ m.cid = rows[id].cid
       /\ rows' = [rows EXCEPT ![id] = m]
       /\ lastSeq' = lastSeq + 1

BlockErased ==
    \E S \in SUBSET DOMAIN rows :
       /\ S # {}
       /\ rows' = Erased(S)
       /\ lastSeq' = lastSeq + Cardinality(S)

LEMMA JournalStep ==
    ASSUME TypeOK, RequestsOK, [Next]_vars
    PROVE  Appended \/ Rewritten \/ BlockErased \/ UNCHANGED <<lastSeq, rows>>
<1>1. ASSUME NEW w \in Workers, CommitSend(w)
      PROVE  Appended
  <2> DEFINE kind == IF req[w].user = NoUser THEN "system" ELSE "text"
             m    == NewRow(req[w].user, kind, req[w].body, req[w].cid)
  <2>1. req[w] \in Request
    BY DEF TypeOK
  <2>2. m \in Row
    BY <2>1 DEF NewRow, NextSeq, Row, Request, TypeOK
  <2>3. m.seq = lastSeq + 1 /\ m.rev = lastSeq + 1
    BY DEF NewRow, NextSeq
  <2>4. rows' = Append(rows, m) /\ lastSeq' = lastSeq + 1
    BY <1>1 DEF CommitSend, Insert, NextSeq
  <2>5. WithCid(m.cid) = {}
    BY <1>1 DEF CommitSend, NewRow
  <2> HIDE DEF m
  <2>6. QED
    BY <2>2, <2>3, <2>4, <2>5 DEF Appended
<1>2. ASSUME NEW w \in Workers, CommitLeave(w)
      PROVE  Appended
  <2> DEFINE m == NewRow(NoUser, "system", LeftLine(req[w].user), NoCid)
  <2>1. req[w].user \in Users
    BY <1>2 DEF CommitLeave, RequestsOK
  <2>2. m \in Row
    BY <2>1 DEF NewRow, NextSeq, Row, Bodies, TypeOK
  <2>3. m.seq = lastSeq + 1 /\ m.rev = lastSeq + 1
    BY DEF NewRow, NextSeq
  <2>4. rows' = Append(rows, m) /\ lastSeq' = lastSeq + 1
    BY <1>2 DEF CommitLeave, Insert, NextSeq
  <2>5. WithCid(m.cid) = {}
    BY DEF WithCid, NewRow
  <2> HIDE DEF m
  <2>6. QED
    BY <2>2, <2>3, <2>4, <2>5 DEF Appended
<1>3. ASSUME NEW w \in Workers, CommitEdit(w)
      PROVE  Rewritten
  <2> DEFINE r == req[w]
             m == EditedRow(rows[r.id], r.body)
  <2>1. r \in Request /\ r.id \in DOMAIN rows
    BY <1>3 DEF TypeOK, RequestsOK, CommitEdit
  <2>2. rows[r.id] \in Row
    BY <2>1, RowsType
  <2>3. r.body \in Bodies /\ lastSeq \in Nat
    BY <2>1 DEF Request, TypeOK
  <2>4. /\ m \in Row /\ m.seq = rows[r.id].seq /\ m.rev = lastSeq + 1
        /\ m.deleted = rows[r.id].deleted /\ m.sender = rows[r.id].sender
        /\ m.cid = rows[r.id].cid
    BY <2>2, <2>3, EditedRowType
  <2>5. rows' = [rows EXCEPT ![r.id] = m] /\ lastSeq' = lastSeq + 1
    BY <1>3 DEF CommitEdit, NextSeq
  <2> HIDE DEF m
  <2>6. QED
    BY <2>1, <2>4, <2>5 DEF Rewritten
<1>4. ASSUME NEW w \in Workers, CommitDelete(w)
      PROVE  Rewritten
  <2> DEFINE r == req[w]
             m == Tombstone(rows[r.id])
  <2>1. r.id \in DOMAIN rows /\ lastSeq \in Nat
    BY <1>4 DEF TypeOK, RequestsOK, CommitDelete
  <2>2. rows[r.id] \in Row
    BY <2>1, RowsType
  <2>4. /\ m \in Row /\ m.seq = rows[r.id].seq /\ m.rev = lastSeq + 1
        /\ m.deleted = TRUE /\ m.sender = rows[r.id].sender
        /\ m.cid = rows[r.id].cid
    BY <2>1, <2>2, TombstoneType
  <2>5. rows' = [rows EXCEPT ![r.id] = m] /\ lastSeq' = lastSeq + 1
    BY <1>4 DEF CommitDelete, NextSeq
  <2> HIDE DEF m
  <2>6. QED
    BY <2>1, <2>4, <2>5 DEF Rewritten
<1>5. ASSUME NEW w \in Workers, CommitErase(w)
      PROVE  BlockErased
  BY <1>5 DEF CommitErase, BlockErased, Authored
<1>6. ASSUME NEW w \in Workers, Begin(w)
      PROVE  UNCHANGED <<lastSeq, rows>>
  BY <1>6 DEF Begin, BeginSend, BeginEdit, BeginDelete, BeginErase, BeginLeave, Load
<1>7. ASSUME NEW w \in Workers,
             (\E cid \in Cids : SendAgain(w, cid)) \/ SendCollides(w)
             \/ EraseNothing(w) \/ Deliver(w) \/ Finish(w) \/ Crash(w)
      PROVE  UNCHANGED <<lastSeq, rows>>
  BY <1>7 DEF SendAgain, SendCollides, EraseNothing, Deliver, Finish, Crash
<1>8. ASSUME NEW u \in Users, Rejoin(u)
      PROVE  UNCHANGED <<lastSeq, rows>>
  BY <1>8 DEF Rejoin
<1>9. CASE UNCHANGED vars
  BY <1>9 DEF vars
<1>10. QED
  BY <1>1, <1>2, <1>3, <1>4, <1>5, <1>6, <1>7, <1>8, <1>9 DEF Next, Commit

(***************************************************************************)
(* The inductive invariant.                                                *)
(***************************************************************************)
\* A rewritten row is found where it was, and the others are untouched.
LEMMA RequestsStep == TypeOK /\ RequestsOK /\ [Next]_vars => RequestsOK'
<1> SUFFICES ASSUME TypeOK, RequestsOK, [Next]_vars
             PROVE  RequestsOK'
  OBVIOUS
<1>1. DOMAIN rows \subseteq DOMAIN rows'
  <2>1. CASE Appended
    BY <2>1, RowsType DEF Appended, TypeOK
  <2>2. CASE Rewritten
    BY <2>2 DEF Rewritten
  <2>3. CASE BlockErased
    BY <2>3 DEF BlockErased, Erased
  <2>4. QED
    BY <2>1, <2>2, <2>3, JournalStep
<1>2. ASSUME NEW w \in Workers, Begin(w)
      PROVE  RequestsOK'
  BY <1>1, <1>2 DEF Begin, BeginSend, BeginEdit, BeginDelete, BeginErase, BeginLeave,
     Load, RequestsOK, TypeOK
<1>3. ASSUME NEW w \in Workers, Commit(w)
      PROVE  RequestsOK'
  <2>1. \E ps : Committed(w, ps)
    BY <1>3 DEF Commit, CommitSend, CommitEdit, CommitDelete, CommitErase,
       CommitLeave, Insert
  <2>2. QED
    BY <1>1, <2>1 DEF Committed, RequestsOK, TypeOK
<1>4. ASSUME NEW w \in Workers,
             SendCollides(w) \/ EraseNothing(w) \/ Finish(w) \/ Crash(w)
      PROVE  RequestsOK'
  <2>1. Returned(w)
    BY <1>4 DEF SendCollides, EraseNothing, Finish, Crash
  <2>2. QED
    BY <1>1, <2>1 DEF Returned, RequestsOK, TypeOK
<1>5. ASSUME UNCHANGED <<pc, req>>
      PROVE  RequestsOK'
  BY <1>1, <1>5 DEF RequestsOK
<1>6. QED
  BY <1>2, <1>3, <1>4, <1>5 DEF Next, SendAgain, Deliver, Rejoin, vars

(***************************************************************************)
(* Types and positions together are inductive: the step that erases needs  *)
(* the ranks to be distinct, the steps that rewrite need their row to      *)
(* exist, and every new position lies beyond the counter, which no old     *)
(* position does.                                                          *)
(***************************************************************************)
IInv == TypeOK /\ RequestsOK /\ JournalPositions

LEMMA PositionsStep ==
    ASSUME IInv, [Next]_vars
    PROVE  JournalPositions'
<1> USE DEF IInv
<1>1. lastSeq \in Nat /\ \A i \in DOMAIN rows : rows[i].seq \in Nat /\ rows[i].rev \in Nat
  BY RowsType DEF TypeOK, Row
<1>2. CASE Appended
  <2>1. PICK m \in Row : /\ m.seq = lastSeq + 1 /\ m.rev = lastSeq + 1
                         /\ rows' = Append(rows, m)
                         /\ lastSeq' = lastSeq + 1
    BY <1>2 DEF Appended
  <2>2. /\ DOMAIN rows' = 1 .. Len(rows) + 1
        /\ \A i \in DOMAIN rows : rows'[i] = rows[i]
        /\ rows'[Len(rows) + 1] = m
    BY <2>1, RowsType DEF TypeOK
  <2>3. \A i \in DOMAIN rows' : i \in DOMAIN rows \/ i = Len(rows) + 1
    BY <2>2, RowsType
  <2>4. QED
    BY <1>1, <2>1, <2>2, <2>3, RowsType DEF JournalPositions
<1>3. CASE Rewritten
  <2>1. PICK id \in DOMAIN rows, m \in Row :
                /\ m.seq = rows[id].seq /\ m.rev = lastSeq + 1
                /\ rows' = [rows EXCEPT ![id] = m]
                /\ lastSeq' = lastSeq + 1
    BY <1>3 DEF Rewritten
  <2>2. /\ DOMAIN rows' = DOMAIN rows
        /\ rows'[id] = m
        /\ \A i \in DOMAIN rows : i # id => rows'[i] = rows[i]
    BY <2>1
  <2>3. QED
    BY <1>1, <2>1, <2>2 DEF JournalPositions
<1>4. CASE BlockErased
  <2>1. PICK S \in SUBSET DOMAIN rows :
                /\ rows' = Erased(S)
                /\ lastSeq' = lastSeq + Cardinality(S)
    BY <1>4 DEF BlockErased
  <2>2. /\ S \in SUBSET (1 .. Len(rows)) /\ Len(rows) \in Nat
        /\ Cardinality(S) \in Nat /\ S \subseteq Int
    BY RowsType, RowSetFinite
  <2>3. \A i \in S : Rank(S, i) \in 1 .. Cardinality(S)
    BY <2>2, RankBounds
  <2>4. \A i, j \in S : i < j => Rank(S, i) < Rank(S, j)
    BY <2>2, RankIncreases
  <2>5. DOMAIN rows' = DOMAIN rows
    BY <2>1 DEF Erased
  <2>6. \A i \in DOMAIN rows : rows'[i].seq = rows[i].seq
    BY <2>1, RowsType DEF Erased, Row
  <2>7. \A i \in S : rows'[i].rev = lastSeq + Rank(S, i)
    BY <2>1, RowsType DEF Erased, Row
  <2>8. \A i \in DOMAIN rows : i \notin S => rows'[i].rev = rows[i].rev
    BY <2>1 DEF Erased
  <2>9. \A i, j \in DOMAIN rows : i # j => rows'[i].rev # rows'[j].rev
    <3> SUFFICES ASSUME NEW i \in DOMAIN rows, NEW j \in DOMAIN rows, i < j
                 PROVE  rows'[i].rev # rows'[j].rev
      BY RowsType
    <3>1. CASE i \in S /\ j \in S
      BY <1>1, <2>2, <2>3, <2>4, <2>7, <3>1
    <3>2. ASSUME NEW k \in S, NEW l \in DOMAIN rows, l \notin S
          PROVE  rows'[k].rev # rows'[l].rev
      <4>1. rows'[l].rev = rows[l].rev /\ rows[l].rev <= lastSeq /\ rows[l].rev \in Nat
        BY <1>1, <2>8, <3>2 DEF JournalPositions
      <4>2. Rank(S, k) \in Nat /\ Rank(S, k) >= 1
        BY <2>2, <2>3
      <4>3. rows'[k].rev = lastSeq + Rank(S, k)
        BY <2>7
      <4>4. QED
        BY <1>1, <4>1, <4>2, <4>3
    <3>3. CASE (i \in S /\ j \notin S) \/ (i \notin S /\ j \in S)
      BY <3>2, <3>3
    <3>4. CASE i \notin S /\ j \notin S
      BY <2>8, <3>4, RowsType DEF JournalPositions
    <3>5. QED
      BY <3>1, <3>2, <3>3, <3>4
  <2>10. \A i \in DOMAIN rows : rows'[i].seq <= rows'[i].rev /\ rows'[i].rev <= lastSeq'
    <3> SUFFICES ASSUME NEW i \in DOMAIN rows
                 PROVE  rows'[i].seq <= rows'[i].rev /\ rows'[i].rev <= lastSeq'
      OBVIOUS
    <3>1. rows[i].seq <= rows[i].rev /\ rows[i].rev <= lastSeq
      BY DEF JournalPositions
    <3>2. CASE i \in S
      BY <1>1, <2>1, <2>2, <2>3, <2>6, <2>7, <3>1, <3>2
    <3>3. CASE i \notin S
      BY <1>1, <2>1, <2>2, <2>6, <2>8, <3>1, <3>3
    <3>4. QED
      BY <3>2, <3>3
  <2>11. QED
    BY <2>5, <2>6, <2>9, <2>10 DEF JournalPositions
<1>5. CASE UNCHANGED <<lastSeq, rows>>
  BY <1>5 DEF JournalPositions
<1>6. QED
  BY <1>2, <1>3, <1>4, <1>5, JournalStep

\* The three facts an inductive invariant needs, put together.
LEMMA Invariance == Spec => []IInv
<1>1. Init => IInv
  <2> SUFFICES ASSUME Init PROVE IInv
    OBVIOUS
  <2>1. rows = <<>> /\ outbox = <<>> /\ \A w \in Workers : pushes[w] = <<>>
    BY DEF Init
  <2>2. DOMAIN rows = {} /\ rows \in Seq(Row) /\ outbox \in Seq(Event)
    BY <2>1, EmptySeq
  <2>3. pushes \in [Workers -> Seq(Push)]
    BY EmptySeq DEF Init
  <2>4. TypeOK
    BY <2>2, <2>3, MaxSeqAssumption DEF Init, TypeOK, Working, Request, Idle, Bodies
  <2>5. RequestsOK
    BY DEF Init, RequestsOK
  <2>6. JournalPositions
    BY <2>2 DEF JournalPositions
  <2>7. QED
    BY <2>4, <2>5, <2>6 DEF IInv
<1>2. IInv /\ [Next]_vars => IInv'
  BY TypeStep, RequestsStep, PositionsStep DEF IInv
<1>3. QED
  BY <1>1, <1>2, PTL DEF Spec

(***************************************************************************)
(* Type correctness, whatever the constants.                               *)
(***************************************************************************)
THEOREM TypeCorrect == Spec => []TypeOK
<1>1. IInv => TypeOK
  BY DEF IInv
<1>2. QED
  BY <1>1, Invariance, PTL

(***************************************************************************)
(* A thread keeps its order, and no two rows ever share a journal position *)
(* (_allocate_seq, and the block erase_user_messages reserves).            *)
(***************************************************************************)
THEOREM PositionsCorrect == Spec => []JournalPositions
<1>1. IInv => JournalPositions
  BY DEF IInv
<1>2. QED
  BY <1>1, Invariance, PTL

(***************************************************************************)
(* What one step does to the rows that were there, from the case analysis. *)
(***************************************************************************)
\* The counter never falls, rows keep their ids and their place, and a row
\* that changed stands beyond the old counter.
LEMMA PassesStep ==
    ASSUME IInv, [Next]_vars
    PROVE  PassesEveryCursor
<1> USE DEF IInv
<1>1. lastSeq \in Nat
  BY DEF TypeOK
<1>2. CASE Appended
  <2>1. PICK m \in Row : rows' = Append(rows, m) /\ lastSeq' = lastSeq + 1
    BY <1>2 DEF Appended
  <2>2. \A i \in DOMAIN rows : rows'[i] = rows[i]
    BY <2>1, RowsType DEF TypeOK
  <2>3. QED
    BY <1>1, <2>1, <2>2 DEF PassesEveryCursor
<1>3. CASE Rewritten
  BY <1>1, <1>3 DEF Rewritten, PassesEveryCursor
<1>4. CASE BlockErased
  <2>1. PICK S \in SUBSET DOMAIN rows :
                rows' = Erased(S) /\ lastSeq' = lastSeq + Cardinality(S)
    BY <1>4 DEF BlockErased
  <2>2. S \in SUBSET (1 .. Len(rows)) /\ Len(rows) \in Nat /\ Cardinality(S) \in Nat
    BY RowsType, RowSetFinite
  <2>3. \A i \in S : Rank(S, i) \in 1 .. Cardinality(S)
    BY <2>2, RankBounds
  <2>4. \A i \in DOMAIN rows : rows'[i].seq = rows[i].seq
    BY <2>1, RowsType DEF Erased, Row
  <2>5. \A i \in S : rows'[i].rev = lastSeq + Rank(S, i)
    BY <2>1, RowsType DEF Erased, Row
  <2>6. \A i \in S : rows'[i].rev > lastSeq
    BY <1>1, <2>2, <2>3, <2>5
  <2>7. \A i \in DOMAIN rows : i \notin S => rows'[i] = rows[i]
    BY <2>1 DEF Erased
  <2>8. lastSeq <= lastSeq'
    BY <1>1, <2>1, <2>2
  <2>9. QED
    BY <2>4, <2>6, <2>7, <2>8 DEF PassesEveryCursor
<1>5. CASE UNCHANGED <<lastSeq, rows>>
  BY <1>1, <1>5 DEF PassesEveryCursor
<1>6. QED
  BY <1>2, <1>3, <1>4, <1>5, JournalStep

(***************************************************************************)
(* Every change is replayable: no revision is ever written at or below a   *)
(* position some client may already have resumed from.                     *)
(***************************************************************************)
THEOREM ReplayIsComplete == Spec => ChangesPassEveryCursor
<1>1. IInv /\ [Next]_vars => [PassesEveryCursor]_vars
  BY PassesStep
<1>2. QED
  BY <1>1, Invariance, PTL DEF Spec, ChangesPassEveryCursor

\* A row that is deleted, or nobody's, is so after the step.
LEMMA TombstonesStep ==
    ASSUME IInv, [Next]_vars
    PROVE  KeepsTombstones
<1>0. TypeOK /\ RequestsOK
  BY DEF IInv
<1>1. CASE Appended
  BY <1>0, <1>1, RowsType DEF Appended, KeepsTombstones, TypeOK
<1>2. CASE Rewritten
  BY <1>2 DEF Rewritten, KeepsTombstones
<1>3. CASE BlockErased
  <2>1. PICK S \in SUBSET DOMAIN rows : rows' = Erased(S)
    BY <1>3 DEF BlockErased
  <2>2. \A i \in S : rows'[i].deleted = TRUE /\ rows'[i].sender = NoUser
    BY <1>0, <2>1, RowsType DEF Erased, Row
  <2>3. \A i \in DOMAIN rows : i \notin S => rows'[i] = rows[i]
    BY <2>1 DEF Erased
  <2>4. QED
    BY <2>2, <2>3 DEF KeepsTombstones
<1>4. CASE UNCHANGED <<lastSeq, rows>>
  BY <1>4 DEF KeepsTombstones
<1>5. QED
  BY <1>0, <1>1, <1>2, <1>3, <1>4, JournalStep

(***************************************************************************)
(* A tombstone stays one and an anonymous row stays anonymous, however     *)
(* stale the checks of edit_message and delete_message were.               *)
(***************************************************************************)
THEOREM TombstonesAreForever == Spec => TombstonesStay
<1>1. IInv /\ [Next]_vars => [KeepsTombstones]_vars
  BY TombstonesStep
<1>2. QED
  BY <1>1, Invariance, PTL DEF Spec, TombstonesStay

(***************************************************************************)
(* Idempotent sends.                                                       *)
(***************************************************************************)
\* An answered send names the row that holds its client_msg_id.
RepliesOK ==
    \A p \in replies : p[2] \in DOMAIN rows /\ rows[p[2]].cid = p[1]

CidsUnique ==
    \A i, j \in DOMAIN rows : rows[i].cid = rows[j].cid /\ rows[i].cid # NoCid => i = j

SendInv == CidsUnique /\ RepliesOK

\* Rows keep the client_msg_id they were created with.
LEMMA CidsStay ==
    ASSUME IInv, [Next]_vars
    PROVE  \A id \in DOMAIN rows : id \in DOMAIN rows' /\ rows'[id].cid = rows[id].cid
<1> USE DEF IInv
<1>1. CASE Appended
  BY <1>1, RowsType DEF Appended, TypeOK
<1>2. CASE Rewritten
  BY <1>2 DEF Rewritten
<1>3. CASE BlockErased
  BY <1>3, RowsType DEF BlockErased, Erased, Row
<1>4. CASE UNCHANGED <<lastSeq, rows>>
  BY <1>4
<1>5. QED
  BY <1>1, <1>2, <1>3, <1>4, JournalStep

LEMMA SendStep == IInv /\ SendInv /\ [Next]_vars => SendInv'
<1> SUFFICES ASSUME IInv, SendInv, [Next]_vars
             PROVE  SendInv'
  OBVIOUS
<1> USE DEF IInv
<1>1. CidsUnique'
  <2>1. CASE Appended
    <3>1. PICK m \in Row : WithCid(m.cid) = {} /\ rows' = Append(rows, m)
      BY <2>1 DEF Appended
    <3>2. /\ DOMAIN rows' = 1 .. Len(rows) + 1
          /\ \A i \in DOMAIN rows : rows'[i] = rows[i]
          /\ rows'[Len(rows) + 1] = m
      BY <3>1, RowsType DEF TypeOK
    <3>3. \A i \in DOMAIN rows' : i \in DOMAIN rows \/ i = Len(rows) + 1
      BY <3>2, RowsType
    <3>4. \A i \in DOMAIN rows : m.cid # NoCid => rows[i].cid # m.cid
      BY <3>1 DEF WithCid
    <3>5. QED
      BY <3>2, <3>3, <3>4 DEF CidsUnique, SendInv
  <2>2. CASE DOMAIN rows' = DOMAIN rows
    BY <2>2, CidsStay DEF CidsUnique, SendInv
  <2>3. Rewritten \/ BlockErased \/ UNCHANGED <<lastSeq, rows>> => DOMAIN rows' = DOMAIN rows
    BY DEF Rewritten, BlockErased, Erased
  <2>4. QED
    BY <2>1, <2>2, <2>3, JournalStep
<1>2. RepliesOK'
  <2>1. \A p \in replies : p[2] \in DOMAIN rows' /\ rows'[p[2]].cid = p[1]
    BY CidsStay DEF SendInv, RepliesOK
  <2>2. ASSUME NEW cid, NEW id \in WithCid(cid), replies' = replies \cup {<<cid, id>>}
        PROVE  RepliesOK'
    <3>1. id \in DOMAIN rows' /\ rows'[id].cid = cid
      BY <2>2, CidsStay DEF WithCid
    <3>2. QED
      BY <2>1, <2>2, <3>1 DEF RepliesOK
  <2>3. ASSUME NEW w \in Workers, CommitSend(w)
        PROVE  RepliesOK'
    <3> DEFINE r    == req[w]
               kind == IF r.user = NoUser THEN "system" ELSE "text"
               m    == NewRow(r.user, kind, r.body, r.cid)
    <3>1. rows' = Append(rows, m) /\ replies' = replies \cup {<<r.cid, Len(rows) + 1>>}
      BY <2>3 DEF CommitSend, Insert
    <3>2. m.cid = r.cid
      BY DEF NewRow
    <3> HIDE DEF m
    <3>3. Len(rows) + 1 \in DOMAIN rows' /\ rows'[Len(rows) + 1] = m
      BY <3>1, RowsType DEF TypeOK
    <3>4. QED
      BY <2>1, <3>1, <3>2, <3>3 DEF RepliesOK
  <2>4. CASE UNCHANGED replies
    BY <2>1, <2>4 DEF RepliesOK
  <2>5. ASSUME NEW w \in Workers, Commit(w), ~CommitSend(w)
        PROVE  UNCHANGED replies
    BY <2>5 DEF Commit, CommitEdit, CommitDelete, CommitErase, CommitLeave
  <2>6. ASSUME NEW w \in Workers, Begin(w)
        PROVE  UNCHANGED replies
    BY <2>6 DEF Begin, BeginSend, BeginEdit, BeginDelete, BeginErase, BeginLeave, Load
  <2>7. ASSUME NEW w \in Workers,
               EraseNothing(w) \/ Deliver(w) \/ Finish(w) \/ Crash(w)
        PROVE  UNCHANGED replies
    BY <2>7 DEF EraseNothing, Deliver, Finish, Crash
  <2>8. ASSUME NEW w \in Workers, NEW cid \in Cids, SendAgain(w, cid)
        PROVE  RepliesOK'
    BY <2>2, <2>8 DEF SendAgain
  <2>9. ASSUME NEW w \in Workers, SendCollides(w)
        PROVE  RepliesOK'
    BY <2>2, <2>9 DEF SendCollides
  <2>10. QED
    BY <2>3, <2>4, <2>5, <2>6, <2>7, <2>8, <2>9 DEF Next, Rejoin, vars
<1>3. QED
  BY <1>1, <1>2 DEF SendInv

(***************************************************************************)
(* However many workers serve retries of one send, one message holds its   *)
(* client_msg_id and every retry is answered with it (_post_once and the   *)
(* unique constraint behind it).                                           *)
(***************************************************************************)
THEOREM SendsAreIdempotent == Spec => []SendOnce
<1>1. Init => SendInv
  BY EmptySeq DEF Init, SendInv, CidsUnique, RepliesOK
<1>2. IInv /\ SendInv /\ [Next]_vars => SendInv'
  BY SendStep
<1>3. SendInv => SendOnce
  BY DEF SendInv, CidsUnique, RepliesOK, SendOnce
<1>4. QED
  BY <1>1, <1>2, <1>3, Invariance, PTL DEF Spec

(***************************************************************************)
(* Refinement.                                                             *)
(***************************************************************************)
\* A set of rows put on the positions that follow the counter is one move.
LEMMA MoveStep ==
    ASSUME NEW moved \in SUBSET DOMAIN rows', moved # {},
           DOMAIN rows' = DOMAIN rows \cup moved, lastSeq' \in Nat,
           {rows'[i].rev : i \in moved} = lastSeq + 1 .. lastSeq',
           \A i, j \in moved : rows'[i].rev = rows'[j].rev => i = j,
           \A i \in DOMAIN rows : i \notin moved => rows'[i].rev = rows[i].rev
    PROVE  Journal!JNext
<1> DEFINE p == [id \in DOMAIN rows  |-> rows[id].rev]
           q == [id \in DOMAIN rows' |-> rows'[id].rev]
<1>1. DOMAIN p = DOMAIN rows /\ DOMAIN q = DOMAIN rows'
  OBVIOUS
<1>2. \A i \in moved : q[i] = rows'[i].rev
  OBVIOUS
<1>3. \A i \in DOMAIN rows \ moved : q[i] = p[i]
  OBVIOUS
<1>4. /\ DOMAIN q = DOMAIN p \cup moved
      /\ {q[i] : i \in moved} = lastSeq + 1 .. lastSeq'
      /\ \A i, j \in moved : q[i] = q[j] => i = j
      /\ \A i \in DOMAIN p \ moved : q[i] = p[i]
  <2> HIDE DEF p, q
  <2>1. QED
    BY <1>1, <1>2, <1>3
<1>5. Journal!Move(moved)
  BY <1>4 DEF Journal!Move
<1>6. moved \in SUBSET DOMAIN q
  BY <1>1
<1>7. QED
  BY <1>5, <1>6 DEF Journal!JNext

LEMMA RefinementStep ==
    ASSUME IInv, IInv', [Next]_vars
    PROVE  [Journal!JNext]_(Journal!jvars)
<1> USE DEF IInv
<1>0. lastSeq \in Nat /\ lastSeq' \in Nat
  BY DEF TypeOK
<1>1. CASE Appended
  <2> DEFINE id == Len(rows) + 1
  <2>1. PICK m \in Row : /\ m.rev = lastSeq + 1 /\ rows' = Append(rows, m)
                         /\ lastSeq' = lastSeq + 1
    BY <1>1 DEF Appended
  <2>2. DOMAIN rows' = DOMAIN rows \cup {id} /\ rows'[id] = m
    BY <2>1, RowsType DEF TypeOK
  <2>3. \A i \in DOMAIN rows : rows'[i] = rows[i]
    BY <2>1, RowsType DEF TypeOK
  <2> HIDE DEF id
  <2>4. Journal!JNext
    <3>1. {id} \in SUBSET DOMAIN rows' /\ {id} # {}
      BY <2>2
    <3>2. {rows'[i].rev : i \in {id}} = lastSeq + 1 .. lastSeq'
      BY <1>0, <2>1, <2>2
    <3>3. QED
      BY <1>0, <2>2, <2>3, <3>1, <3>2, MoveStep
  <2>5. QED
    BY <2>4
<1>2. CASE Rewritten
  <2>1. PICK id \in DOMAIN rows, m \in Row :
                /\ m.rev = lastSeq + 1
                /\ rows' = [rows EXCEPT ![id] = m]
                /\ lastSeq' = lastSeq + 1
    BY <1>2 DEF Rewritten
  <2>2. /\ DOMAIN rows' = DOMAIN rows /\ rows'[id] = m
        /\ \A i \in DOMAIN rows : i # id => rows'[i] = rows[i]
    BY <2>1
  <2>3. {rows'[i].rev : i \in {id}} = lastSeq + 1 .. lastSeq'
    BY <1>0, <2>1, <2>2
  <2>4. {id} \in SUBSET DOMAIN rows' /\ {id} # {} /\ DOMAIN rows' = DOMAIN rows \cup {id}
    BY <2>2
  <2>5. QED
    BY <1>0, <2>2, <2>3, <2>4, MoveStep
<1>3. CASE BlockErased
  <2>1. PICK S \in SUBSET DOMAIN rows :
                /\ S # {}
                /\ rows' = Erased(S)
                /\ lastSeq' = lastSeq + Cardinality(S)
    BY <1>3 DEF BlockErased
  <2>2. /\ S \in SUBSET (1 .. Len(rows)) /\ Len(rows) \in Nat
        /\ Cardinality(S) \in Nat
    BY RowsType, RowSetFinite
  <2>3. \A i \in S : Rank(S, i) \in 1 .. Cardinality(S)
    BY <2>2, RankBounds
  <2>4. \A i \in S : rows'[i].rev = lastSeq + Rank(S, i)
    BY <2>1, RowsType DEF Erased, Row
  <2>5. {rows'[i].rev : i \in S} = lastSeq + 1 .. lastSeq'
    <3>1. \A i \in S : rows'[i].rev \in lastSeq + 1 .. lastSeq'
      BY <1>0, <2>1, <2>2, <2>3, <2>4
    <3>2. ASSUME NEW v \in lastSeq + 1 .. lastSeq'
          PROVE  \E i \in S : rows'[i].rev = v
      <4>1. v - lastSeq \in 1 .. Cardinality(S)
        BY <1>0, <2>1, <2>2
      <4>2. PICK i \in S : Rank(S, i) = v - lastSeq
        BY <2>2, <4>1, RankCovers
      <4>3. QED
        BY <1>0, <2>4, <4>2
    <3>3. QED
      BY <3>1, <3>2
  <2>6. DOMAIN rows' = DOMAIN rows
    BY <2>1 DEF Erased
  <2>7. \A i, j \in S : rows'[i].rev = rows'[j].rev => i = j
    BY <2>6 DEF JournalPositions
  <2>8. \A i \in DOMAIN rows : i \notin S => rows'[i].rev = rows[i].rev
    BY <2>1 DEF Erased
  <2>9. S \in SUBSET DOMAIN rows' /\ DOMAIN rows' = DOMAIN rows \cup S
    BY <2>6
  <2>10. QED
    BY <1>0, <2>1, <2>5, <2>7, <2>8, <2>9, MoveStep
<1>4. CASE UNCHANGED <<lastSeq, rows>>
  BY <1>4 DEF Journal!jvars
<1>5. QED
  BY <1>1, <1>2, <1>3, <1>4, JournalStep

(***************************************************************************)
(* The service implements the journal: every step of every worker is one   *)
(* move of RevisionJournal or leaves it alone.                             *)
(***************************************************************************)
THEOREM JournalRefinement == Spec => ImplementsJournal
<1>1. Init => Journal!JInit
  BY DEF Init, Journal!JInit
<1>2. IInv /\ IInv' /\ [Next]_vars => [Journal!JNext]_(Journal!jvars)
  BY RefinementStep
<1>3. QED
  BY <1>1, <1>2, Invariance, PTL DEF Spec, ImplementsJournal, Journal!JSpec

(***************************************************************************)
(* The outbox.                                                             *)
(***************************************************************************)
\* No event is beyond the counter, and no message event about a row to come.
OutboxBehind ==
    \A i \in DOMAIN outbox :
       /\ outbox[i].rev <= lastSeq
       /\ outbox[i].type = "message" => outbox[i].id \in DOMAIN rows

OutboxInv == OutboxTellsJournal /\ OutboxBehind

(***************************************************************************)
(* Departures.  What a worker will rewrite is a person's text, so the line *)
(* that says somebody left is never touched.                               *)
(***************************************************************************)
SystemIsNobody == \A id \in DOMAIN rows : rows[id].kind = "system" => rows[id].sender = NoUser

TargetsOK ==
    \A w \in Workers :
       /\ pc[w] \in {"edit", "delete"} =>
             req[w].id \in DOMAIN rows /\ rows[req[w].id].kind = "text"
       /\ pc[w] = "erase" => req[w].user \in Users

Silence ==
    \A u \in left :
       \E id \in DOMAIN rows :
          /\ rows[id].kind = "system" /\ rows[id].body = LeftLine(u)
          /\ \A j \in DOMAIN rows : j > id => rows[j].kind = "system"

QuietInv == SystemIsNobody /\ TargetsOK /\ Silence

(***************************************************************************)
(* What a step does to the rows, the outbox and the marks together.        *)
(***************************************************************************)
\* A message or a line: its row, its event, and who it brings back or sees go.
Spoken ==
    \E m \in Row, e \in Event :
       /\ m.seq = lastSeq + 1 /\ m.rev = lastSeq + 1 /\ lastSeq' = lastSeq + 1
       /\ rows' = Append(rows, m) /\ outbox' = Append(outbox, e)
       /\ e.type = "message" /\ e.id = Len(rows) + 1 /\ e.rev = lastSeq + 1
       /\ m.kind = "system" => m.sender = NoUser
       /\ \/ left' = {}
          \/ left' = left /\ m.kind = "system"
          \/ \E u \in Users :
                left' = left \cup {u} /\ m.kind = "system" /\ m.body = LeftLine(u)

\* An edit or a deletion: a person's text, with its event.
Amended ==
    \E id \in DOMAIN rows, m \in Row, e \in Event :
       /\ m.seq = rows[id].seq /\ m.rev = lastSeq + 1 /\ lastSeq' = lastSeq + 1
       /\ rows[id].kind = "text" /\ m.kind = "text" /\ m.sender = rows[id].sender
       /\ rows' = [rows EXCEPT ![id] = m] /\ outbox' = Append(outbox, e)
       /\ e.type # "message" /\ e.id = id /\ e.rev = lastSeq + 1
       /\ left' = left

\* An erasure: the texts of one person, without an event.
Unmade ==
    \E u \in Users :
       /\ rows' = Erased(Authored(u))
       /\ lastSeq' = lastSeq + Cardinality(Authored(u))
       /\ outbox' = outbox /\ left' = left

LEMMA TellingStep ==
    ASSUME IInv, TargetsOK, [Next]_vars
    PROVE  \/ Spoken \/ Amended \/ Unmade
           \/ UNCHANGED <<lastSeq, rows, outbox>> /\ left' \subseteq left
<1> USE DEF IInv
<1>0. lastSeq \in Nat /\ Len(rows) + 1 \in Nat
  BY RowsType DEF TypeOK
<1>1. ASSUME NEW m \in Row, m.rev = lastSeq + 1
      PROVE  [type |-> "message", id |-> Len(rows) + 1, rev |-> m.rev, body |-> m.body] \in Event
  BY <1>0, <1>1 DEF Event, Row
<1>2. ASSUME NEW w \in Workers, CommitSend(w)
      PROVE  Spoken
  <2> DEFINE kind == IF req[w].user = NoUser THEN "system" ELSE "text"
             m    == NewRow(req[w].user, kind, req[w].body, req[w].cid)
             e    == [type |-> "message", id |-> Len(rows) + 1, rev |-> m.rev, body |-> m.body]
  <2>1. req[w] \in Request
    BY DEF TypeOK
  <2>2. m \in Row
    BY <2>1 DEF NewRow, NextSeq, Row, Request, TypeOK
  <2>3. m.seq = lastSeq + 1 /\ m.rev = lastSeq + 1 /\ m.kind = kind /\ m.sender = req[w].user
    BY DEF NewRow, NextSeq
  <2>4. /\ rows' = Append(rows, m) /\ outbox' = Append(outbox, e) /\ lastSeq' = lastSeq + 1
        /\ left' = Resurfaced(req[w].user)
    BY <1>2 DEF CommitSend, Insert, NextSeq
  <2>5. left' = {} \/ (left' = left /\ kind = "system")
    BY <2>4 DEF Resurfaced
  <2>6. kind = "system" => req[w].user = NoUser
    OBVIOUS
  <2> HIDE DEF m, kind
  <2>7. e \in Event
    BY <1>1, <2>2, <2>3
  <2>8. e.type = "message" /\ e.id = Len(rows) + 1 /\ e.rev = lastSeq + 1
    BY <2>3
  <2> HIDE DEF e
  <2>9. QED
    BY <2>2, <2>3, <2>4, <2>5, <2>6, <2>7, <2>8 DEF Spoken
<1>3. ASSUME NEW w \in Workers, CommitLeave(w)
      PROVE  Spoken
  <2> DEFINE u == req[w].user
             m == NewRow(NoUser, "system", LeftLine(u), NoCid)
             e == [type |-> "message", id |-> Len(rows) + 1, rev |-> m.rev, body |-> m.body]
  <2>1. u \in Users
    BY <1>3 DEF CommitLeave, RequestsOK
  <2>2. m \in Row
    BY <2>1 DEF NewRow, NextSeq, Row, Bodies, TypeOK
  <2>3. m.seq = lastSeq + 1 /\ m.rev = lastSeq + 1 /\ m.kind = "system" /\ m.sender = NoUser
        /\ m.body = LeftLine(u)
    BY DEF NewRow, NextSeq
  <2>4. /\ rows' = Append(rows, m) /\ outbox' = Append(outbox, e) /\ lastSeq' = lastSeq + 1
        /\ left' = left \cup {u}
    BY <1>3 DEF CommitLeave, Insert, NextSeq
  <2> HIDE DEF m, u
  <2>5. e \in Event
    BY <1>1, <2>2, <2>3
  <2>6. e.type = "message" /\ e.id = Len(rows) + 1 /\ e.rev = lastSeq + 1
    BY <2>3
  <2> HIDE DEF e
  <2>7. QED
    BY <2>1, <2>2, <2>3, <2>4, <2>5, <2>6 DEF Spoken
<1>4. ASSUME NEW w \in Workers, CommitEdit(w)
      PROVE  Amended
  <2> DEFINE r == req[w]
             m == EditedRow(rows[r.id], r.body)
             e == [type |-> "edited", id |-> r.id, rev |-> m.rev, body |-> r.body]
  <2>1. r \in Request /\ r.id \in DOMAIN rows /\ rows[r.id].kind = "text"
    BY <1>4 DEF TypeOK, TargetsOK, CommitEdit
  <2>2. rows[r.id] \in Row /\ r.body \in Bodies /\ r.id \in Nat
    BY <2>1, RowsType DEF Request
  <2>3. /\ m \in Row /\ m.seq = rows[r.id].seq /\ m.rev = lastSeq + 1
        /\ m.sender = rows[r.id].sender
    BY <1>0, <2>2, EditedRowType
  <2>4. m.kind = rows[r.id].kind
    BY <2>2 DEF EditedRow, Row
  <2>5. /\ rows' = [rows EXCEPT ![r.id] = m] /\ outbox' = Append(outbox, e)
        /\ lastSeq' = lastSeq + 1 /\ left' = left
    BY <1>4 DEF CommitEdit, NextSeq
  <2> HIDE DEF m, r
  <2>6. e \in Event /\ e.type # "message" /\ e.id = r.id /\ e.rev = lastSeq + 1
    BY <1>0, <2>2, <2>3 DEF Event
  <2> HIDE DEF e
  <2>7. QED
    BY <2>1, <2>3, <2>4, <2>5, <2>6 DEF Amended
<1>5. ASSUME NEW w \in Workers, CommitDelete(w)
      PROVE  Amended
  <2> DEFINE r == req[w]
             m == Tombstone(rows[r.id])
             e == [type |-> "deleted", id |-> r.id, rev |-> m.rev, body |-> NoText]
  <2>1. r \in Request /\ r.id \in DOMAIN rows /\ rows[r.id].kind = "text"
    BY <1>5 DEF TypeOK, TargetsOK, CommitDelete
  <2>2. rows[r.id] \in Row /\ r.id \in Nat
    BY <2>1, RowsType
  <2>3. /\ m \in Row /\ m.seq = rows[r.id].seq /\ m.rev = lastSeq + 1
        /\ m.sender = rows[r.id].sender
    BY <1>0, <2>2, TombstoneType
  <2>4. m.kind = rows[r.id].kind
    BY <2>2 DEF Tombstone, Row
  <2>5. /\ rows' = [rows EXCEPT ![r.id] = m] /\ outbox' = Append(outbox, e)
        /\ lastSeq' = lastSeq + 1 /\ left' = left
    BY <1>5 DEF CommitDelete, NextSeq
  <2> HIDE DEF m, r
  <2>6. e \in Event /\ e.type # "message" /\ e.id = r.id /\ e.rev = lastSeq + 1
    BY <1>0, <2>2, <2>3 DEF Event, Bodies
  <2> HIDE DEF e
  <2>7. QED
    BY <2>1, <2>3, <2>4, <2>5, <2>6 DEF Amended
<1>6. ASSUME NEW w \in Workers, CommitErase(w)
      PROVE  Unmade
  BY <1>6 DEF CommitErase, Unmade, TargetsOK
<1>7. ASSUME NEW w \in Workers, Begin(w)
      PROVE  UNCHANGED <<lastSeq, rows, outbox, left>>
  BY <1>7 DEF Begin, BeginSend, BeginEdit, BeginDelete, BeginErase, BeginLeave, Load
<1>8. ASSUME NEW w \in Workers,
             (\E cid \in Cids : SendAgain(w, cid)) \/ SendCollides(w)
             \/ EraseNothing(w) \/ Deliver(w) \/ Finish(w) \/ Crash(w)
      PROVE  UNCHANGED <<lastSeq, rows, outbox, left>>
  BY <1>8 DEF SendAgain, SendCollides, EraseNothing, Deliver, Finish, Crash
<1>9. ASSUME NEW u \in Users, Rejoin(u)
      PROVE  UNCHANGED <<lastSeq, rows, outbox>> /\ left' \subseteq left
  BY <1>9 DEF Rejoin
<1>10. CASE UNCHANGED vars
  BY <1>10 DEF vars
<1>11. QED
  BY <1>2, <1>3, <1>4, <1>5, <1>6, <1>7, <1>8, <1>9, <1>10 DEF Next, Commit

\* An erasure leaves every row in its place and its kind, and unmakes the
\* rows of the person it is about.
LEMMA UnmadeRows ==
    ASSUME TypeOK, NEW u \in Users
    PROVE  /\ DOMAIN Erased(Authored(u)) = DOMAIN rows
           /\ \A id \in DOMAIN rows :
                 LET m == Erased(Authored(u))[id] IN
                 /\ m.seq = rows[id].seq /\ m.kind = rows[id].kind
                 /\ m.sender = NoUser \/ m = rows[id]
                 /\ id \in Authored(u) => m.deleted /\ m.sender = NoUser
                 /\ id \notin Authored(u) => m = rows[id]
           /\ Cardinality(Authored(u)) \in Nat
<1>1. Authored(u) \in SUBSET DOMAIN rows
  BY DEF Authored
<1>2. Cardinality(Authored(u)) \in Nat
  BY <1>1, RowSetFinite
<1>3. \A id \in DOMAIN rows : rows[id] \in Row
  BY RowsType
<1>4. QED
  BY <1>2, <1>3 DEF Erased, Row

\* Appended rows and events come last and disturb nothing.
LEMMA AppendedRows ==
    ASSUME TypeOK, NEW m \in Row, rows' = Append(rows, m)
    PROVE  /\ DOMAIN rows' = DOMAIN rows \cup {Len(rows) + 1}
           /\ Len(rows) + 1 \notin DOMAIN rows
           /\ \A id \in DOMAIN rows : rows'[id] = rows[id] /\ id < Len(rows) + 1
           /\ rows'[Len(rows) + 1] = m
BY RowsType DEF TypeOK

LEMMA AppendedEvents ==
    ASSUME TypeOK, NEW e \in Event, outbox' = Append(outbox, e)
    PROVE  /\ DOMAIN outbox' = DOMAIN outbox \cup {Len(outbox) + 1}
           /\ Len(outbox) + 1 \notin DOMAIN outbox
           /\ \A i \in DOMAIN outbox : outbox'[i] = outbox[i] /\ i < Len(outbox) + 1 /\ i \in Nat
                                       /\ outbox[i].rev \in Nat
           /\ outbox'[Len(outbox) + 1] = e
           /\ Len(outbox) \in Nat
<1>1. Len(outbox) \in Nat /\ DOMAIN outbox = 1 .. Len(outbox)
  BY LenProperties DEF TypeOK
<1>2. \A i \in DOMAIN outbox : outbox[i] \in Event
  BY ElementOfSeq, <1>1 DEF TypeOK
<1>3. \A i \in DOMAIN outbox : outbox[i].rev \in Nat
  BY <1>2 DEF Event
<1>4. QED
  BY <1>1, <1>3 DEF TypeOK

\* A row has one chat.message event, and it names the row's place.
Announced(id, m, events) ==
    \E i \in DOMAIN events :
       /\ events[i].type = "message" /\ events[i].id = id /\ events[i].rev = m.seq
       /\ \A j \in DOMAIN events : events[j].type = "message" /\ events[j].id = id => i = j

\* An unerased row has an event for its newest revision.
Reported(id, m, events) ==
    m.sender # NoUser => \E i \in DOMAIN events : events[i].id = id /\ events[i].rev = m.rev

LEMMA OutboxStep ==
    ASSUME IInv, TargetsOK, OutboxInv, [Next]_vars
    PROVE  OutboxInv'
<1> USE DEF IInv
<1>0. /\ lastSeq \in Nat
      /\ \A i, j \in DOMAIN outbox : i < j => outbox[i].rev < outbox[j].rev
      /\ \A i \in DOMAIN outbox : outbox[i].rev <= lastSeq
      /\ \A i \in DOMAIN outbox : outbox[i].type = "message" => outbox[i].id \in DOMAIN rows
      /\ \A id \in DOMAIN rows : Announced(id, rows[id], outbox) /\ Reported(id, rows[id], outbox)
  BY DEF OutboxInv, OutboxTellsJournal, OutboxBehind, Announced, Reported, TypeOK
<1>1. ASSUME /\ \A i, j \in DOMAIN outbox' : i < j => outbox'[i].rev < outbox'[j].rev
             /\ \A i \in DOMAIN outbox' : outbox'[i].rev <= lastSeq'
             /\ \A i \in DOMAIN outbox' :
                   outbox'[i].type = "message" => outbox'[i].id \in DOMAIN rows'
             /\ \A id \in DOMAIN rows' :
                   Announced(id, rows'[id], outbox') /\ Reported(id, rows'[id], outbox')
      PROVE  OutboxInv'
  BY <1>1 DEF OutboxInv, OutboxTellsJournal, OutboxBehind, Announced, Reported
<1>2. ASSUME NEW e \in Event, outbox' = Append(outbox, e), e.rev = lastSeq + 1,
             lastSeq' = lastSeq + 1
      PROVE  /\ \A i, j \in DOMAIN outbox' : i < j => outbox'[i].rev < outbox'[j].rev
             /\ \A i \in DOMAIN outbox' : outbox'[i].rev <= lastSeq'
             /\ \A id, m : Reported(id, m, outbox) => Reported(id, m, outbox')
             /\ \A id, m : Announced(id, m, outbox) /\ (e.type = "message" => e.id # id)
                              => Announced(id, m, outbox')
             /\ \A m : m.rev = e.rev => Reported(e.id, m, outbox')
  <2> DEFINE n == Len(outbox) + 1
  <2>1. /\ DOMAIN outbox' = DOMAIN outbox \cup {n}
        /\ n \notin DOMAIN outbox
        /\ \A i \in DOMAIN outbox : outbox'[i] = outbox[i] /\ i < n /\ i \in Nat
                                    /\ outbox[i].rev \in Nat
        /\ outbox'[n] = e /\ n \in Nat
    BY <1>2, AppendedEvents
  <2> HIDE DEF n
  <2>2. \A i, j \in DOMAIN outbox' : i < j => outbox'[i].rev < outbox'[j].rev
    BY <1>0, <1>2, <2>1
  <2>3. \A i \in DOMAIN outbox' : outbox'[i].rev <= lastSeq'
    BY <1>0, <1>2, <2>1
  <2>4. \A id, m : Reported(id, m, outbox) => Reported(id, m, outbox')
    BY <2>1 DEF Reported
  <2>5. \A id, m : Announced(id, m, outbox) /\ (e.type = "message" => e.id # id)
                      => Announced(id, m, outbox')
    BY <2>1 DEF Announced
  <2>6. \A m : m.rev = e.rev => Reported(e.id, m, outbox')
    BY <2>1 DEF Reported
  <2>7. QED
    BY <2>2, <2>3, <2>4, <2>5, <2>6
<1>3. CASE Spoken
  <2>1. PICK m \in Row, e \in Event :
            /\ m.seq = lastSeq + 1 /\ m.rev = lastSeq + 1 /\ lastSeq' = lastSeq + 1
            /\ rows' = Append(rows, m) /\ outbox' = Append(outbox, e)
            /\ e.type = "message" /\ e.id = Len(rows) + 1 /\ e.rev = lastSeq + 1
    BY <1>3 DEF Spoken
  <2> DEFINE id == Len(rows) + 1
  <2>2. /\ DOMAIN rows' = DOMAIN rows \cup {id} /\ id \notin DOMAIN rows
        /\ rows'[id] = m /\ \A k \in DOMAIN rows : rows'[k] = rows[k]
    BY <2>1, AppendedRows
  <2>3. /\ DOMAIN outbox' = DOMAIN outbox \cup {Len(outbox) + 1}
        /\ \A i \in DOMAIN outbox : outbox'[i] = outbox[i]
        /\ outbox'[Len(outbox) + 1] = e
    BY <2>1, AppendedEvents
  <2>4. /\ \A i, j \in DOMAIN outbox' : i < j => outbox'[i].rev < outbox'[j].rev
        /\ \A i \in DOMAIN outbox' : outbox'[i].rev <= lastSeq'
        /\ \A k, x : Reported(k, x, outbox) => Reported(k, x, outbox')
        /\ \A k, x : Announced(k, x, outbox) /\ e.id # k => Announced(k, x, outbox')
        /\ \A x : x.rev = e.rev => Reported(e.id, x, outbox')
    BY <1>2, <2>1
  <2> HIDE DEF id
  <2>5. e.id = id
    BY <2>1 DEF id
  <2>6. Announced(id, m, outbox')
    <3> DEFINE n == Len(outbox) + 1
    <3>1. n \in DOMAIN outbox' /\ outbox'[n] = e
      BY <2>3
    <3>2. \A j \in DOMAIN outbox' :
             outbox'[j].type = "message" /\ outbox'[j].id = id => j = n
      BY <1>0, <2>2, <2>3
    <3> HIDE DEF n
    <3>3. outbox'[n].type = "message" /\ outbox'[n].id = id /\ outbox'[n].rev = m.seq
      BY <2>1, <2>5, <3>1
    <3>4. QED
      BY <3>1, <3>2, <3>3 DEF Announced
  <2>7. \A k \in DOMAIN rows' : Announced(k, rows'[k], outbox') /\ Reported(k, rows'[k], outbox')
    BY <1>0, <2>1, <2>2, <2>4, <2>5, <2>6
  <2>8. \A i \in DOMAIN outbox' : outbox'[i].type = "message" => outbox'[i].id \in DOMAIN rows'
    BY <1>0, <2>2, <2>3, <2>5
  <2>9. QED
    BY <1>1, <2>4, <2>7, <2>8
<1>4. CASE Amended
  <2>1. PICK id \in DOMAIN rows, m \in Row, e \in Event :
            /\ m.seq = rows[id].seq /\ m.rev = lastSeq + 1 /\ lastSeq' = lastSeq + 1
            /\ rows' = [rows EXCEPT ![id] = m] /\ outbox' = Append(outbox, e)
            /\ e.type # "message" /\ e.id = id /\ e.rev = lastSeq + 1
    BY <1>4 DEF Amended
  <2>2. DOMAIN rows' = DOMAIN rows /\ rows'[id] = m
        /\ \A k \in DOMAIN rows : k # id => rows'[k] = rows[k]
    BY <2>1
  <2>3. /\ DOMAIN outbox' = DOMAIN outbox \cup {Len(outbox) + 1}
        /\ \A i \in DOMAIN outbox : outbox'[i] = outbox[i]
        /\ outbox'[Len(outbox) + 1] = e
    BY <2>1, AppendedEvents
  <2>4. /\ \A i, j \in DOMAIN outbox' : i < j => outbox'[i].rev < outbox'[j].rev
        /\ \A i \in DOMAIN outbox' : outbox'[i].rev <= lastSeq'
        /\ \A k, x : Reported(k, x, outbox) => Reported(k, x, outbox')
        /\ \A k, x : Announced(k, x, outbox) => Announced(k, x, outbox')
        /\ Reported(id, m, outbox')
    BY <1>2, <2>1
  <2>5. \A k \in DOMAIN rows' : Announced(k, rows'[k], outbox')
    <3>1. Announced(id, rows[id], outbox')
      BY <1>0, <2>4
    <3>2. Announced(id, m, outbox')
      BY <2>1, <3>1 DEF Announced
    <3>3. QED
      BY <1>0, <2>2, <2>4, <3>2
  <2>6. \A k \in DOMAIN rows' : Reported(k, rows'[k], outbox')
    BY <1>0, <2>2, <2>4
  <2>7. \A i \in DOMAIN outbox' : outbox'[i].type = "message" => outbox'[i].id \in DOMAIN rows'
    BY <1>0, <2>1, <2>2, <2>3
  <2>8. QED
    BY <1>1, <2>4, <2>5, <2>6, <2>7
<1>5. CASE Unmade
  <2>1. PICK u \in Users : /\ rows' = Erased(Authored(u)) /\ outbox' = outbox
                           /\ lastSeq' = lastSeq + Cardinality(Authored(u))
    BY <1>5 DEF Unmade
  <2>2. /\ DOMAIN rows' = DOMAIN rows /\ lastSeq <= lastSeq' /\ lastSeq' \in Nat
        /\ \A id \in DOMAIN rows :
              rows'[id].seq = rows[id].seq /\ (rows'[id].sender = NoUser \/ rows'[id] = rows[id])
    BY <1>0, <2>1, UnmadeRows
  <2>3. \A id \in DOMAIN rows' : Announced(id, rows'[id], outbox')
    BY <1>0, <2>1, <2>2 DEF Announced
  <2>4. \A id \in DOMAIN rows' : Reported(id, rows'[id], outbox')
    BY <1>0, <2>1, <2>2 DEF Reported
  <2>5. \A i \in DOMAIN outbox : outbox[i].rev \in Nat
    <3>1. \A i \in DOMAIN outbox : outbox[i] \in Event
      BY LenProperties, ElementOfSeq DEF TypeOK
    <3>2. QED
      BY <3>1 DEF Event
  <2>6. \A i \in DOMAIN outbox' : outbox'[i].rev <= lastSeq'
    BY <1>0, <2>1, <2>2, <2>5
  <2>7. QED
    BY <1>0, <1>1, <2>1, <2>2, <2>3, <2>4, <2>6
<1>6. CASE UNCHANGED <<lastSeq, rows, outbox>>
  BY <1>0, <1>1, <1>6
<1>7. QED
  BY <1>3, <1>4, <1>5, <1>6, TellingStep

LEMMA QuietStep ==
    ASSUME IInv, QuietInv, [Next]_vars
    PROVE  QuietInv'
<1> USE DEF IInv, QuietInv
<1>1. SystemIsNobody' /\ Silence'
  <2>1. CASE Spoken
    <3>1. PICK m \in Row :
              /\ rows' = Append(rows, m)
              /\ m.kind = "system" => m.sender = NoUser
              /\ \/ left' = {}
                 \/ left' = left /\ m.kind = "system"
                 \/ \E u \in Users :
                       left' = left \cup {u} /\ m.kind = "system" /\ m.body = LeftLine(u)
      BY <2>1 DEF Spoken
    <3> DEFINE n == Len(rows) + 1
    <3>2. /\ DOMAIN rows' = DOMAIN rows \cup {n} /\ n \notin DOMAIN rows /\ rows'[n] = m
          /\ \A id \in DOMAIN rows : rows'[id] = rows[id] /\ id < n
      BY <3>1, AppendedRows
    <3>3. n \in Nat /\ \A id \in DOMAIN rows : id \in Nat
      BY RowsType
    <3> HIDE DEF n
    <3>4. SystemIsNobody'
      BY <3>1, <3>2 DEF SystemIsNobody
    <3>5. ASSUME NEW u \in left, m.kind = "system"
          PROVE  \E id \in DOMAIN rows' :
                    /\ rows'[id].kind = "system" /\ rows'[id].body = LeftLine(u)
                    /\ \A j \in DOMAIN rows' : j > id => rows'[j].kind = "system"
      BY <3>2, <3>5 DEF Silence
    <3>6. ASSUME NEW u \in Users, m.kind = "system", m.body = LeftLine(u)
          PROVE  \E id \in DOMAIN rows' :
                    /\ rows'[id].kind = "system" /\ rows'[id].body = LeftLine(u)
                    /\ \A j \in DOMAIN rows' : j > id => rows'[j].kind = "system"
      <4>1. \A j \in DOMAIN rows' : ~(j > n)
        BY <3>2, <3>3
      <4>2. n \in DOMAIN rows' /\ rows'[n].kind = "system" /\ rows'[n].body = LeftLine(u)
        BY <3>2, <3>6
      <4>3. QED
        BY <4>1, <4>2
    <3>7. Silence'
      BY <3>1, <3>5, <3>6 DEF Silence
    <3>8. QED
      BY <3>4, <3>7
  <2>2. ASSUME DOMAIN rows' = DOMAIN rows, left' \subseteq left,
               \A id \in DOMAIN rows :
                  /\ rows'[id].kind = rows[id].kind
                  /\ rows'[id].sender \in {rows[id].sender, NoUser}
                  /\ rows[id].kind = "system" => rows'[id].body = rows[id].body
        PROVE  SystemIsNobody' /\ Silence'
    BY <2>2 DEF SystemIsNobody, Silence
  <2>3. CASE Amended
    BY <2>2, <2>3 DEF Amended
  <2>4. CASE Unmade
    <3>1. PICK u \in Users : rows' = Erased(Authored(u)) /\ left' = left
      BY <2>4 DEF Unmade
    <3>2. \A id \in DOMAIN rows : rows[id].kind = "system" => id \notin Authored(u)
      BY NoUserAssumption DEF SystemIsNobody, Authored
    <3>3. QED
      BY <2>2, <3>1, <3>2, UnmadeRows
  <2>5. CASE UNCHANGED <<lastSeq, rows, outbox>> /\ left' \subseteq left
    BY <2>2, <2>5
  <2>6. QED
    BY <2>1, <2>3, <2>4, <2>5, TellingStep
<1>2. TargetsOK'
  <2>1. \A id \in DOMAIN rows : id \in DOMAIN rows' /\ rows'[id].kind = rows[id].kind
    <3>1. CASE Spoken
      BY <3>1, AppendedRows DEF Spoken
    <3>2. CASE Amended
      BY <3>2 DEF Amended
    <3>3. CASE Unmade
      BY <3>3, UnmadeRows DEF Unmade
    <3>4. QED
      BY <3>1, <3>2, <3>3, TellingStep
  <2>2. ASSUME NEW w \in Workers, Begin(w)
        PROVE  TargetsOK'
    <3>1. ASSUME NEW u \in Users, NEW id \in DOMAIN rows, NEW text \in Texts,
                 BeginEdit(w, u, id, text)
          PROVE  TargetsOK'
      BY <2>1, <3>1 DEF BeginEdit, Load, TargetsOK, TypeOK
    <3>2. ASSUME NEW u \in Users, NEW id \in DOMAIN rows, BeginDelete(w, u, id)
          PROVE  TargetsOK'
      <4>1. rows[id].kind = "text"
        <5>1. rows[id] \in Row /\ rows[id].sender # NoUser
          BY <3>2, RowsType, NoUserAssumption DEF BeginDelete
        <5>2. QED
          BY <5>1 DEF SystemIsNobody, Row
      <4>2. QED
        BY <2>1, <3>2, <4>1 DEF BeginDelete, Load, TargetsOK, TypeOK
    <3>3. ASSUME NEW u \in Users, BeginErase(w, u)
          PROVE  TargetsOK'
      BY <2>1, <3>3 DEF BeginErase, Load, TargetsOK, TypeOK
    <3>4. ASSUME NEW state \in {"send", "leave"}, NEW r, Load(w, state, r)
          PROVE  TargetsOK'
      BY <2>1, <3>4 DEF Load, TargetsOK, TypeOK
    <3>5. QED
      BY <2>2, <3>1, <3>2, <3>3, <3>4 DEF Begin, BeginSend, BeginLeave
  <2>3. ASSUME NEW w \in Workers, Commit(w)
        PROVE  TargetsOK'
    <3>1. \E ps : Committed(w, ps)
      BY <2>3 DEF Commit, CommitSend, CommitEdit, CommitDelete, CommitErase,
         CommitLeave, Insert
    <3>2. QED
      BY <2>1, <3>1 DEF Committed, TargetsOK, TypeOK
  <2>4. ASSUME NEW w \in Workers,
               SendCollides(w) \/ EraseNothing(w) \/ Finish(w) \/ Crash(w)
        PROVE  TargetsOK'
    <3>1. Returned(w)
      BY <2>4 DEF SendCollides, EraseNothing, Finish, Crash
    <3>2. QED
      BY <2>1, <3>1 DEF Returned, TargetsOK, TypeOK
  <2>5. ASSUME UNCHANGED <<pc, req>>
        PROVE  TargetsOK'
    BY <2>1, <2>5 DEF TargetsOK
  <2>6. QED
    BY <2>2, <2>3, <2>4, <2>5 DEF Next, SendAgain, Deliver, Rejoin, vars
<1>3. QED
  BY <1>1, <1>2

(***************************************************************************)
(* The outbox tells the journal: for any number of workers that interleave *)
(* or die, events are in the order of their positions, each message has    *)
(* one, and no revision but an erasure's commits without its own           *)
(* (mutate_and_emit inside each transaction).                              *)
(***************************************************************************)
THEOREM OutboxIsTheJournal == Spec => []OutboxTellsJournal
<1>1. Init => OutboxInv /\ QuietInv
  <2> SUFFICES ASSUME Init PROVE OutboxInv /\ QuietInv
    OBVIOUS
  <2>1. DOMAIN rows = {} /\ DOMAIN outbox = {} /\ left = {} /\ \A w \in Workers : pc[w] = "idle"
    BY EmptySeq DEF Init
  <2>2. QED
    BY <2>1 DEF OutboxInv, OutboxTellsJournal, OutboxBehind, QuietInv, SystemIsNobody,
       TargetsOK, Silence
<1>2. IInv /\ OutboxInv /\ QuietInv /\ [Next]_vars => OutboxInv' /\ QuietInv'
  BY OutboxStep, QuietStep DEF QuietInv
<1>3. OutboxInv => OutboxTellsJournal
  BY DEF OutboxInv
<1>4. QED
  BY <1>1, <1>2, <1>3, Invariance, PTL DEF Spec

(***************************************************************************)
(* Nobody is talked to in a thread hidden from them: while left_at is set, *)
(* the departure's line stands in the thread and no person wrote after it  *)
(* (leave_conversation, _resurface_participants).                          *)
(***************************************************************************)
THEOREM DeparturesAreQuiet == Spec => []QuietAfterLeaving
<1>1. Init => QuietInv
  <2> SUFFICES ASSUME Init PROVE QuietInv
    OBVIOUS
  <2>1. DOMAIN rows = {} /\ left = {} /\ \A w \in Workers : pc[w] = "idle"
    BY EmptySeq DEF Init
  <2>2. QED
    BY <2>1 DEF QuietInv, SystemIsNobody, TargetsOK, Silence
<1>2. IInv /\ QuietInv /\ [Next]_vars => QuietInv'
  BY QuietStep
<1>3. QuietInv => QuietAfterLeaving
  BY DEF QuietInv, Silence, QuietAfterLeaving
<1>4. QED
  BY <1>1, <1>2, <1>3, Invariance, PTL DEF Spec

(***************************************************************************)
(* Frames.                                                                 *)
(***************************************************************************)
\* What a waiting frame may say about the rows.
Follows(f, table) ==
    f.type = "frame" =>
       /\ f.id \in DOMAIN table
       /\ f.rev <= table[f.id].rev
       /\ f.deleted => table[f.id].deleted
       /\ f.rev = table[f.id].rev /\ ~table[f.id].deleted => f.body = table[f.id].body

\* A row that moves on leaves the frames about it behind.
LEMMA FramesWait ==
    ASSUME IInv, [Next]_vars, NEW f \in Push, Follows(f, rows)
    PROVE  Follows(f, rows')
<1>1. CASE f.type = "frame"
  <2> DEFINE id == f.id
  <2>1. id \in DOMAIN rows /\ id \in DOMAIN rows'
    <3>1. DOMAIN rows \subseteq DOMAIN rows'
      <4>1. CASE Appended
        BY <4>1, RowsType DEF Appended, TypeOK, IInv
      <4>2. CASE Rewritten
        BY <4>2 DEF Rewritten
      <4>3. CASE BlockErased
        BY <4>3 DEF BlockErased, Erased
      <4>4. QED
        BY <4>1, <4>2, <4>3, JournalStep DEF IInv
    <3>2. QED
      BY <1>1, <3>1 DEF Follows
  <2>2. rows'[id] # rows[id] => rows'[id].rev > lastSeq
    BY <2>1, PassesStep DEF PassesEveryCursor
  <2>3. rows[id].rev <= lastSeq /\ rows[id].rev \in Nat /\ lastSeq \in Nat
    <3>1. rows[id] \in Row
      BY <2>1, RowsType DEF IInv
    <3>2. QED
      BY <2>1, <3>1 DEF IInv, JournalPositions, TypeOK, Row
  <2>4. rows[id].deleted => rows'[id].deleted
    BY <2>1, TombstonesStep DEF KeepsTombstones
  <2>5. f.rev <= rows[id].rev /\ f.rev \in Nat
    BY <1>1 DEF Follows, Push
  <2>6. CASE rows'[id] = rows[id]
    BY <2>1, <2>6 DEF Follows
  <2>7. CASE rows'[id] # rows[id]
    <3>1. rows'[id].rev > lastSeq
      BY <2>2, <2>7
    <3>2. rows'[id].rev \in Nat
      <4>1. TypeOK'
        BY TypeStep DEF IInv
      <4>2. rows'[id] \in Row
        BY <2>1, <4>1, LenProperties, ElementOfSeq DEF TypeOK
      <4>3. QED
        BY <4>2 DEF Row
    <3>3. f.rev <= rows'[id].rev /\ f.rev # rows'[id].rev
      BY <2>3, <2>5, <3>1, <3>2
    <3>4. QED
      BY <2>1, <2>4, <3>3 DEF Follows
  <2>8. QED
    BY <2>6, <2>7
<1>2. CASE f.type # "frame"
  BY <1>2 DEF Follows
<1>3. QED
  BY <1>1, <1>2

\* The frame of a row as the transaction left it, whoever it names as sender.
LEMMA FrameFollows ==
    ASSUME NEW table, NEW id \in DOMAIN table, table[id] \in Row,
           NEW m, m.rev = table[id].rev, m.body = table[id].body,
           m.deleted => table[id].deleted, NEW to
    PROVE  Follows(Frame(id, m, to), table)
<1>1. table[id].rev \in Nat
  BY DEF Row
<1>2. QED
  BY <1>1 DEF Follows, Frame

\* The callbacks of the worker that committed, and those that waited.
LEMMA CommittedFrames ==
    ASSUME IInv, [Next]_vars, FramesFollowRows, NEW w \in Workers, NEW ps \in Seq(Push),
           pushes' = [pushes EXCEPT ![w] = ps],
           \A k \in DOMAIN ps : Follows(ps[k], rows')
    PROVE  FramesFollowRows'
<1>1. ASSUME NEW v \in Workers, v # w, NEW k \in DOMAIN pushes[v]
      PROVE  Follows(pushes[v][k], rows')
  <2>1. pushes[v] \in Seq(Push)
    BY DEF IInv, TypeOK
  <2>2. pushes[v][k] \in Push
    BY <2>1, LenProperties, ElementOfSeq
  <2>3. Follows(pushes[v][k], rows)
    BY DEF FramesFollowRows, Follows
  <2>4. QED
    BY <2>2, <2>3, FramesWait
<1>2. pushes'[w] = ps /\ \A v \in Workers : v # w => pushes'[v] = pushes[v]
  BY DEF IInv, TypeOK
<1>3. \A v \in Workers : \A k \in DOMAIN pushes'[v] : Follows(pushes'[v][k], rows')
  BY <1>1, <1>2
<1>4. QED
  BY <1>3 DEF FramesFollowRows, Follows

\* A transaction that appends a row pushes that row, and perhaps a revocation.
LEMMA InsertFrames ==
    ASSUME IInv, [Next]_vars, FramesFollowRows, NEW w \in Workers, NEW m \in Row,
           NEW hidden \in SUBSET Users, NEW extra \in Seq(Push),
           \A k \in DOMAIN extra : extra[k].type # "frame", Insert(w, m, hidden, extra)
    PROVE  FramesFollowRows'
<1> DEFINE id == Len(rows) + 1
           f  == Frame(id, m, Users \ hidden)
<1>1. rows' = Append(rows, m) /\ pushes' = [pushes EXCEPT ![w] = <<f>> \o extra]
  BY DEF Insert, Committed
<1>2. id \in DOMAIN rows' /\ rows'[id] = m
  BY <1>1, AppendedRows DEF IInv
<1>3. id \in Nat
  BY RowsType DEF IInv
<1>4. f \in Push
  BY <1>3, FrameType
<1>5. Follows(f, rows')
  BY <1>2, FrameFollows
<1> HIDE DEF f, id
<1>6. /\ <<f>> \o extra \in Seq(Push)
      /\ \A k \in DOMAIN (<<f>> \o extra) :
            (<<f>> \o extra)[k] = f \/ \E i \in DOMAIN extra : (<<f>> \o extra)[k] = extra[i]
  BY <1>4
<1>7. \A k \in DOMAIN (<<f>> \o extra) : Follows((<<f>> \o extra)[k], rows')
  BY <1>5, <1>6 DEF Follows
<1>8. QED
  BY <1>1, <1>6, <1>7, CommittedFrames

\* A transaction that rewrites a row pushes one frame.
LEMMA RewriteFrames ==
    ASSUME IInv, [Next]_vars, FramesFollowRows, NEW w \in Workers, NEW f \in Push,
           Committed(w, <<f>>), Follows(f, rows')
    PROVE  FramesFollowRows'
<1>1. <<f>> \in Seq(Push) /\ DOMAIN <<f>> = {1} /\ <<f>>[1] = f
  OBVIOUS
<1>2. pushes' = [pushes EXCEPT ![w] = <<f>>]
  BY DEF Committed
<1>3. QED
  BY <1>1, <1>2, CommittedFrames

LEMMA FramesStep == IInv /\ FramesFollowRows /\ [Next]_vars => FramesFollowRows'
<1> SUFFICES ASSUME IInv, FramesFollowRows, [Next]_vars
             PROVE  FramesFollowRows'
  OBVIOUS
<1> USE DEF IInv
<1>0. lastSeq \in Nat
  BY DEF TypeOK
<1>1. ASSUME NEW w \in Workers, CommitSend(w)
      PROVE  FramesFollowRows'
  <2> DEFINE kind == IF req[w].user = NoUser THEN "system" ELSE "text"
             m    == NewRow(req[w].user, kind, req[w].body, req[w].cid)
  <2>1. req[w] \in Request
    BY DEF TypeOK
  <2>2. m \in Row
    BY <2>1 DEF NewRow, NextSeq, Row, Request, TypeOK
  <2>3. Insert(w, m, Resurfaced(req[w].user), <<>>)
    BY <1>1 DEF CommitSend
  <2>4. Resurfaced(req[w].user) \in SUBSET Users
    BY DEF Resurfaced, TypeOK
  <2> HIDE DEF m
  <2>5. <<>> \in Seq(Push) /\ DOMAIN <<>> = {}
    BY EmptySeq
  <2>6. QED
    BY <2>2, <2>3, <2>4, <2>5, InsertFrames
<1>2. ASSUME NEW w \in Workers, CommitLeave(w)
      PROVE  FramesFollowRows'
  <2> DEFINE u == req[w].user
             m == NewRow(NoUser, "system", LeftLine(u), NoCid)
  <2>1. u \in Users
    BY <1>2 DEF CommitLeave, RequestsOK
  <2>2. m \in Row
    BY <2>1 DEF NewRow, NextSeq, Row, Bodies, TypeOK
  <2>3. Insert(w, m, left \cup {u}, <<Revoke(u)>>)
    BY <1>2 DEF CommitLeave
  <2>4. left \cup {u} \in SUBSET Users
    BY <2>1 DEF TypeOK
  <2>5. Revoke(u) \in Push /\ Revoke(u).type = "revoke"
    BY <2>1 DEF Revoke, Push, Bodies
  <2> HIDE DEF m, u
  <2>6. <<Revoke(u)>> \in Seq(Push) /\ \A k \in DOMAIN <<Revoke(u)>> : <<Revoke(u)>>[k] = Revoke(u)
    BY <2>5
  <2>7. QED
    BY <2>2, <2>3, <2>4, <2>5, <2>6, InsertFrames
<1>3. ASSUME NEW w \in Workers, CommitEdit(w)
      PROVE  FramesFollowRows'
  <2> DEFINE r  == req[w]
             m  == EditedRow(rows[r.id], r.body)
             fm == [m EXCEPT !.deleted = FALSE, !.sender = r.user]
             f  == Frame(r.id, fm, Users \ left)
  <2>1. r \in Request /\ r.id \in DOMAIN rows /\ r.user \in Users
    BY <1>3 DEF TypeOK, RequestsOK, CommitEdit
  <2>2. rows[r.id] \in Row /\ r.id \in Nat /\ r.body \in Bodies
    BY <2>1, RowsType DEF Request
  <2>3. m \in Row
    BY <1>0, <2>2, EditedRowType
  <2>4. rows' = [rows EXCEPT ![r.id] = m] /\ Committed(w, <<f>>)
    BY <1>3 DEF CommitEdit
  <2> HIDE DEF m
  <2>5. fm \in Row /\ fm.rev = m.rev /\ fm.body = m.body /\ fm.deleted = FALSE
    BY <2>1, <2>3 DEF Row
  <2>6. r.id \in DOMAIN rows' /\ rows'[r.id] = m
    BY <2>1, <2>4
  <2> HIDE DEF r, fm
  <2>7. f \in Push
    BY <2>2, <2>5, FrameType
  <2>8. Follows(f, rows')
    BY <2>3, <2>5, <2>6, FrameFollows
  <2> HIDE DEF f
  <2>9. QED
    BY <2>4, <2>7, <2>8, RewriteFrames
<1>4. ASSUME NEW w \in Workers, CommitDelete(w)
      PROVE  FramesFollowRows'
  <2> DEFINE r  == req[w]
             m  == Tombstone(rows[r.id])
             fm == [m EXCEPT !.sender = r.user]
             f  == Frame(r.id, fm, Users \ left)
  <2>1. r \in Request /\ r.id \in DOMAIN rows /\ r.user \in Users
    BY <1>4 DEF TypeOK, RequestsOK, CommitDelete
  <2>2. rows[r.id] \in Row /\ r.id \in Nat
    BY <2>1, RowsType
  <2>3. m \in Row
    BY <1>0, <2>2, TombstoneType
  <2>4. rows' = [rows EXCEPT ![r.id] = m] /\ Committed(w, <<f>>)
    BY <1>4 DEF CommitDelete
  <2> HIDE DEF m
  <2>5. fm \in Row /\ fm.rev = m.rev /\ fm.body = m.body /\ fm.deleted = m.deleted
    BY <2>1, <2>3 DEF Row
  <2>6. r.id \in DOMAIN rows' /\ rows'[r.id] = m
    BY <2>1, <2>4
  <2> HIDE DEF r, fm
  <2>7. f \in Push
    BY <2>2, <2>5, FrameType
  <2>8. Follows(f, rows')
    BY <2>3, <2>5, <2>6, FrameFollows
  <2> HIDE DEF f
  <2>9. QED
    BY <2>4, <2>7, <2>8, RewriteFrames
<1>5. ASSUME NEW w \in Workers, CommitErase(w)
      PROVE  FramesFollowRows'
  <2> DEFINE S     == Authored(req[w].user)
             n     == Cardinality(S)
             At(k) == CHOOSE id \in S : Rank(S, id) = k
             ps    == [k \in 1 .. n |-> Frame(At(k), Erased(S)[At(k)], Users)]
  <2>1. S \in SUBSET DOMAIN rows /\ S \in SUBSET (1 .. Len(rows))
    BY RowsType DEF Authored
  <2>2. n \in Nat
    BY <2>1, RowSetFinite
  <2>3. \A k \in 1 .. n : At(k) \in S
    BY <2>1, RowsType, RankCovers
  <2>4. rows' = Erased(S) /\ pushes' = [pushes EXCEPT ![w] = ps]
    BY <1>5 DEF CommitErase, Committed
  <2>5. ASSUME NEW k \in 1 .. n
        PROVE  ps[k] \in Push /\ Follows(ps[k], rows')
    <3>1. At(k) \in DOMAIN rows' /\ At(k) \in Nat /\ rows'[At(k)] \in Row
      BY <2>1, <2>3, <2>4, ErasedType
    <3>2. ps[k] = Frame(At(k), rows'[At(k)], Users)
      BY <2>4
    <3> HIDE DEF ps, At
    <3>3. Frame(At(k), rows'[At(k)], Users) \in Push
      BY <3>1, FrameType
    <3>4. Follows(Frame(At(k), rows'[At(k)], Users), rows')
      BY <3>1, FrameFollows
    <3>5. QED
      BY <3>2, <3>3, <3>4
  <2>6. ps = [k \in 1 .. n |-> ps[k]] /\ DOMAIN ps = 1 .. n
    OBVIOUS
  <2> HIDE DEF ps, n
  <2>7. ps \in [1 .. n -> Push]
    BY <2>5, <2>6
  <2>8. ps \in Seq(Push)
    BY <2>2, <2>7, SeqDef
  <2>9. QED
    BY <2>4, <2>5, <2>6, <2>8, CommittedFrames
<1>6. ASSUME NEW w \in Workers, Deliver(w)
      PROVE  FramesFollowRows'
  <2>1. pushes[w] \in Seq(Push) /\ pushes[w] # <<>> /\ pushes' = [pushes EXCEPT ![w] = Tail(pushes[w])]
    BY <1>6 DEF Deliver, TypeOK
  <2> DEFINE q == pushes[w]
             t == Tail(q)
  <2>2. /\ t \in Seq(Push) /\ Len(t) = Len(q) - 1
        /\ \A k \in 1 .. Len(t) : t[k] = q[k + 1]
        /\ DOMAIN t = 1 .. Len(t) /\ DOMAIN q = 1 .. Len(q) /\ Len(q) \in Nat
    BY <2>1, HeadTailProperties, LenProperties
  <2>3. \A k \in DOMAIN q : Follows(q[k], rows)
    BY DEF FramesFollowRows, Follows
  <2> HIDE DEF t, q
  <2>4. \A k \in DOMAIN t : Follows(t[k], rows)
    <3>1. \A k \in DOMAIN t : k + 1 \in DOMAIN q /\ t[k] = q[k + 1]
      BY <2>2
    <3>2. QED
      BY <2>3, <3>1
  <2>5. \A k \in DOMAIN t : t[k] \in Push
    BY <2>2, ElementOfSeq
  <2>6. \A k \in DOMAIN t : Follows(t[k], rows')
    BY <2>4, <2>5, FramesWait
  <2>7. QED
    BY <2>1, <2>2, <2>6, CommittedFrames DEF t, q
<1>7. ASSUME NEW w \in Workers, Crash(w)
      PROVE  FramesFollowRows'
  <2>1. <<>> \in Seq(Push) /\ DOMAIN <<>> = {} /\ pushes' = [pushes EXCEPT ![w] = <<>>]
    BY <1>7, EmptySeq DEF Crash
  <2>2. QED
    BY <2>1, CommittedFrames
<1>8. CASE UNCHANGED <<rows, pushes>>
  BY <1>8 DEF FramesFollowRows
<1>9. ASSUME NEW w \in Workers, Begin(w)
      PROVE  UNCHANGED <<rows, pushes>>
  BY <1>9 DEF Begin, BeginSend, BeginEdit, BeginDelete, BeginErase, BeginLeave, Load
<1>10. ASSUME NEW w \in Workers,
              (\E cid \in Cids : SendAgain(w, cid)) \/ SendCollides(w)
              \/ EraseNothing(w) \/ Finish(w)
       PROVE  UNCHANGED <<rows, pushes>>
  BY <1>10 DEF SendAgain, SendCollides, EraseNothing, Finish
<1>11. QED
  BY <1>1, <1>2, <1>3, <1>4, <1>5, <1>6, <1>7, <1>8, <1>9, <1>10 DEF Next, Commit, Rejoin, vars

(***************************************************************************)
(* Store first, tell the socket second: whatever commits while a worker's  *)
(* callbacks wait, each waiting frame is about a committed row, is no      *)
(* newer than it, and lies about neither its deletion nor its body         *)
(* (broadcast_message run by transaction.on_commit).                       *)
(***************************************************************************)
THEOREM FramesAreHonest == Spec => []FramesFollowRows
<1>1. Init => FramesFollowRows
  <2> SUFFICES ASSUME Init PROVE FramesFollowRows
    OBVIOUS
  <2>1. \A w \in Workers : DOMAIN pushes[w] = {}
    BY EmptySeq DEF Init
  <2>2. QED
    BY <2>1 DEF FramesFollowRows
<1>2. IInv /\ FramesFollowRows /\ [Next]_vars => FramesFollowRows'
  BY FramesStep
<1>3. QED
  BY <1>1, <1>2, Invariance, PTL DEF Spec
=============================================================================
