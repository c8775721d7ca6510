---------------------------- MODULE AccountsProofs ----------------------------
(***************************************************************************)
(* Proofs about Accounts, for any people, threads, histories and bounds:   *)
(* an acknowledged merge left nothing behind, an acknowledged deletion     *)
(* left nothing standing, two people keep one thread, and threads keep     *)
(* their messages, their order and their marks.                            *)
(*                                                                         *)
(* The inductive invariant says of the tables what the database's          *)
(* constraints say (PlacesInv, KeysInv), and of each delivery what the     *)
(* reads it made are still worth (MergeInv, EraseInv).  All steps but the  *)
(* commit of the merge leave the tables much as they were (Gentle); the    *)
(* commit is one lemma for each part.                                      *)
(***************************************************************************)
EXTENDS Accounts, FiniteSetTheorems, TLAPS

(***************************************************************************)
(* Types.                                                                  *)
(***************************************************************************)
Seats  == UNION {[people -> Nat] : people \in SUBSET Users}
Row    == [kind : {"direct", "room"}, key : SUBSET Users, operator : Users \cup {NoUser},
           seats : Seats, last : Nat]
Keyed  == UNION {[S -> SUBSET Users] : S \in SUBSET Nat}
Marked == UNION {[S -> [own : Nat, guest : Nat]] : S \in SUBSET Nat}

Merging == [phase : {"waiting", "begun", "looked", "failed", "done"}, touched : SUBSET Nat,
            held : SUBSET Nat, desks : SUBSET Nat, dead : SUBSET Nat, keys : Keyed,
            folds : SUBSET (Nat \X Nat), seen : SUBSET Nat, upto : Nat,
            seated : SUBSET Nat, marks : Marked]
Erasing == [phase : {"waiting", "erasing", "cleaning", "failed", "done"}, convs : SUBSET Nat,
            todo : SUBSET Nat, held : SUBSET Nat]

TypeInv ==
    /\ opened \in Nat /\ posted \in Nat
    /\ threads \in [Live -> Row] /\ Live \subseteq 1 .. opened
    /\ rows \in [DOMAIN rows -> Message] /\ DOMAIN rows \subseteq 1 .. posted
    /\ merge \in Merging
    /\ erase \in [Leavers -> Erasing]

\* Every message has a thread, and a place of its own there.
PlacesInv ==
    \A m \in DOMAIN rows :
       /\ rows[m].thread \in Live
       /\ rows[m].seq <= threads[rows[m].thread].last
       /\ \A k \in DOMAIN rows \ {m} :
             rows[k].thread = rows[m].thread => rows[k].seq # rows[m].seq

\* Who sits in a direct thread is who its key says, or has the seat of a guest
\* that is; and no two threads have one key.
WellKeyed(t) ==
    /\ threads[t].key \in Pairs
    /\ \/ Sitting(t) \subseteq threads[t].key
       \/ t \in stray /\ Sitting(t) \subseteq Carried(threads[t].key)

KeysInv ==
    \A t \in Direct :
       /\ WellKeyed(t)
       /\ \A w \in Direct \ {t} : threads[w].key # threads[t].key

(***************************************************************************)
(* What the merge has read.                                                *)
(***************************************************************************)
\* It holds no more than there was, and what it holds is the guest's until it
\* commits.
HeldInv ==
    /\ merge.touched \cup merge.desks \subseteq 1 .. opened /\ merge.held \subseteq 1 .. posted
    /\ merge.phase \in {"begun", "looked"} =>
          /\ \A m \in merge.held \cap DOMAIN rows : rows[m].author = Guest
          /\ \A t \in merge.touched \cap Live : Guest \in Sitting(t)
    /\ merge.phase = "begun" => Touched \subseteq merge.touched \cup stray

\* A thread whose key is to change, and to what.
Renamed(t, key) ==
    /\ t \in merge.touched \cap Direct
    /\ Guest \in threads[t].key
    /\ key = Carried(threads[t].key) /\ key \in Pairs

LookedInv ==
    merge.phase = "looked" =>
       /\ merge.seated \subseteq Live
       /\ merge.touched \cap Live \subseteq merge.seated
       /\ merge.seated \subseteq merge.touched \cup stray
       /\ \A t \in merge.seated : Guest \in Sitting(t)
       /\ DOMAIN merge.marks \subseteq merge.seated
       /\ merge.dead \subseteq merge.touched \cap Direct
       /\ \A t \in merge.dead : Sitting(t) \subseteq {Guest, Survivor}
       /\ \A t \in DOMAIN merge.keys : Renamed(t, merge.keys[t])
       /\ \A p \in merge.folds : p[2] \in Direct /\ Renamed(p[1], threads[p[2]].key)
       /\ merge.touched \cap Direct \subseteq merge.dead \cup DOMAIN merge.keys \cup Losers
       /\ merge.upto <= posted
       /\ \A m \in DOMAIN rows : m <= merge.upto /\ rows[m].thread \in Losers => m \in merge.seen

MergeInv == HeldInv /\ LookedInv /\ NothingStaysBehind

(***************************************************************************)
(* What a deletion has still to do: whatever of its account still stands   *)
(* lies in a thread it will come to, unless it will fail on one that is    *)
(* gone.                                                                   *)
(***************************************************************************)
Reaching(u) ==
    \/ \E t \in erase[u].todo : t \notin Live
    \/ \A m \in erase[u].held \cap Standing(u) : rows[m].thread \in erase[u].todo

EraseOf(u) ==
    /\ erase[u].held \subseteq 1 .. posted /\ erase[u].todo \subseteq 1 .. opened
    /\ \A m \in erase[u].held \cap DOMAIN rows : rows[m].author = u \/ rows[m].life # "live"
    /\ erase[u].phase = "erasing" => Reaching(u)
    /\ erase[u].phase \in {"cleaning", "done"} => erase[u].held \cap Standing(u) = {}

EraseInv == \A u \in Leavers : EraseOf(u)

IInv == TypeInv /\ PlacesInv /\ KeysInv /\ MergeInv /\ EraseInv

(***************************************************************************)
(* Sets of people.                                                         *)
(***************************************************************************)
\* Two people are a pair.
LEMMA TwoArePair ==
    ASSUME NEW u, NEW v, u # v
    PROVE  /\ IsFiniteSet({u, v}) /\ Cardinality({u, v}) = 2
           /\ u \in Users /\ v \in Users => {u, v} \in Pairs
<1>1. IsFiniteSet({u}) /\ Cardinality({u}) = 1
  BY FS_Singleton
<1>2. IsFiniteSet({u} \cup {v}) /\ Cardinality({u} \cup {v}) = 1 + 1
  BY <1>1, FS_AddElement
<1>3. {u} \cup {v} = {u, v}
  OBVIOUS
<1>4. ASSUME u \in Users, v \in Users PROVE {u, v} \in Pairs
  <2> DEFINE p == <<u, v>>
  <2>1. p \in Users \X Users /\ p[1] # p[2] /\ {p[1], p[2]} = {u, v}
    BY <1>4
  <2> QED
    BY <2>1 DEF Pairs
<1> QED
  BY <1>2, <1>3, <1>4

\* Of a pair, nothing less has two.
LEMMA PairSize ==
    ASSUME NEW K \in Pairs, NEW S \in SUBSET K
    PROVE  /\ K \subseteq Users
           /\ IsFiniteSet(S) /\ Cardinality(S) \in Nat
           /\ Cardinality(S) = 2 => S = K
<1>1. PICK u \in Users, v \in Users : u # v /\ K = {u, v}
  BY DEF Pairs
<1>2. IsFiniteSet(K) /\ Cardinality(K) = 2
  BY <1>1, TwoArePair
<1>3. IsFiniteSet(S) /\ (Cardinality(S) = 2 => S = K)
  BY <1>2, FS_Subset
<1> QED
  BY <1>1, <1>3, FS_CardinalityType

\* The guest is not among those the seats were carried to.
LEMMA CarriedIs ==
    ASSUME NEW S
    PROVE  /\ Guest \notin Carried(S)
           /\ Guest \in S => Carried(S) = (S \ {Guest}) \cup {Survivor}
           /\ Guest \notin S => Carried(S) = S
           /\ \A T : T \subseteq S => Carried(T) \subseteq Carried(S)
           /\ S \in SUBSET Users => Carried(S) \in SUBSET Users
  BY UsersAssumption DEF Carried

\* A pair of the guest and somebody is carried to a pair, or becomes one person.
LEMMA CarriedPair ==
    ASSUME NEW K \in Pairs, Guest \in K, NEW S \in SUBSET K, Guest \in S
    PROVE  /\ Cardinality(Carried(S)) < 2 => S \subseteq {Guest, Survivor}
           /\ ~(Cardinality(Carried(S)) < 2) => S = K /\ Carried(K) \in Pairs
<1>1. PICK x \in Users : x # Guest /\ K = {Guest, x}
  BY DEF Pairs
<1>2. Survivor \in Users /\ Survivor # Guest
  BY UsersAssumption
<1>3. CASE S = {Guest}
  <2>1. Carried(S) = {Survivor}
    BY <1>3, CarriedIs
  <2>2. Cardinality(Carried(S)) = 1
    BY <2>1, FS_Singleton
  <2> QED
    BY <1>3, <2>2
<1>4. CASE S = K
  <2>1. Carried(S) = {x} \cup {Survivor}
    BY <1>1, <1>4, CarriedIs
  <2>2. CASE x = Survivor
    <3>1. Cardinality(Carried(S)) = 1
      BY <2>1, <2>2, FS_Singleton
    <3> QED
      BY <1>1, <1>4, <2>2, <3>1
  <2>3. CASE x # Survivor
    <3>1. Carried(S) = {x, Survivor}
      BY <2>1
    <3> QED
      BY <1>2, <1>4, <2>3, <3>1, TwoArePair
  <2> QED
    BY <2>2, <2>3
<1> QED
  BY <1>1, <1>3, <1>4

\* Two pairs of the guest are not carried to one.
LEMMA CarriedApart ==
    ASSUME NEW K \in Pairs, NEW L \in Pairs, Guest \in K, Guest \in L,
           Carried(K) = Carried(L), Carried(K) \in Pairs
    PROVE  K = L
<1>1. PICK x \in Users : x # Guest /\ K = {Guest, x}
  BY DEF Pairs
<1>2. PICK y \in Users : y # Guest /\ L = {Guest, y}
  BY DEF Pairs
<1>3. {x, Survivor} = Carried(K) /\ {y, Survivor} = Carried(K)
  BY <1>1, <1>2, CarriedIs
<1>4. x # Survivor /\ y # Survivor
  BY <1>3 DEF Pairs
<1> QED
  BY <1>1, <1>2, <1>3, <1>4

\* Seats, by who sits there.
LEMMA SeatsAre ==
    /\ \A s \in Seats : /\ DOMAIN s \in SUBSET Users /\ s = [u \in DOMAIN s |-> s[u]]
                        /\ \A u \in DOMAIN s : s[u] \in Nat
    /\ \A S \in SUBSET Users : \A s \in [S -> Nat] : s \in Seats
  BY DEF Seats

\* The larger of two marks is none less than either.
LEMMA MaxOfTwo ==
    ASSUME NEW a \in Nat, NEW b \in Nat
    PROVE  Max({a, b}) \in Nat /\ Max({a, b}) >= a /\ Max({a, b}) >= b
<1>1. \E x \in {a, b} : \A y \in {a, b} : x >= y
  OBVIOUS
<1> QED
  BY <1>1 DEF Max

\* A thread the guest sits in has the guest in its key.
LEMMA GuestsKey ==
    ASSUME KeysInv, NEW t \in Direct, Guest \in Sitting(t)
    PROVE  Sitting(t) \subseteq threads[t].key /\ Guest \in threads[t].key
  BY CarriedIs DEF KeysInv, WellKeyed

(***************************************************************************)
(* Steps that leave the tables much as they were: all but the commit of a  *)
(* merge.  Threads are opened, under keys of their own, and deleted when   *)
(* fewer than two people sit in them and no merge is about them; people    *)
(* other than the guest leave; rows are appended, revised, erased, or      *)
(* deleted with their thread, and a tombstone stays one.                   *)
(***************************************************************************)
Softer(t) ==
    /\ threads'[t].kind = threads[t].kind /\ threads'[t].key = threads[t].key
    /\ threads'[t].operator = threads[t].operator
    /\ DOMAIN threads'[t].seats \subseteq Sitting(t)
    /\ Guest \in Sitting(t) => Guest \in DOMAIN threads'[t].seats
    /\ threads'[t].last >= threads[t].last
    /\ \A u \in DOMAIN threads'[t].seats : threads'[t].seats[u] >= threads[t].seats[u]

Fresh(t) ==
    /\ t > opened
    /\ threads'[t].kind = "direct" =>
          /\ threads'[t].key \in Pairs /\ DOMAIN threads'[t].seats \subseteq threads'[t].key
          /\ \A w \in DOMAIN threads' \ {t} :
                threads'[w].kind = "direct" => threads'[w].key # threads'[t].key
    /\ Guest \in DOMAIN threads'[t].seats /\ merge.phase = "begun" => t \in stray'

SameRow(m) ==
    /\ rows'[m].thread = rows[m].thread /\ rows'[m].seq = rows[m].seq
    /\ rows[m].life # "live" => rows'[m].life # "live"
    /\ \/ rows'[m].author = rows[m].author
       \/ rows[m].author \in Leavers /\ rows'[m].author = NoUser /\ rows'[m].life # "live"

NewRow(m) ==
    /\ m > posted /\ DOMAIN rows' \ {m} \subseteq DOMAIN rows
    /\ rows'[m].thread \in Live \cap DOMAIN threads'
    /\ rows'[m].seq > threads[rows'[m].thread].last
    /\ rows'[m].seq <= threads'[rows'[m].thread].last

Gentle ==
    /\ opened' >= opened /\ posted' >= posted /\ stray \subseteq stray'
    /\ \A t \in DOMAIN threads' \cap Live : Softer(t)
    /\ \A t \in DOMAIN threads' \ Live : Fresh(t)
    /\ \A t \in Live \ DOMAIN threads' :
          Cardinality(Sitting(t)) < 2 /\ ~Locked(t) /\ ~Seated(t)
    /\ \A m \in DOMAIN rows : m \in DOMAIN rows' <=> rows[m].thread \in DOMAIN threads'
    /\ \A m \in DOMAIN rows' \cap DOMAIN rows : SameRow(m)
    /\ \A m \in DOMAIN rows' \ DOMAIN rows : NewRow(m)

\* What the types say of one row of each table.
LEMMA RowsTyped ==
    ASSUME TypeInv
    PROVE  /\ \A t \in Live : /\ threads[t] \in Row /\ t \in 1 .. opened
                              /\ threads[t].last \in Nat /\ threads[t].seats \in Seats
           /\ \A m \in DOMAIN rows : /\ rows[m] \in Message /\ m \in 1 .. posted
                                     /\ rows[m].seq \in Nat /\ rows[m].rev \in Nat
  BY DEF TypeInv, Row, Message

\* Places are kept.
LEMMA GentlePlaces ==
    ASSUME TypeInv, TypeInv', PlacesInv, Gentle PROVE PlacesInv'
<1>1. ASSUME NEW m \in DOMAIN rows'
      PROVE  rows'[m].thread \in DOMAIN threads' /\ rows'[m].seq <= threads'[rows'[m].thread].last
  <2>1. CASE m \in DOMAIN rows
    <3>1. rows'[m].thread = rows[m].thread /\ rows'[m].seq = rows[m].seq
      BY <1>1, <2>1 DEF Gentle, SameRow
    <3>2. rows[m].thread \in DOMAIN threads' \cap Live /\ rows[m].seq <= threads[rows[m].thread].last
      BY <1>1, <2>1 DEF Gentle, PlacesInv
    <3>3. threads'[rows[m].thread].last >= threads[rows[m].thread].last
      BY <3>2 DEF Gentle, Softer
    <3>4. /\ rows[m].seq \in Nat /\ threads[rows[m].thread].last \in Nat
          /\ threads'[rows[m].thread].last \in Nat
      BY <2>1, <3>2, RowsTyped DEF TypeInv, Row
    <3> QED
      BY <3>1, <3>2, <3>3, <3>4
  <2>2. CASE m \notin DOMAIN rows
    BY <1>1, <2>2 DEF Gentle, NewRow
  <2> QED
    BY <2>1, <2>2
<1>2. ASSUME NEW m \in DOMAIN rows, NEW k \in DOMAIN rows' \ DOMAIN rows,
             rows[m].thread = rows'[k].thread
      PROVE  rows[m].seq # rows'[k].seq
  <2>1. rows'[k].thread \in Live /\ rows'[k].seq > threads[rows'[k].thread].last
    BY DEF Gentle, NewRow
  <2>2. rows[m].seq <= threads[rows[m].thread].last
    BY DEF PlacesInv
  <2>3. /\ rows[m].seq \in Nat /\ threads[rows[m].thread].last \in Nat /\ rows'[k].seq \in Nat
    BY <1>2, <2>1, RowsTyped DEF TypeInv, Message
  <2> QED
    BY <1>2, <2>1, <2>2, <2>3
<1>3. ASSUME NEW m \in DOMAIN rows', NEW k \in DOMAIN rows' \ {m}, rows'[k].thread = rows'[m].thread
      PROVE  rows'[k].seq # rows'[m].seq
  <2>1. CASE m \in DOMAIN rows /\ k \in DOMAIN rows
    BY <1>3, <2>1 DEF Gentle, SameRow, PlacesInv
  <2>2. CASE m \in DOMAIN rows /\ k \notin DOMAIN rows
    <3>1. rows'[m].thread = rows[m].thread /\ rows'[m].seq = rows[m].seq
      BY <1>3, <2>2 DEF Gentle, SameRow
    <3> QED
      BY <1>2, <1>3, <2>2, <3>1
  <2>3. CASE m \notin DOMAIN rows
    <3>1. k \in DOMAIN rows
      BY <1>3, <2>3 DEF Gentle, NewRow
    <3>2. rows'[k].thread = rows[k].thread /\ rows'[k].seq = rows[k].seq
      BY <1>3, <3>1 DEF Gentle, SameRow
    <3> QED
      BY <1>2, <1>3, <2>3, <3>1, <3>2
  <2> QED
    BY <2>1, <2>2, <2>3
<1> QED
  BY <1>1, <1>3 DEF PlacesInv, Live

\* Keys are kept, and new ones are new.
LEMMA GentleKeys ==
    ASSUME KeysInv, Gentle PROVE KeysInv'
<1> DEFINE Direct2 == {t \in DOMAIN threads' : threads'[t].kind = "direct"}
<1>1. ASSUME NEW t \in Direct2, t \in Live
      PROVE  /\ t \in Direct /\ threads'[t].key = threads[t].key
             /\ DOMAIN threads'[t].seats \subseteq Sitting(t)
  BY <1>1 DEF Gentle, Softer, Direct
<1>2. ASSUME NEW t \in Direct2, t \notin Live
      PROVE  /\ threads'[t].key \in Pairs /\ DOMAIN threads'[t].seats \subseteq threads'[t].key
             /\ \A w \in Direct2 \ {t} : threads'[w].key # threads'[t].key
  BY <1>2 DEF Gentle, Fresh
<1>3. \A t \in Direct2 : WellKeyed(t)'
  <2> TAKE t \in Direct2
  <2>1. CASE t \in Live
    <3>1. stray \subseteq stray'
      BY DEF Gentle
    <3> QED
      BY <1>1, <2>1, <3>1 DEF KeysInv, WellKeyed, Sitting, Carried
  <2>2. CASE t \notin Live
    BY <1>2, <2>2 DEF WellKeyed, Sitting
  <2> QED
    BY <2>1, <2>2
<1>4. \A t \in Direct2 : \A w \in Direct2 \ {t} : threads'[w].key # threads'[t].key
  BY <1>1, <1>2 DEF KeysInv
<1> QED
  BY <1>3, <1>4 DEF KeysInv, Direct, Live

\* What there was before is what there was.
LEMMA GentleTables ==
    ASSUME TypeInv, TypeInv', Gentle
    PROVE  /\ \A t \in Live' : t \in 1 .. opened => t \in Live /\ Softer(t)
           /\ \A m \in DOMAIN rows' : m \in 1 .. posted => m \in DOMAIN rows /\ SameRow(m)
           /\ 1 .. opened \subseteq 1 .. opened' /\ 1 .. posted \subseteq 1 .. posted'
  BY DEF Gentle, Fresh, NewRow, TypeInv, Live

\* What the merge has read is kept for it.
LEMMA GentleMerge ==
    ASSUME TypeInv, TypeInv', MergeInv, Gentle, merge' = merge PROVE MergeInv'
<1> USE DEF MergeInv
<1>0. /\ \A t \in Live' : t \in 1 .. opened => t \in Live /\ Softer(t)
      /\ \A m \in DOMAIN rows' : m \in 1 .. posted => m \in DOMAIN rows /\ SameRow(m)
      /\ 1 .. opened \subseteq 1 .. opened' /\ 1 .. posted \subseteq 1 .. posted'
      /\ posted \in Nat /\ posted' \in Nat /\ posted' >= posted
  BY GentleTables DEF TypeInv, Gentle
<1>1. Guest \notin Leavers /\ Guest # NoUser
  BY UsersAssumption
<1>2. /\ merge.touched \cup merge.desks \subseteq 1 .. opened /\ merge.held \subseteq 1 .. posted
  BY DEF HeldInv
<1>3. HeldInv'
  <2>1. ASSUME merge.phase \in {"begun", "looked"}, NEW m \in merge.held \cap DOMAIN rows'
        PROVE  rows'[m].author = Guest
    BY <1>0, <1>1, <1>2, <2>1 DEF HeldInv, SameRow
  <2>2. ASSUME merge.phase \in {"begun", "looked"}, NEW t \in merge.touched \cap Live'
        PROVE  Guest \in Sitting(t)'
    <3>1. t \in Live /\ Softer(t)
      BY <1>0, <1>2
    <3> QED
      BY <2>2, <3>1 DEF HeldInv, Softer, Sitting
  <2>3. ASSUME merge.phase = "begun", NEW t \in Live', Guest \in Sitting(t)'
        PROVE  t \in merge.touched \cup stray'
    <3>1. CASE t \in Live
      <4>1. Softer(t) /\ stray \subseteq stray'
        BY <3>1 DEF Gentle, Live
      <4>2. t \in Touched
        BY <2>3, <3>1, <4>1 DEF Softer, Touched, Sitting
      <4> QED
        BY <2>3, <4>1, <4>2 DEF HeldInv
    <3>2. CASE t \notin Live
      BY <2>3, <3>2 DEF Gentle, Fresh, Live, Sitting
    <3> QED
      BY <3>1, <3>2
  <2>4. /\ merge.touched \cup merge.desks \subseteq 1 .. opened' /\ merge.held \subseteq 1 .. posted'
    BY <1>0, <1>2
  <2>5. merge.phase = "begun" => Touched' \subseteq merge.touched \cup stray'
    BY <2>3 DEF Touched
  <2> QED
    BY <2>1, <2>2, <2>4, <2>5 DEF HeldInv
<1>4. LookedInv'
  <2> SUFFICES ASSUME merge.phase = "looked" PROVE LookedInv'
    BY DEF LookedInv
  <2>1. \A t \in merge.seated : t \in Live' /\ Softer(t)
    BY <1>0 DEF Gentle, Seated, LookedInv, Live, Sitting, TypeInv
  <2>2. \A p \in merge.folds : p[2] \in Live' /\ Softer(p[2])
    BY DEF Gentle, Locked, LookedInv, Live, Direct
  <2>3. merge.touched \cap Live' = merge.touched \cap Live
    <3>1. merge.touched \cap Live' \subseteq Live
      BY <1>0, <1>2
    <3>2. merge.touched \cap Live \subseteq Live'
      BY <2>1 DEF LookedInv
    <3> QED
      BY <3>1, <3>2
  <2>4. \A t \in merge.touched \cap Live : Softer(t)
    BY <2>1 DEF LookedInv
  <2>5. merge.touched \cap Direct' = merge.touched \cap Direct
    BY <2>3, <2>4 DEF Direct, Softer
  <2>6. \A t, key : Renamed(t, key) => Renamed(t, key)'
    BY <2>4, <2>5 DEF Renamed, Softer, Direct
  <2>7. merge.seated \subseteq Live' /\ merge.touched \cap Live' \subseteq merge.seated
    BY <2>1, <2>3 DEF LookedInv
  <2>8. merge.seated \subseteq merge.touched \cup stray'
    BY DEF LookedInv, Gentle
  <2>9. \A t \in merge.seated : Guest \in Sitting(t)'
    BY <2>1 DEF LookedInv, Softer, Sitting
  <2>10. merge.dead \subseteq merge.touched \cap Direct'
    BY <2>5 DEF LookedInv
  <2>11. \A t \in merge.dead : Sitting(t)' \subseteq {Guest, Survivor}
    <3>1. \A t \in merge.dead : t \in merge.touched \cap Live
      BY DEF LookedInv, Direct
    <3> QED
      BY <2>4, <3>1 DEF LookedInv, Softer, Sitting
  <2>12. \A t \in DOMAIN merge.keys : Renamed(t, merge.keys[t])'
    BY <2>6 DEF LookedInv
  <2>13. \A p \in merge.folds : p[2] \in Direct' /\ Renamed(p[1], threads[p[2]].key)'
    <3> TAKE p \in merge.folds
    <3>1. p[2] \in Direct /\ Renamed(p[1], threads[p[2]].key)
      BY DEF LookedInv
    <3>2. p[2] \in Live' /\ Softer(p[2])
      BY <2>2
    <3>3. threads'[p[2]].key = threads[p[2]].key /\ p[2] \in Direct'
      BY <3>1, <3>2 DEF Softer, Direct
    <3>4. Renamed(p[1], threads[p[2]].key)'
      BY <2>4, <2>5, <3>1, <3>3 DEF Renamed, Softer, Direct
    <3> QED
      BY <3>3, <3>4
  <2>14. Losers' = Losers
    BY DEF Losers
  <2>15. merge.touched \cap Direct' \subseteq merge.dead \cup DOMAIN merge.keys \cup Losers'
    BY <2>5, <2>14 DEF LookedInv
  <2>16. merge.upto <= posted' /\ merge.upto \in Nat /\ merge.upto <= posted
    BY <1>0 DEF LookedInv, TypeInv, Merging
  <2>17. ASSUME NEW m \in DOMAIN rows', m <= merge.upto, rows'[m].thread \in Losers'
         PROVE  m \in merge.seen
    <3>1. m \in 1 .. posted
      BY <1>0, <2>16, <2>17 DEF TypeInv
    <3>2. m \in DOMAIN rows /\ SameRow(m)
      BY <1>0, <3>1
    <3> QED
      BY <2>14, <2>17, <3>2 DEF LookedInv, SameRow
  <2> QED
    BY <2>7, <2>8, <2>9, <2>10, <2>11, <2>12, <2>13, <2>15, <2>16, <2>17 DEF LookedInv
<1>5. NothingStaysBehind'
  <2> SUFFICES ASSUME merge.phase = "done"
               PROVE  /\ merge.held \cap By(Guest)' = {}
                      /\ merge.touched \cap Touched' = {}
                      /\ merge.desks \cap Desks' = {}
    BY DEF NothingStaysBehind
  <2>1. merge.held \cap By(Guest)' \subseteq merge.held \cap By(Guest)
    BY <1>0, <1>1, <1>2 DEF By, SameRow
  <2>2. merge.touched \cap Touched' \subseteq merge.touched \cap Touched
    BY <1>0, <1>2 DEF Touched, Softer, Sitting
  <2>3. merge.desks \cap Desks' \subseteq merge.desks \cap Desks
    BY <1>0, <1>2 DEF Desks, Softer
  <2> QED
    BY <2>1, <2>2, <2>3 DEF NothingStaysBehind
<1> QED
  BY <1>3, <1>4, <1>5

\* What a deletion has still to do is kept for it.
LEMMA GentleErase ==
    ASSUME TypeInv, TypeInv', Gentle, NEW u \in Leavers, EraseOf(u), erase'[u] = erase[u]
    PROVE  EraseOf(u)'
<1> DEFINE e == erase[u]
<1>0. /\ \A t \in Live' : t \in 1 .. opened => t \in Live /\ Softer(t)
      /\ \A m \in DOMAIN rows' : m \in 1 .. posted => m \in DOMAIN rows /\ SameRow(m)
      /\ 1 .. opened \subseteq 1 .. opened' /\ 1 .. posted \subseteq 1 .. posted'
  BY GentleTables
<1>1. e.held \subseteq 1 .. posted /\ e.todo \subseteq 1 .. opened /\ u # NoUser
  BY UsersAssumption DEF EraseOf
<1>2. \A m \in e.held \cap DOMAIN rows' : m \in DOMAIN rows /\ SameRow(m)
  BY <1>0, <1>1
<1>3. \A m \in e.held \cap DOMAIN rows' : rows'[m].author = u \/ rows'[m].life # "live"
  BY <1>2 DEF EraseOf, SameRow
<1>4. e.held \cap Standing(u)' \subseteq e.held \cap Standing(u)
  BY <1>1, <1>2 DEF Standing, By, SameRow
<1>5. e.phase = "erasing" => Reaching(u)'
  <2>1. ASSUME NEW t \in e.todo, t \notin Live PROVE t \notin Live'
    BY <1>0, <1>1, <2>1
  <2>2. ASSUME \A m \in e.held \cap Standing(u) : rows[m].thread \in e.todo
        PROVE  \A m \in e.held \cap Standing(u)' : rows'[m].thread \in e.todo
    BY <1>2, <1>4, <2>2 DEF Standing, By, SameRow
  <2> QED
    BY <2>1, <2>2 DEF EraseOf, Reaching
<1> QED
  BY <1>0, <1>1, <1>3, <1>4, <1>5 DEF EraseOf

(***************************************************************************)
(* The gentle steps.                                                       *)
(***************************************************************************)
\* The tables alone.
TablesTyped ==
    /\ opened \in Nat /\ posted \in Nat
    /\ threads \in [Live -> Row] /\ Live \subseteq 1 .. opened
    /\ rows \in [DOMAIN rows -> Message] /\ DOMAIN rows \subseteq 1 .. posted

\* A thread that stays as it was.
LEMMA Unmoved ==
    ASSUME TypeInv, NEW t \in Live, threads'[t] = threads[t]
    PROVE  Softer(t)
<1>1. /\ threads[t].last \in Nat /\ threads[t].seats \in Seats
      /\ \A u \in Sitting(t) : threads[t].seats[u] \in Nat
  BY RowsTyped, SeatsAre DEF Sitting
<1> QED
  BY <1>1 DEF Softer, Sitting

\* A step that leaves the tables alone.
LEMMA StillGentle ==
    ASSUME TypeInv, PlacesInv, UNCHANGED <<threads, opened, rows, posted, stray>>
    PROVE  Gentle /\ TablesTyped'
<1>1. \A t \in Live : /\ threads[t].last \in Nat
                      /\ \A u \in Sitting(t) : threads[t].seats[u] \in Nat
  BY RowsTyped, SeatsAre DEF Sitting
<1>2. \A t \in Live : Softer(t)
  BY <1>1 DEF Softer, Sitting
<1>3. \A m \in DOMAIN rows : SameRow(m)
  BY DEF SameRow
<1>4. TablesTyped'
  BY DEF TablesTyped, TypeInv, Live
<1> QED
  BY <1>2, <1>3, <1>4 DEF Gentle, TypeInv, PlacesInv, Live

\* A thread is opened under a key of its own.
LEMMA AddGentle ==
    ASSUME TypeInv, PlacesInv, NEW thread \in Row, Add(thread),
           thread.kind = "direct" =>
              /\ thread.key \in Pairs /\ DOMAIN thread.seats \subseteq thread.key
              /\ \A t \in Direct : threads[t].key # thread.key
    PROVE  Gentle /\ TablesTyped'
<1> DEFINE n == opened + 1
<1>1. /\ opened \in Nat /\ n \in Nat /\ n > opened /\ n \notin Live /\ opened' = n
      /\ posted \in Nat /\ rows' = rows /\ posted' = posted
  BY DEF Add, TypeInv
<1>2. /\ DOMAIN threads' = Live \cup {n} /\ threads'[n] = thread
      /\ \A t \in Live : threads'[t] = threads[t]
      /\ threads' = [t \in Live \cup {n} |-> IF t \in Live THEN threads[t] ELSE thread]
  BY <1>1 DEF Add
<1>3. stray \subseteq stray' /\ (Guest \in DOMAIN thread.seats /\ merge.phase = "begun" => n \in stray')
  BY DEF Add
<1> HIDE DEF n
<1>4. \A t \in Live : threads[t] \in Row
  BY RowsTyped
<1>5. threads' \in [DOMAIN threads' -> Row]
  BY <1>2, <1>4
<1>6. TablesTyped'
  BY <1>1, <1>2, <1>5 DEF TablesTyped, TypeInv, Live, n
<1>7. \A t \in Live : Softer(t)
  <2>1. \A t \in Live : /\ threads[t].last \in Nat
                        /\ \A u \in Sitting(t) : threads[t].seats[u] \in Nat
    BY RowsTyped, SeatsAre DEF Sitting
  <2> QED
    BY <1>2, <2>1 DEF Softer, Sitting
<1>8. Fresh(n)
  <2>1. \A t \in Live : threads[t].kind = "direct" => t \in Direct
    BY DEF Direct
  <2> QED
    BY <1>1, <1>2, <1>3, <2>1 DEF Fresh
<1>9. \A m \in DOMAIN rows : SameRow(m)
  BY <1>1 DEF SameRow
<1> QED
  BY <1>1, <1>2, <1>3, <1>6, <1>7, <1>8, <1>9 DEF Gentle, PlacesInv, Live

\* A direct thread is opened for a pair that has none.
LEMMA OpenDirectGentle ==
    ASSUME TypeInv, PlacesInv, NEW u \in Users, NEW v \in Users, OpenDirect(u, v)
    PROVE  Gentle /\ TablesTyped'
<1> DEFINE thread == NewThread("direct", {u, v}, {u, v}, NoUser)
<1>1. thread.seats \in Seats /\ DOMAIN thread.seats = {u, v}
  <2>1. [w \in {u, v} |-> 0] \in [{u, v} -> Nat] /\ {u, v} \in SUBSET Users
    OBVIOUS
  <2> QED
    BY <2>1, SeatsAre DEF NewThread
<1>2. thread \in Row /\ thread.kind = "direct" /\ thread.key = {u, v}
  BY <1>1 DEF NewThread, Row
<1>3. {u, v} \in Pairs
  BY TwoArePair DEF OpenDirect
<1>4. Add(thread) /\ \A t \in Direct : threads[t].key # {u, v}
  BY DEF OpenDirect
<1> HIDE DEF thread
<1> QED
  BY <1>1, <1>2, <1>3, <1>4, AddGentle

\* A room is opened.
LEMMA ConveneGentle ==
    ASSUME TypeInv, PlacesInv, NEW room \in Rooms, Convene(room)
    PROVE  Gentle /\ TablesTyped'
<1> DEFINE thread == NewThread("room", {}, room.people, room.operator)
<1>1. room.people \in SUBSET Users /\ room.operator \in Users \cup {NoUser}
  BY UsersAssumption
<1>2. thread.seats \in Seats
  <2>1. [w \in room.people |-> 0] \in [room.people -> Nat]
    OBVIOUS
  <2> QED
    BY <1>1, <2>1, SeatsAre DEF NewThread
<1>3. thread \in Row /\ thread.kind # "direct"
  BY <1>1, <1>2 DEF NewThread, Row
<1>4. Add(thread)
  BY DEF Convene
<1> HIDE DEF thread
<1> QED
  BY <1>3, <1>4, AddGentle

\* A message comes behind all that is in its thread.
LEMMA PostGentle ==
    ASSUME TypeInv, PlacesInv, NEW u \in Users, NEW t \in Live, NEW c \in Cids \cup {NoCid},
           Post(u, t, c)
    PROVE  Gentle /\ TablesTyped'
<1> DEFINE n == posted + 1
           m0 == [thread |-> t, seq |-> threads[t].last + 1, rev |-> threads[t].last + 1,
                  author |-> u, cid |-> c, life |-> "live"]
<1>1. /\ posted \in Nat /\ n \in Nat /\ n > posted /\ n \notin DOMAIN rows /\ posted' = n
      /\ opened \in Nat /\ opened' = opened /\ stray' = stray /\ t \in Nat
  BY DEF Post, TypeInv
<1>2. /\ DOMAIN rows' = DOMAIN rows \cup {n} /\ rows'[n] = m0
      /\ \A m \in DOMAIN rows : rows'[m] = rows[m]
      /\ rows' = [m \in DOMAIN rows \cup {n} |-> IF m \in DOMAIN rows THEN rows[m] ELSE m0]
  BY <1>1 DEF Post
<1>3. threads[t].last \in Nat /\ \A w \in Live : threads[w] \in Row
  BY RowsTyped
<1>4. /\ DOMAIN threads' = Live
      /\ threads'[t] = [threads[t] EXCEPT !.last = @ + 1]
      /\ \A w \in Live \ {t} : threads'[w] = threads[w]
      /\ threads' = [w \in Live |-> threads'[w]]
  BY DEF Post, TypeInv
<1>5. threads'[t] \in Row /\ threads'[t].last = threads[t].last + 1
      /\ threads'[t].kind = threads[t].kind /\ threads'[t].key = threads[t].key
      /\ threads'[t].operator = threads[t].operator /\ threads'[t].seats = threads[t].seats
  <2>1. threads[t] \in Row /\ threads[t].last + 1 \in Nat
    BY <1>3
  <2> QED
    BY <1>4, <2>1 DEF Row
<1>6. m0 \in Message /\ m0.thread = t /\ m0.seq = threads[t].last + 1
  BY <1>1, <1>3 DEF Message
<1> HIDE DEF n, m0
<1>7. TablesTyped'
  <2>1. threads' \in [Live -> Row]
    BY <1>3, <1>4, <1>5
  <2>2. rows' \in [DOMAIN rows' -> Message]
    BY <1>2, <1>6, RowsTyped
  <2>3. DOMAIN rows' \subseteq 1 .. posted'
    BY <1>1, <1>2 DEF TypeInv, n
  <2> QED
    BY <1>1, <1>4, <2>1, <2>2, <2>3 DEF TablesTyped, TypeInv, Live
<1>8. \A w \in Live : Softer(w)
  <2>1. \A x \in Sitting(t) : threads[t].seats[x] \in Nat
    BY RowsTyped, SeatsAre DEF Sitting
  <2>2. threads'[t].last >= threads[t].last
    BY <1>3, <1>5
  <2>3. Softer(t)
    BY <1>5, <2>1, <2>2 DEF Softer, Sitting
  <2> QED
    BY <1>4, <2>3, Unmoved
<1>9. NewRow(n)
  <2>1. rows'[n].thread = t /\ rows'[n].seq = threads[t].last + 1
    BY <1>2, <1>6
  <2>2. threads[t].last + 1 > threads[t].last /\ threads[t].last + 1 <= threads'[t].last
    BY <1>3, <1>5
  <2>3. DOMAIN rows' \ {n} \subseteq DOMAIN rows /\ t \in DOMAIN threads'
    BY <1>2, <1>4
  <2> QED
    BY <1>1, <2>1, <2>2, <2>3 DEF NewRow
<1>10. \A m \in DOMAIN rows : SameRow(m)
  BY <1>2 DEF SameRow
<1> QED
  BY <1>1, <1>2, <1>4, <1>7, <1>8, <1>9, <1>10 DEF Gentle, PlacesInv, Live

\* A message that is revised keeps its place and its author, and a tombstone stays one.
LEMMA ReviseGentle ==
    ASSUME TypeInv, PlacesInv, NEW m \in DOMAIN rows, NEW life \in {"live", "gone", "back"},
           Revise(m, life), rows[m].life # "live" => life # "live"
    PROVE  Gentle /\ TablesTyped'
<1> DEFINE t == rows[m].thread
<1>1. /\ UNCHANGED <<opened, posted, stray>> /\ t \in Live
      /\ rows' = [rows EXCEPT ![m].life = life, ![m].rev = threads[t].last + 1]
      /\ threads' = [threads EXCEPT ![t].last = @ + 1]
  BY DEF Revise, PlacesInv
<1>2. /\ threads[t].last \in Nat /\ \A w \in Live : threads[w] \in Row
      /\ \A k \in DOMAIN rows : rows[k] \in Message
  BY <1>1, RowsTyped
<1> HIDE DEF t
<1>3. /\ DOMAIN rows' = DOMAIN rows /\ \A k \in DOMAIN rows \ {m} : rows'[k] = rows[k]
      /\ rows'[m] = [rows[m] EXCEPT !.life = life, !.rev = threads[t].last + 1]
      /\ rows' = [k \in DOMAIN rows |-> rows'[k]]
  BY <1>1 DEF TypeInv
<1>4. /\ rows'[m] \in Message /\ rows'[m].life = life /\ rows'[m].author = rows[m].author
      /\ rows'[m].thread = rows[m].thread /\ rows'[m].seq = rows[m].seq
  <2>1. rows[m] \in Message /\ threads[t].last + 1 \in Nat
    BY <1>2
  <2> QED
    BY <1>3, <2>1 DEF Message
<1>5. /\ DOMAIN threads' = Live
      /\ threads'[t] = [threads[t] EXCEPT !.last = @ + 1]
      /\ \A w \in Live \ {t} : threads'[w] = threads[w]
      /\ threads' = [w \in Live |-> threads'[w]]
  BY <1>1 DEF TypeInv
<1>6. /\ threads'[t] \in Row /\ threads'[t].last = threads[t].last + 1
      /\ threads'[t].kind = threads[t].kind /\ threads'[t].key = threads[t].key
      /\ threads'[t].operator = threads[t].operator /\ threads'[t].seats = threads[t].seats
  <2>1. threads[t] \in Row /\ threads[t].last + 1 \in Nat
    BY <1>1, <1>2
  <2> QED
    BY <1>5, <2>1 DEF Row
<1>7. TablesTyped'
  <2>1. threads' \in [Live -> Row]
    BY <1>2, <1>5, <1>6
  <2>2. rows' \in [DOMAIN rows -> Message]
    BY <1>2, <1>3, <1>4
  <2> QED
    BY <1>1, <1>3, <1>5, <2>1, <2>2 DEF TablesTyped, TypeInv, Live
<1>8. \A w \in Live : Softer(w)
  <2>1. \A x \in Sitting(t) : threads[t].seats[x] \in Nat
    BY <1>1, RowsTyped, SeatsAre DEF Sitting
  <2>2. threads'[t].last >= threads[t].last
    BY <1>2, <1>6
  <2>3. Softer(t)
    BY <1>6, <2>1, <2>2 DEF Softer, Sitting
  <2> QED
    BY <1>5, <2>3, Unmoved
<1>9. \A k \in DOMAIN rows : SameRow(k)
  BY <1>3, <1>4 DEF SameRow
<1> QED
  BY <1>1, <1>3, <1>5, <1>7, <1>8, <1>9 DEF Gentle, TypeInv, PlacesInv, Live

\* A marker moves forward.
LEMMA ReadGentle ==
    ASSUME TypeInv, PlacesInv, NEW u \in Users, NEW t \in Live, Read(u, t)
    PROVE  Gentle /\ TablesTyped'
<1>1. /\ UNCHANGED <<opened, rows, posted, stray>> /\ u \in Sitting(t)
      /\ threads[t].seats[u] < threads[t].last
      /\ threads' = [threads EXCEPT ![t].seats[u] = threads[t].last]
  BY DEF Read
<1>2. threads[t].last \in Nat /\ threads[t].seats \in Seats /\ \A w \in Live : threads[w] \in Row
  BY RowsTyped
<1> DEFINE s == [threads[t].seats EXCEPT ![u] = threads[t].last]
<1>3. /\ DOMAIN threads' = Live
      /\ threads'[t] = [threads[t] EXCEPT !.seats = s]
      /\ \A w \in Live \ {t} : threads'[w] = threads[w]
      /\ threads' = [w \in Live |-> threads'[w]]
  BY <1>1 DEF TypeInv
<1>4. s \in Seats /\ DOMAIN s = Sitting(t) /\ \A v \in DOMAIN s : s[v] >= threads[t].seats[v]
  <2>1. /\ DOMAIN s = Sitting(t) /\ s = [v \in DOMAIN s |-> s[v]]
        /\ s[u] = threads[t].last /\ \A v \in DOMAIN s \ {u} : s[v] = threads[t].seats[v]
    BY <1>1 DEF Sitting
  <2>2. Sitting(t) \in SUBSET Users /\ \A v \in Sitting(t) : threads[t].seats[v] \in Nat
    BY <1>2, SeatsAre DEF Sitting
  <2> HIDE DEF s
  <2>3. s \in [Sitting(t) -> Nat]
    BY <1>2, <2>1, <2>2
  <2> QED
    BY <1>1, <1>2, <2>1, <2>2, <2>3, SeatsAre
<1> HIDE DEF s
<1>5. threads'[t] \in Row /\ threads'[t].seats = s /\ threads'[t].last = threads[t].last
      /\ threads'[t].kind = threads[t].kind /\ threads'[t].key = threads[t].key
      /\ threads'[t].operator = threads[t].operator
  <2>1. threads[t] \in Row
    BY <1>2
  <2> QED
    BY <1>3, <1>4, <2>1 DEF Row
<1>6. TablesTyped'
  <2>1. threads' \in [Live -> Row]
    BY <1>2, <1>3, <1>5
  <2> QED
    BY <1>1, <1>3, <2>1 DEF TablesTyped, TypeInv, Live
<1>7. \A w \in Live : Softer(w)
  <2>1. Softer(t)
    BY <1>2, <1>4, <1>5 DEF Softer, Sitting
  <2> QED
    BY <1>3, <2>1, Unmoved
<1>8. \A m \in DOMAIN rows : SameRow(m)
  BY <1>1 DEF SameRow
<1> QED
  BY <1>1, <1>3, <1>6, <1>7, <1>8 DEF Gentle, TypeInv, PlacesInv, Live
\* Messages can be counted.
LEMMA RowsCounted ==
    ASSUME TypeInv, NEW S \in SUBSET DOMAIN rows
    PROVE  IsFiniteSet(S) /\ Cardinality(S) \in Nat
<1>1. posted \in Int /\ 1 \in Int /\ S \subseteq 1 .. posted
  BY DEF TypeInv
<1>2. IsFiniteSet(1 .. posted)
  BY <1>1, FS_Interval
<1> QED
  BY <1>1, <1>2, FS_Subset, FS_CardinalityType

\* What stands of a leaver's becomes tombstones, in one thread, and keeps its places.
LEMMA EraseThreadGentle ==
    ASSUME TypeInv, PlacesInv, NEW u \in Leavers, NEW t \in Live, EraseThread(u, t)
    PROVE  Gentle /\ TablesTyped'
<1> DEFINE mine == Said(t) \cap Standing(u)
           rev(m) == threads[t].last + Cardinality({k \in mine : rows[k].seq <= rows[m].seq})
           new(m) == IF m \notin mine THEN rows[m]
                     ELSE [rows[m] EXCEPT !.author = NoUser, !.life = "gone", !.rev = rev(m)]
<1>1. /\ UNCHANGED <<opened, posted, stray>> /\ rows' = [m \in DOMAIN rows |-> new(m)]
      /\ threads' = [threads EXCEPT ![t].last = @ + Cardinality(mine)]
  BY DEF EraseThread
<1>2. threads[t].last \in Nat /\ threads[t].seats \in Seats /\ \A w \in Live : threads[w] \in Row
  BY RowsTyped
<1>3. mine \subseteq DOMAIN rows /\ Cardinality(mine) \in Nat
  BY RowsCounted DEF Said
<1>4. \A m \in mine : rev(m) \in Nat
  <2> TAKE m \in mine
  <2>1. Cardinality({k \in mine : rows[k].seq <= rows[m].seq}) \in Nat
    BY <1>3, RowsCounted
  <2> QED
    BY <1>2, <2>1
<1>5. \A m \in mine : rows[m].author = u
  BY DEF Standing, By
<1> HIDE DEF mine, rev
<1>6. \A m \in DOMAIN rows : /\ new(m) \in Message
                             /\ new(m).thread = rows[m].thread /\ new(m).seq = rows[m].seq
                             /\ rows[m].life # "live" => new(m).life # "live"
                             /\ \/ new(m).author = rows[m].author
                                \/ /\ rows[m].author \in Leavers
                                   /\ new(m).author = NoUser /\ new(m).life # "live"
  BY <1>4, <1>5, RowsTyped DEF Message
<1> HIDE DEF new
<1>7. /\ DOMAIN threads' = Live
      /\ threads'[t] = [threads[t] EXCEPT !.last = @ + Cardinality(mine)]
      /\ \A w \in Live \ {t} : threads'[w] = threads[w]
      /\ threads' = [w \in Live |-> threads'[w]]
  BY <1>1 DEF TypeInv
<1>8. /\ threads'[t] \in Row /\ threads'[t].last = threads[t].last + Cardinality(mine)
      /\ threads'[t].kind = threads[t].kind /\ threads'[t].key = threads[t].key
      /\ threads'[t].operator = threads[t].operator /\ threads'[t].seats = threads[t].seats
  <2>1. threads[t] \in Row /\ threads[t].last + Cardinality(mine) \in Nat
    BY <1>2, <1>3
  <2> QED
    BY <1>7, <2>1 DEF Row
<1>9. TablesTyped'
  <2>1. threads' \in [Live -> Row]
    BY <1>2, <1>7, <1>8
  <2>2. rows' \in [DOMAIN rows' -> Message] /\ DOMAIN rows' = DOMAIN rows
    BY <1>1, <1>6
  <2> QED
    BY <1>1, <1>7, <2>1, <2>2 DEF TablesTyped, TypeInv, Live
<1>10. \A w \in Live : Softer(w)
  <2>1. \A x \in Sitting(t) : threads[t].seats[x] \in Nat
    BY <1>2, SeatsAre DEF Sitting
  <2>2. threads'[t].last >= threads[t].last
    BY <1>2, <1>3, <1>8
  <2>3. Softer(t)
    BY <1>8, <2>1, <2>2 DEF Softer, Sitting
  <2> QED
    BY <1>7, <2>3, Unmoved
<1>11. DOMAIN rows' = DOMAIN rows /\ \A m \in DOMAIN rows : SameRow(m)
  BY <1>1, <1>6 DEF SameRow
<1> QED
  BY <1>1, <1>7, <1>9, <1>10, <1>11 DEF Gentle, TypeInv, PlacesInv, Live

\* A leaver, who is not the guest of a merge, gives up every seat.
LEMMA RemoveGentle ==
    ASSUME TypeInv, PlacesInv, NEW u \in Leavers, RemoveMembership(u)
    PROVE  Gentle /\ TablesTyped'
<1>1. /\ UNCHANGED <<opened, rows, posted, stray>> /\ u # Guest
      /\ threads' = [t \in Live |-> [threads[t] EXCEPT !.seats = Kept(@, {u})]]
  BY UsersAssumption DEF RemoveMembership
<1>2. ASSUME NEW t \in Live
      PROVE  threads'[t] \in Row /\ Softer(t)
  <2> DEFINE s == Kept(threads[t].seats, {u})
  <2>1. /\ threads[t] \in Row /\ threads[t].last \in Nat /\ Sitting(t) \in SUBSET Users
        /\ \A x \in Sitting(t) : threads[t].seats[x] \in Nat
    BY RowsTyped, SeatsAre DEF Sitting
  <2>2. /\ DOMAIN s = Sitting(t) \ {u} /\ s \in [Sitting(t) \ {u} -> Nat]
        /\ \A x \in DOMAIN s : s[x] = threads[t].seats[x]
    BY <2>1 DEF Kept, Sitting
  <2>3. s \in Seats
    BY <2>1, <2>2, SeatsAre
  <2> HIDE DEF s
  <2>4. threads'[t] = [threads[t] EXCEPT !.seats = s]
    BY <1>1 DEF s
  <2>5. /\ threads'[t] \in Row /\ threads'[t].last = threads[t].last
        /\ threads'[t].kind = threads[t].kind /\ threads'[t].key = threads[t].key
        /\ threads'[t].operator = threads[t].operator /\ threads'[t].seats = s
    BY <2>1, <2>3, <2>4 DEF Row
  <2>6. \A x \in DOMAIN s : s[x] >= threads[t].seats[x]
    BY <2>1, <2>2
  <2> QED
    BY <1>1, <2>1, <2>2, <2>5, <2>6 DEF Softer
<1>3. DOMAIN threads' = Live /\ threads' = [t \in Live |-> threads'[t]]
  BY <1>1
<1>4. TablesTyped'
  <2>1. threads' \in [Live -> Row]
    BY <1>2, <1>3
  <2> QED
    BY <1>1, <1>3, <2>1 DEF TablesTyped, TypeInv, Live
<1>5. \A m \in DOMAIN rows : SameRow(m) /\ rows[m].thread \in Live
  BY <1>1 DEF SameRow, PlacesInv
<1>6. opened' >= opened /\ posted' >= posted /\ stray' = stray /\ DOMAIN rows' = DOMAIN rows
  BY <1>1 DEF TypeInv
<1> QED
  BY <1>2, <1>3, <1>4, <1>5, <1>6 DEF Gentle

\* A direct thread with fewer than two people goes, and its messages with it.
LEMMA CleanGentle ==
    ASSUME TypeInv, PlacesInv, NEW u \in Leavers, NEW t \in Nat,
           Clean(u, t)
    PROVE  Gentle /\ TablesTyped'
<1> DEFINE dead == t \in Live /\ Cardinality(Sitting(t)) < 2
<1>1. CASE ~dead
  BY <1>1, StillGentle DEF Clean
<1>2. CASE dead
  <2>1. /\ UNCHANGED <<opened, posted, stray>> /\ ~Locked(t) /\ ~Seated(t)
        /\ threads' = Kept(threads, {t}) /\ rows' = Kept(rows, Said(t))
        /\ Cardinality(Sitting(t)) < 2 /\ opened \in Nat /\ posted \in Nat
    BY <1>2 DEF Clean, TypeInv
  <2>2. /\ DOMAIN threads' = Live \ {t} /\ \A w \in Live \ {t} : threads'[w] = threads[w]
        /\ threads' = [w \in Live \ {t} |-> threads'[w]]
    BY <2>1 DEF Kept, Live
  <2>3. /\ DOMAIN rows' = DOMAIN rows \ Said(t)
        /\ \A m \in DOMAIN rows \ Said(t) : rows'[m] = rows[m]
        /\ rows' = [m \in DOMAIN rows \ Said(t) |-> rows'[m]]
    BY <2>1 DEF Kept
  <2>4. TablesTyped'
    <3>1. threads' \in [Live \ {t} -> Row] /\ rows' \in [DOMAIN rows \ Said(t) -> Message]
      BY <2>2, <2>3, RowsTyped
    <3> QED
      BY <2>1, <2>2, <2>3, <3>1 DEF TablesTyped, TypeInv, Live
  <2>5. \A w \in Live \ {t} : Softer(w)
    BY <2>2, Unmoved
  <2>6. \A m \in DOMAIN rows \ Said(t) : SameRow(m)
    BY <2>3 DEF SameRow
  <2>7. \A m \in DOMAIN rows : m \in DOMAIN rows' <=> rows[m].thread \in DOMAIN threads'
    BY <2>2, <2>3 DEF Said, PlacesInv
  <2>8. DOMAIN threads' \subseteq Live /\ Live \ DOMAIN threads' \subseteq {t} /\ DOMAIN rows' \subseteq DOMAIN rows
    BY <2>2, <2>3
  <2>9. \A w \in Live \ DOMAIN threads' : Cardinality(Sitting(w)) < 2 /\ ~Locked(w) /\ ~Seated(w)
    BY <2>1, <2>8
  <2>10. opened' >= opened /\ posted' >= posted /\ stray \subseteq stray'
    BY <2>1
  <2>11. \A m \in DOMAIN rows' \cap DOMAIN rows : SameRow(m)
    BY <2>3, <2>6
  <2>12. \A w \in DOMAIN threads' \cap Live : Softer(w)
    BY <2>2, <2>5
  <2> QED
    BY <2>4, <2>7, <2>8, <2>9, <2>10, <2>11, <2>12 DEF Gentle
<1> QED
  BY <1>1, <1>2
(***************************************************************************)
(* The steps of a deletion.                                                *)
(***************************************************************************)
\* What one delivery of user.deleted writes of itself.
Erases(u) ==
    /\ erase' \in [Leavers -> Erasing]
    /\ \A v \in Leavers \ {u} : erase'[v] = erase[v]
    /\ EraseOf(u)'

\* It begins, or ends one way or the other, and the tables are left alone.
LEMMA DeliveryErases ==
    ASSUME TypeInv, PlacesInv, NEW u \in Leavers, EraseOf(u),
           \/ BeginErase(u) \/ EraseFails(u) \/ FinishErase(u)
           \/ CrashErase(u) \/ RetryErase(u) \/ RepeatErase(u)
    PROVE  Erases(u) /\ UNCHANGED <<database, merge, stray>>
<1>0. /\ UNCHANGED <<database, merge, stray>> /\ UNCHANGED <<threads, rows, opened, posted>>
      /\ erase \in [Leavers -> Erasing]
  BY DEF BeginErase, EraseFails, FinishErase, CrashErase, RetryErase, RepeatErase, TypeInv, database
<1>1. ASSUME NEW e \in Erasing, erase' = [erase EXCEPT ![u] = e]
      PROVE  /\ erase' \in [Leavers -> Erasing] /\ erase'[u] = e
             /\ \A v \in Leavers \ {u} : erase'[v] = erase[v]
  BY <1>0, <1>1
<1>2. By(u)' = By(u) /\ Standing(u)' = Standing(u) /\ Live' = Live
  BY <1>0 DEF Standing, By, Live
<1>3. CASE BeginErase(u)
  <2> DEFINE e == [phase |-> "erasing", todo |-> ToErase(u), held |-> By(u),
                   convs |-> {t \in Live : u \in Sitting(t)}]
  <2>1. ToErase(u) \subseteq Live /\ Live \subseteq 1 .. opened /\ By(u) \subseteq 1 .. posted
    BY DEF ToErase, Standing, By, PlacesInv, TypeInv
  <2>2. e \in Erasing
    <3>1. /\ ToErase(u) \in SUBSET Nat /\ By(u) \in SUBSET Nat
          /\ {t \in Live : u \in Sitting(t)} \in SUBSET Nat
      <4>1. 1 .. opened \subseteq Nat /\ 1 .. posted \subseteq Nat
        BY DEF TypeInv
      <4> QED
        BY <2>1, <4>1
    <3> QED
      BY <3>1 DEF Erasing
  <2>3. erase' = [erase EXCEPT ![u] = e]
    BY <1>3 DEF BeginErase
  <2>4. /\ e.phase = "erasing" /\ e.held = By(u) /\ e.todo = ToErase(u)
    OBVIOUS
  <2> HIDE DEF e
  <2>5. /\ erase' \in [Leavers -> Erasing] /\ erase'[u] = e
        /\ \A v \in Leavers \ {u} : erase'[v] = erase[v]
    BY <1>1, <2>2, <2>3
  <2>6. /\ \A m \in Standing(u) : rows[m].thread \in ToErase(u)
        /\ \A m \in By(u) : rows[m].author = u
    BY DEF ToErase, By
  <2>7. Reaching(u)'
    BY <1>0, <1>2, <2>4, <2>5, <2>6 DEF Reaching
  <2>8. EraseOf(u)'
    BY <1>0, <1>2, <2>1, <2>4, <2>5, <2>6, <2>7 DEF EraseOf
  <2> QED
    BY <1>0, <2>5, <2>8 DEF Erases
<1>4. CASE EraseFails(u) \/ CrashErase(u) \/ RetryErase(u) \/ RepeatErase(u)
  <2>1. PICK phase \in {"waiting", "failed"} : erase' = [erase EXCEPT ![u] = NoErase(phase)]
    BY <1>4 DEF EraseFails, CrashErase, RetryErase, RepeatErase
  <2> DEFINE e == NoErase(phase)
  <2>2. e \in Erasing /\ e.phase = phase /\ e.held = {} /\ e.todo = {}
    BY DEF NoErase, Erasing
  <2> HIDE DEF e
  <2>3. /\ erase' \in [Leavers -> Erasing] /\ erase'[u] = e
        /\ \A v \in Leavers \ {u} : erase'[v] = erase[v]
    BY <1>1, <2>1, <2>2 DEF e
  <2>4. EraseOf(u)'
    BY <2>2, <2>3 DEF EraseOf
  <2> QED
    BY <1>0, <2>3, <2>4 DEF Erases
<1>5. CASE FinishErase(u)
  <2> DEFINE e == [NoErase("done") EXCEPT !.held = erase[u].held]
  <2>1. erase[u] \in Erasing /\ erase[u].phase = "cleaning"
    BY <1>0, <1>5 DEF FinishErase
  <2>2. e \in Erasing /\ e.phase = "done" /\ e.held = erase[u].held /\ e.todo = {}
    BY <2>1 DEF NoErase, Erasing
  <2>3. erase' = [erase EXCEPT ![u] = e]
    BY <1>5 DEF FinishErase
  <2> HIDE DEF e
  <2>4. /\ erase' \in [Leavers -> Erasing] /\ erase'[u] = e
        /\ \A v \in Leavers \ {u} : erase'[v] = erase[v]
    BY <1>1, <2>2, <2>3
  <2>5. EraseOf(u)'
    BY <1>0, <1>2, <2>1, <2>2, <2>4 DEF EraseOf
  <2> QED
    BY <1>0, <2>4, <2>5 DEF Erases
<1> QED
  BY <1>3, <1>4, <1>5

\* One conversation is done with, and nothing of the account's stands there.
LEMMA EraseThreadErases ==
    ASSUME TypeInv, PlacesInv, NEW u \in Leavers, EraseOf(u), NEW t \in Live, EraseThread(u, t)
    PROVE  Erases(u)
<1> DEFINE mine == Said(t) \cap Standing(u)
<1>1. /\ erase' = [erase EXCEPT ![u].todo = @ \ {t}] /\ erase[u].phase = "erasing"
      /\ UNCHANGED <<opened, posted>>
  BY DEF EraseThread
<1>2. /\ erase' \in [Leavers -> Erasing] /\ \A v \in Leavers \ {u} : erase'[v] = erase[v]
      /\ erase'[u].todo = erase[u].todo \ {t} /\ erase'[u].held = erase[u].held
      /\ erase'[u].phase = "erasing"
  <2>1. erase \in [Leavers -> Erasing] /\ erase[u] \in Erasing
    BY DEF TypeInv
  <2>2. [erase[u] EXCEPT !.todo = @ \ {t}] \in Erasing
    BY <2>1 DEF Erasing
  <2> QED
    BY <1>1, <2>1, <2>2 DEF Erasing
<1>3. /\ DOMAIN rows' = DOMAIN rows /\ DOMAIN threads' = Live
      /\ \A m \in DOMAIN rows \ mine : rows'[m] = rows[m]
      /\ \A m \in mine : rows'[m].life = "gone"
  <2>1. \A m \in mine : m \in DOMAIN rows /\ rows[m] \in Message
    BY RowsTyped DEF Standing, By
  <2> QED
    BY <2>1 DEF EraseThread, Live, Message
<1> HIDE DEF mine
<1>4. Standing(u)' = Standing(u) \ mine
  BY <1>3 DEF Standing, By
<1>5. \A m \in erase[u].held \cap DOMAIN rows : rows'[m].author = u \/ rows'[m].life # "live"
  BY <1>3 DEF EraseOf
<1>6. Reaching(u)'
  <2>1. ASSUME NEW w \in erase[u].todo, w \notin Live
        PROVE  w \in erase'[u].todo /\ w \notin Live'
    BY <1>2, <1>3, <2>1 DEF Live
  <2>2. ASSUME \A m \in erase[u].held \cap Standing(u) : rows[m].thread \in erase[u].todo,
               NEW m \in erase[u].held \cap Standing(u)'
        PROVE  rows'[m].thread \in erase'[u].todo
    <3>1. m \in Standing(u) /\ m \notin mine /\ m \in DOMAIN rows
      BY <1>4 DEF Standing, By
    <3>2. rows'[m] = rows[m] /\ rows[m].thread # t
      BY <1>3, <3>1 DEF Said, mine
    <3> QED
      BY <1>2, <2>2, <3>1, <3>2
  <2>3. Reaching(u)
    BY <1>1 DEF EraseOf
  <2> QED
    BY <1>2, <2>1, <2>2, <2>3 DEF Reaching
<1>7. EraseOf(u)'
  BY <1>1, <1>2, <1>3, <1>5, <1>6 DEF EraseOf
<1> QED
  BY <1>2, <1>7 DEF Erases

\* Memberships go when nothing of the account's stands.
LEMMA RemoveErases ==
    ASSUME TypeInv, NEW u \in Leavers, EraseOf(u), RemoveMembership(u)
    PROVE  Erases(u)
<1>1. /\ erase' = [erase EXCEPT ![u].phase = "cleaning", ![u].todo = erase[u].convs \cap Direct]
      /\ erase[u].phase = "erasing" /\ erase[u].todo = {}
      /\ UNCHANGED <<opened, posted, rows>>
  BY DEF RemoveMembership
<1>2. Direct \subseteq 1 .. opened /\ opened \in Nat
  BY DEF Direct, TypeInv
<1>3. /\ erase' \in [Leavers -> Erasing] /\ \A v \in Leavers \ {u} : erase'[v] = erase[v]
      /\ erase'[u].todo \subseteq Direct /\ erase'[u].held = erase[u].held
      /\ erase'[u].phase = "cleaning"
  <2>1. erase \in [Leavers -> Erasing] /\ erase[u] \in Erasing
    BY DEF TypeInv
  <2>2. [erase[u] EXCEPT !.phase = "cleaning", !.todo = erase[u].convs \cap Direct] \in Erasing
    BY <1>2, <2>1 DEF Erasing
  <2> QED
    BY <1>1, <2>1, <2>2 DEF Erasing
<1>4. erase[u].held \cap Standing(u) = {}
  BY <1>1 DEF EraseOf, Reaching
<1>5. Standing(u)' = Standing(u)
  BY <1>1 DEF Standing, By
<1>6. EraseOf(u)'
  BY <1>1, <1>2, <1>3, <1>4, <1>5 DEF EraseOf
<1> QED
  BY <1>3, <1>6 DEF Erases

\* What is cleaned up is not the account's any more.
LEMMA CleanErases ==
    ASSUME TypeInv, NEW u \in Leavers, EraseOf(u), NEW t \in Nat, Clean(u, t)
    PROVE  Erases(u)
<1>1. /\ erase' = [erase EXCEPT ![u].todo = @ \ {t}] /\ erase[u].phase = "cleaning"
      /\ UNCHANGED <<opened, posted>>
  BY DEF Clean
<1>2. /\ erase' \in [Leavers -> Erasing] /\ \A v \in Leavers \ {u} : erase'[v] = erase[v]
      /\ erase'[u].todo = erase[u].todo \ {t} /\ erase'[u].held = erase[u].held
      /\ erase'[u].phase = "cleaning"
  <2>1. erase \in [Leavers -> Erasing] /\ erase[u] \in Erasing
    BY DEF TypeInv
  <2>2. [erase[u] EXCEPT !.todo = @ \ {t}] \in Erasing
    BY <2>1 DEF Erasing
  <2> QED
    BY <1>1, <2>1, <2>2 DEF Erasing
<1>3. DOMAIN rows' \subseteq DOMAIN rows /\ \A m \in DOMAIN rows' : rows'[m] = rows[m]
  BY DEF Clean, Kept
<1>4. Standing(u)' \subseteq Standing(u)
  BY <1>3 DEF Standing, By
<1>5. EraseOf(u)'
  BY <1>1, <1>2, <1>3, <1>4 DEF EraseOf
<1> QED
  BY <1>2, <1>5 DEF Erases

(***************************************************************************)
(* The steps of a merge that write nothing but of itself.                  *)
(***************************************************************************)
\* What was read of the tables is numbers.
LEMMA ReadsTyped ==
    ASSUME TypeInv
    PROVE  /\ Live \subseteq Nat /\ DOMAIN rows \subseteq Nat
           /\ Touched \subseteq 1 .. opened /\ Desks \subseteq 1 .. opened
           /\ By(Guest) \subseteq 1 .. posted
           /\ Touched \in SUBSET Nat /\ Desks \in SUBSET Nat /\ By(Guest) \in SUBSET Nat
<1>1. 1 .. opened \subseteq Nat /\ 1 .. posted \subseteq Nat
  BY DEF TypeInv
<1>2. /\ Live \subseteq 1 .. opened /\ DOMAIN rows \subseteq 1 .. posted
      /\ Touched \subseteq Live /\ Desks \subseteq Live /\ By(Guest) \subseteq DOMAIN rows
  BY DEF TypeInv, Touched, Desks, By
<1> QED
  BY <1>1, <1>2

\* A delivery that has read nothing yet.
LEMMA NoMergeIs ==
    ASSUME NEW phase \in {"waiting", "begun", "failed", "done"}
    PROVE  /\ NoMerge(phase) \in Merging /\ NoMerge(phase).phase = phase
           /\ NoMerge(phase).touched = {} /\ NoMerge(phase).held = {} /\ NoMerge(phase).desks = {}
<1>1. Empty \in [{} -> SUBSET Users] /\ Empty \in [{} -> [own : Nat, guest : Nat]]
  BY DEF Empty
<1>2. Empty \in Keyed /\ Empty \in Marked
  <2>1. {} \in SUBSET Nat
    OBVIOUS
  <2> QED
    BY <1>1, <2>1 DEF Keyed, Marked
<1> HIDE DEF Empty
<1> QED
  BY <1>2 DEF NoMerge, Merging

\* It is quiet, begins, fails, or comes again.
LEMMA DeliveryMerges ==
    ASSUME TypeInv, MergeInv,
           \/ MergeIsQuiet \/ MergeNotReady \/ BeginMerge
           \/ RollBackMerge \/ CrashMerge \/ RetryMerge \/ RepeatMerge
    PROVE  /\ merge' \in Merging /\ MergeInv'
           /\ UNCHANGED <<threads, opened, rows, posted, stray, erase>>
<1>0. UNCHANGED <<threads, opened, rows, posted, stray, erase>>
  BY DEF MergeIsQuiet, MergeNotReady, BeginMerge, RollBackMerge, CrashMerge, RetryMerge,
         RepeatMerge, database
<1>1. /\ Touched' = Touched /\ Desks' = Desks /\ By(Guest)' = By(Guest) /\ Live' = Live
      /\ \A t : Sitting(t)' = Sitting(t)
  BY <1>0 DEF Touched, Desks, By, Live, Sitting
<1>2. ASSUME NEW phase \in {"waiting", "failed"}, merge' = NoMerge(phase)
      PROVE  merge' \in Merging /\ MergeInv'
  <2>1. /\ merge' \in Merging /\ merge'.phase = phase /\ merge'.touched = {}
        /\ merge'.held = {} /\ merge'.desks = {}
    BY <1>2, NoMergeIs
  <2> QED
    BY <2>1 DEF MergeInv, HeldInv, LookedInv, NothingStaysBehind
<1>3. ASSUME NEW phase \in {"begun", "done"}, merge' = WhatGuestOwns(phase),
             phase = "done" => ~GuestOwnsSomething
      PROVE  merge' \in Merging /\ MergeInv'
  <2>1. NoMerge(phase) \in Merging /\ NoMerge(phase).phase = phase
    BY NoMergeIs
  <2>2. /\ merge' \in Merging /\ merge'.phase = phase /\ merge'.touched = Touched
        /\ merge'.held = By(Guest) /\ merge'.desks = Desks
    BY <1>3, <2>1, ReadsTyped DEF WhatGuestOwns, Merging
  <2>3. HeldInv'
    <3>1. \A m \in By(Guest) : rows[m].author = Guest
      BY DEF By
    <3>2. \A t \in Touched : Guest \in Sitting(t)
      BY DEF Touched
    <3> QED
      BY <1>0, <1>1, <2>2, <3>1, <3>2, ReadsTyped DEF HeldInv
  <2>4. NothingStaysBehind'
    BY <1>1, <1>3, <2>2 DEF NothingStaysBehind, GuestOwnsSomething
  <2> QED
    BY <2>2, <2>3, <2>4 DEF MergeInv, LookedInv
<1>4. CASE MergeIsQuiet \/ BeginMerge
  BY <1>0, <1>3, <1>4 DEF MergeIsQuiet, BeginMerge
<1>5. CASE MergeNotReady \/ RollBackMerge \/ CrashMerge \/ RetryMerge \/ RepeatMerge
  BY <1>0, <1>2, <1>5 DEF MergeNotReady, RollBackMerge, CrashMerge, RetryMerge, RepeatMerge
<1> QED
  BY <1>4, <1>5

\* What the merge reads on its way: a direct thread of the guest is dead, or is
\* to have the key its people will make, alone or with its winner.
LEMMA LookMerges ==
    ASSUME TypeInv, KeysInv, MergeInv, LookMerge
    PROVE  /\ merge' \in Merging /\ MergeInv'
           /\ UNCHANGED <<threads, opened, rows, posted, stray, erase>>
<1> DEFINE stale   == merge.touched \cap Direct
           dead    == {t \in stale : Cardinality(Carried(Sitting(t))) < 2}
           renamed == {t \in stale \ dead : NewKey(t) # threads[t].key}
           folds   == {p \in renamed \X Direct : p[2] \in Winners(p[1])}
           both    == {t \in Live : {Guest, Survivor} \subseteq Sitting(t)}
           keys    == [t \in {r \in renamed : Winners(r) = {}} |-> NewKey(t)]
           seen    == UNION {SeenBy(p) : p \in folds}
           marks   == [t \in both |-> [own |-> threads[t].seats[Survivor],
                                       guest |-> threads[t].seats[Guest]]]
<1>0. UNCHANGED <<threads, opened, rows, posted, stray, erase>>
  BY DEF LookMerge, database
<1>1. /\ merge.phase = "begun"
      /\ merge' = [merge EXCEPT !.phase = "looked", !.dead = dead, !.folds = folds,
                                !.keys = keys, !.seen = seen, !.upto = posted,
                                !.seated = Touched, !.marks = marks]
  BY DEF LookMerge
<1>2. ASSUME NEW t \in stale
      PROVE  /\ Guest \in threads[t].key /\ threads[t].key \in Pairs
             /\ t \in dead => Sitting(t) \subseteq {Guest, Survivor}
             /\ t \notin dead => /\ NewKey(t) = Carried(threads[t].key) /\ NewKey(t) \in Pairs
                                 /\ t \in renamed
  <2>1. t \in Direct /\ t \in Live /\ t \in merge.touched
    BY DEF Direct
  <2>2. Guest \in Sitting(t)
    BY <1>1, <2>1 DEF MergeInv, HeldInv
  <2>3. /\ Sitting(t) \subseteq threads[t].key /\ Guest \in threads[t].key
        /\ threads[t].key \in Pairs
    BY <2>1, <2>2, GuestsKey DEF KeysInv, WellKeyed
  <2>4. t \in dead => Sitting(t) \subseteq {Guest, Survivor}
    BY <2>2, <2>3, CarriedPair
  <2>5. ASSUME t \notin dead
        PROVE  NewKey(t) = Carried(threads[t].key) /\ NewKey(t) \in Pairs /\ t \in renamed
    <3>1. ~(Cardinality(Carried(Sitting(t))) < 2)
      BY <2>5
    <3>2. Sitting(t) = threads[t].key /\ Carried(threads[t].key) \in Pairs
      BY <2>2, <2>3, <3>1, CarriedPair
    <3>3. NewKey(t) = Carried(threads[t].key) /\ NewKey(t) # threads[t].key
      BY <2>3, <3>2, CarriedIs DEF NewKey
    <3> QED
      BY <2>5, <3>2, <3>3
  <2> QED
    BY <2>3, <2>4, <2>5
<1>3. dead \subseteq stale /\ renamed \subseteq stale \ dead /\ stale \subseteq Live
      /\ Live \subseteq Nat /\ posted \in Nat /\ Direct \subseteq Live
  BY ReadsTyped DEF Direct, TypeInv
<1>4. /\ \A p \in folds : p[1] \in renamed /\ p[2] \in Direct /\ threads[p[2]].key = NewKey(p[1])
      /\ \A t \in renamed : Winners(t) # {} => \E p \in folds : p[1] = t
      /\ folds \subseteq Nat \X Nat
  <2>1. \A p \in folds : /\ p[1] \in renamed /\ p[2] \in Direct /\ p[2] \in Winners(p[1])
                         /\ p = <<p[1], p[2]>>
    OBVIOUS
  <2>2. ASSUME NEW t \in renamed, NEW w \in Winners(t) PROVE <<t, w>> \in folds
    BY DEF Winners
  <2>3. \A t \in renamed : Winners(t) # {} => \E p \in folds : p[1] = t
    <3> TAKE t \in renamed
    <3>1. ASSUME NEW w \in Winners(t) PROVE <<t, w>> \in folds /\ <<t, w>>[1] = t
      BY <2>2
    <3> QED
      BY <3>1
  <2>4. \A p \in folds : threads[p[2]].key = NewKey(p[1])
    BY <2>1 DEF Winners
  <2>5. folds \subseteq Nat \X Nat
    <3>1. renamed \subseteq Nat /\ Direct \subseteq Nat
      BY <1>3
    <3> QED
      BY <3>1
  <2> QED
    BY <2>1, <2>3, <2>4, <2>5
<1>5. /\ DOMAIN keys = {r \in renamed : Winners(r) = {}}
      /\ \A t \in DOMAIN keys : keys[t] = NewKey(t)
  OBVIOUS
<1>6. seen \subseteq DOMAIN rows /\ \A m \in DOMAIN rows : \A p \in folds : rows[m].thread = p[1] => m \in seen
  BY DEF SeenBy, Said
<1>7. both \subseteq Touched /\ DOMAIN marks = both
  BY DEF Touched
<1>8. marks \in Marked
  <2>1. ASSUME NEW t \in both
        PROVE  threads[t].seats[Survivor] \in Nat /\ threads[t].seats[Guest] \in Nat
    BY RowsTyped, SeatsAre DEF Sitting
  <2>2. marks \in [both -> [own : Nat, guest : Nat]] /\ both \in SUBSET Nat
    BY <1>3, <2>1
  <2> QED
    BY <2>2 DEF Marked
<1>9. keys \in Keyed
  <2>1. \A t \in DOMAIN keys : keys[t] \in SUBSET Users /\ t \in Nat
    BY <1>2, <1>3, <1>5, PairSize
  <2>2. keys = [t \in DOMAIN keys |-> keys[t]]
    OBVIOUS
  <2> HIDE DEF keys
  <2>3. keys \in [DOMAIN keys -> SUBSET Users] /\ DOMAIN keys \in SUBSET Nat
    BY <2>1, <2>2
  <2> QED
    BY <2>3 DEF Keyed
<1> HIDE DEF marks, seen, keys, folds, both
<1>10. dead \in SUBSET Nat /\ seen \in SUBSET Nat
  BY <1>3, <1>6, ReadsTyped
<1> HIDE DEF dead, renamed, stale
<1>11. /\ merge' \in Merging /\ merge'.phase = "looked" /\ merge'.dead = dead
       /\ merge'.folds = folds /\ merge'.keys = keys /\ merge'.seen = seen
       /\ merge'.upto = posted /\ merge'.seated = Touched /\ merge'.marks = marks
       /\ merge'.touched = merge.touched /\ merge'.held = merge.held /\ merge'.desks = merge.desks
  <2>1. merge \in Merging
    BY DEF TypeInv
  <2> QED
    BY <1>1, <1>3, <1>4, <1>8, <1>9, <1>10, <2>1, ReadsTyped DEF Merging
<1>12. /\ Touched' = Touched /\ Direct' = Direct /\ Live' = Live
       /\ \A t : Sitting(t)' = Sitting(t)
  BY <1>0 DEF Touched, Direct, Live, Sitting
<1>13. HeldInv'
  BY <1>0, <1>1, <1>11, <1>12 DEF MergeInv, HeldInv
<1>14. \A t, key : Renamed(t, key)' <=> Renamed(t, key)
  BY <1>0, <1>11, <1>12 DEF Renamed
<1>15. /\ \A t \in DOMAIN keys : Renamed(t, keys[t])
       /\ \A p \in folds : Renamed(p[1], threads[p[2]].key)
  BY <1>2, <1>3, <1>4, <1>5 DEF Renamed, stale
<1>16. Losers' = {p[1] : p \in folds}
  BY <1>11 DEF Losers
<1>17. merge.touched \cap Direct \subseteq dead \cup DOMAIN keys \cup Losers'
  <2>1. ASSUME NEW t \in stale, t \notin dead PROVE t \in DOMAIN keys \cup Losers'
    BY <1>2, <1>4, <1>5, <1>16, <2>1
  <2> QED
    BY <2>1 DEF stale
<1>18. \A m \in DOMAIN rows : rows[m].thread \in Losers' => m \in seen
  BY <1>6, <1>16
<1>19. LookedInv'
  <2>1. /\ Touched \subseteq Live /\ merge.touched \cap Live \subseteq Touched
        /\ Touched \subseteq merge.touched \cup stray
        /\ \A t \in Touched : Guest \in Sitting(t)
    BY <1>1 DEF MergeInv, HeldInv, Touched
  <2>2. dead \subseteq merge.touched \cap Direct /\ \A t \in dead : Sitting(t) \subseteq {Guest, Survivor}
    BY <1>2, <1>3 DEF stale
  <2>3. \A p \in folds : p[2] \in Direct' /\ Renamed(p[1], threads[p[2]].key)'
    BY <1>0, <1>4, <1>12, <1>14, <1>15
  <2>4. posted <= posted
    BY <1>3
  <2> QED
    BY <1>0, <1>7, <1>11, <1>12, <1>14, <1>15, <1>17, <1>18, <2>1, <2>2, <2>3, <2>4 DEF LookedInv
<1>20. NothingStaysBehind'
  BY <1>11 DEF NothingStaysBehind
<1> QED
  BY <1>0, <1>11, <1>13, <1>19, <1>20 DEF MergeInv

(***************************************************************************)
(* The commit of a merge.                                                  *)
(***************************************************************************)
\* It is about to write, and no constraint refuses what it writes.
Committing == TypeInv /\ PlacesInv /\ KeysInv /\ MergeInv /\ merge.phase = "looked" /\ ~MergeCollides

\* The winner of a fold is not the guest's: it stays, under the key it has; and it
\* wins one thread.
LEMMA Folding ==
    ASSUME Committing
    PROVE  /\ \A l \in Losers :
                 /\ l \in merge.touched \cap Direct /\ l \in merge.seated
                 /\ Guest \in threads[l].key /\ Carried(threads[l].key) \in Pairs
                 /\ WinnerOf(l) \in Direct /\ Guest \notin threads[WinnerOf(l)].key
                 /\ threads[WinnerOf(l)].key = Carried(threads[l].key)
                 /\ Locked(WinnerOf(l))
           /\ \A l, k \in Losers : WinnerOf(l) = WinnerOf(k) => l = k
           /\ \A t \in merge.seated \cap Direct : Guest \in threads[t].key
           /\ \A t \in merge.dead : t \in merge.seated \cap Direct
           /\ \A t \in DOMAIN merge.keys : t \in merge.seated \cap Direct
<1>1. LookedInv /\ merge.phase = "looked" /\ merge.folds \subseteq Nat \X Nat
      /\ Direct \subseteq Live
  BY DEF Committing, MergeInv, TypeInv, Merging, Direct
<1>2. ASSUME NEW l \in Losers
      PROVE  WinnerOf(l) \in Live /\ <<l, WinnerOf(l)>> \in merge.folds
  <2>1. PICK p \in merge.folds : p[1] = l
    BY DEF Losers
  <2>2. p = <<l, p[2]>> /\ p[2] \in Live
    BY <1>1, <2>1 DEF LookedInv
  <2>3. \E w \in Live : <<l, w>> \in merge.folds
    BY <2>1, <2>2
  <2> QED
    BY <2>3 DEF WinnerOf
<1>3. ASSUME NEW l \in Losers
      PROVE  /\ l \in merge.touched \cap Direct /\ l \in merge.seated
             /\ Guest \in threads[l].key /\ Carried(threads[l].key) \in Pairs
             /\ WinnerOf(l) \in Direct /\ Guest \notin threads[WinnerOf(l)].key
             /\ threads[WinnerOf(l)].key = Carried(threads[l].key)
             /\ Locked(WinnerOf(l))
  <2> DEFINE w == WinnerOf(l)
  <2>1. <<l, w>> \in merge.folds /\ <<l, w>>[1] = l /\ <<l, w>>[2] = w
    BY <1>2
  <2> HIDE DEF w
  <2>2. w \in Direct /\ Renamed(l, threads[w].key)
    BY <1>1, <2>1 DEF LookedInv
  <2>3. l \in merge.seated
    BY <1>1, <2>2 DEF LookedInv, Renamed
  <2>4. Guest \notin threads[w].key
    BY <2>2, CarriedIs DEF Renamed
  <2>5. Locked(w)
    BY <1>1, <2>1 DEF Locked
  <2> QED
    BY <2>2, <2>3, <2>4, <2>5 DEF Renamed, w
<1>4. ASSUME NEW l \in Losers, NEW k \in Losers, WinnerOf(l) = WinnerOf(k)
      PROVE  l = k
  <2>1. /\ threads[l].key \in Pairs /\ threads[k].key \in Pairs
        /\ Carried(threads[l].key) = Carried(threads[k].key)
    BY <1>3, <1>4 DEF Committing, KeysInv, WellKeyed
  <2>2. threads[l].key = threads[k].key
    BY <1>3, <2>1, CarriedApart
  <2> QED
    BY <1>3, <2>2 DEF Committing, KeysInv
<1>5. \A t \in merge.seated \cap Direct : Guest \in threads[t].key
  BY <1>1, GuestsKey DEF Committing, LookedInv
<1>6. \A t \in merge.dead : t \in merge.seated \cap Direct
  BY <1>1 DEF LookedInv
<1>7. \A t \in DOMAIN merge.keys : t \in merge.seated \cap Direct
  BY <1>1 DEF LookedInv, Renamed
<1> QED
  BY <1>3, <1>4, <1>5, <1>6, <1>7

\* The seats of one thread: the guest's is carried, no mark moves back but one its
\* reader has moved since the merge read it.
LEMMA SeatsAfterAre ==
    ASSUME Committing, NEW t \in Live
    PROVE  /\ SeatsAfter(t) \in Seats
           /\ t \in merge.seated => /\ DOMAIN SeatsAfter(t) \subseteq Carried(Sitting(t))
                                    /\ Guest \notin DOMAIN SeatsAfter(t)
           /\ t \notin merge.seated => DOMAIN SeatsAfter(t) = Sitting(t)
           /\ \A u \in Sitting(t) \cap DOMAIN SeatsAfter(t) :
                 \/ SeatsAfter(t)[u] >= threads[t].seats[u]
                 \/ /\ u = Survivor /\ t \in DOMAIN merge.marks
                    /\ merge.marks[t].own < threads[t].seats[u]
<1> DEFINE seats == threads[t].seats
           after == IF t \in DOMAIN merge.marks THEN Sitting(t) \ {Guest}
                    ELSE IF t \in merge.seated THEN Carried(Sitting(t)) ELSE Sitting(t)
           value(u) == IF u = Survivor /\ MarkIsSaved(t) THEN FoldedMark(merge.marks[t])
                       ELSE IF u \in Sitting(t) THEN seats[u] ELSE seats[Guest]
<1>1. LookedInv /\ merge.phase = "looked" /\ merge \in Merging
  BY DEF Committing, MergeInv, TypeInv
<1>2. SeatsAfter(t) = [u \in after |-> value(u)]
  BY DEF SeatsAfter
<1>3. Sitting(t) \in SUBSET Users /\ \A u \in Sitting(t) : seats[u] \in Nat
  BY RowsTyped, SeatsAre DEF Sitting, Committing
<1>4. t \in merge.seated => Guest \in Sitting(t)
  BY <1>1 DEF LookedInv
<1>5. /\ after \in SUBSET Users
      /\ t \in merge.seated => after \subseteq Carried(Sitting(t)) /\ Guest \notin after
      /\ t \notin merge.seated => after = Sitting(t)
      /\ \A u \in after \ Sitting(t) : Guest \in Sitting(t)
  BY <1>1, <1>3, <1>4, CarriedIs DEF LookedInv
<1>6. ASSUME t \in DOMAIN merge.marks
      PROVE  /\ FoldedMark(merge.marks[t]) \in Nat /\ merge.marks[t].own \in Nat
             /\ FoldedMark(merge.marks[t]) >= merge.marks[t].own
  <2>1. merge.marks[t].own \in Nat /\ merge.marks[t].guest \in Nat
    <3>1. merge.marks \in Marked
      BY <1>1 DEF Merging
    <3>2. PICK S \in SUBSET Nat : merge.marks \in [S -> [own : Nat, guest : Nat]]
      BY <3>1 DEF Marked
    <3>3. merge.marks[t] \in [own : Nat, guest : Nat]
      BY <1>6, <3>2
    <3> QED
      BY <3>3
  <2> QED
    BY <2>1, MaxOfTwo DEF FoldedMark
<1>7. \A u \in after : value(u) \in Nat
  BY <1>3, <1>5, <1>6 DEF MarkIsSaved
<1>8. \A u \in Sitting(t) \cap after :
         \/ value(u) >= seats[u]
         \/ u = Survivor /\ t \in DOMAIN merge.marks /\ merge.marks[t].own < seats[u]
  <2> TAKE u \in Sitting(t) \cap after
  <2>1. CASE u = Survivor /\ MarkIsSaved(t)
    <3>1. t \in DOMAIN merge.marks /\ value(u) = FoldedMark(merge.marks[t])
      BY <2>1 DEF MarkIsSaved
    <3> HIDE DEF value
    <3> QED
      BY <1>3, <1>6, <2>1, <3>1
  <2>2. CASE ~(u = Survivor /\ MarkIsSaved(t))
    <3>1. value(u) = seats[u] /\ seats[u] \in Nat
      BY <1>3, <2>2
    <3> HIDE DEF value
    <3> QED
      BY <3>1
  <2> QED
    BY <2>1, <2>2
<1> HIDE DEF value, after, seats
<1>9. /\ DOMAIN SeatsAfter(t) = after /\ \A u \in after : SeatsAfter(t)[u] = value(u)
      /\ SeatsAfter(t) \in [after -> Nat]
  BY <1>2, <1>7
<1>10. SeatsAfter(t) \in Seats
  BY <1>5, <1>9, SeatsAre
<1> QED
  BY <1>5, <1>8, <1>9, <1>10 DEF seats

\* Folded messages keep their order, above all the winner has, and within what it
\* counts for them.
LEMMA FoldedPlaces ==
    ASSUME Committing, NEW m \in Remaining, rows[m].thread \in Losers
    PROVE  LET l == rows[m].thread
               w == WinnerOf(l)
           IN  /\ FoldedSeq(m, w) \in Nat
               /\ FoldedSeq(m, w) > threads[w].last
               /\ FoldedSeq(m, w) <= threads[w].last + Cardinality(Said(l) \cap merge.seen)
               /\ \A k \in Remaining : rows[k].thread = l /\ rows[m].seq < rows[k].seq =>
                     FoldedSeq(m, w) < FoldedSeq(k, w)
<1> DEFINE l == rows[m].thread
           w == WinnerOf(l)
           S == Said(l) \cap merge.seen
           A(x) == {k \in S : rows[k].seq <= rows[x].seq}
<1>1. /\ TypeInv /\ w \in Live /\ threads[w].last \in Nat
      /\ \A x \in DOMAIN rows : rows[x].seq \in Nat
  BY Folding, RowsTyped DEF Committing, Direct
<1>2. \A x \in Remaining : rows[x].thread = l => x \in S /\ x \in DOMAIN rows
  BY DEF Remaining, Said
<1>3. S \subseteq DOMAIN rows /\ S = Said(l) \cap merge.seen
  BY DEF Said
<1>4. \A x \in Remaining : rows[x].thread = l =>
         FoldedSeq(x, w) = threads[w].last + Cardinality(A(x))
  BY DEF FoldedSeq
<1> HIDE DEF S, w
<1>5. \A x \in DOMAIN rows : /\ IsFiniteSet(A(x)) /\ Cardinality(A(x)) \in Nat
                             /\ Cardinality(A(x)) <= Cardinality(S)
  <2> TAKE x \in DOMAIN rows
  <2>1. A(x) \subseteq S /\ IsFiniteSet(S)
    BY <1>1, <1>3, RowsCounted
  <2> HIDE DEF A
  <2> QED
    BY <2>1, FS_Subset, FS_CardinalityType
<1>6. m \in DOMAIN rows /\ m \in S /\ m \in A(m)
  BY <1>1, <1>2
<1>7. Cardinality(A(m)) # 0
  BY <1>5, <1>6, FS_EmptySet
<1>8. ASSUME NEW k \in Remaining, rows[k].thread = l, rows[m].seq < rows[k].seq
      PROVE  Cardinality(A(m)) < Cardinality(A(k))
  <2>1. k \in A(k) /\ k \notin A(m) /\ k \in DOMAIN rows
    BY <1>1, <1>2, <1>6, <1>8
  <2>2. A(m) \subseteq A(k)
    BY <1>1, <1>3, <1>6, <1>8, <2>1
  <2> HIDE DEF A
  <2>3. A(m) # A(k) /\ IsFiniteSet(A(k))
    BY <1>5, <2>1
  <2>4. Cardinality(A(m)) <= Cardinality(A(k)) /\ Cardinality(A(m)) # Cardinality(A(k))
    BY <2>2, <2>3, FS_Subset
  <2> QED
    BY <1>5, <1>6, <2>1, <2>4
<1> HIDE DEF A
<1>9. Cardinality(A(m)) \in Nat /\ Cardinality(A(m)) <= Cardinality(S) /\ Cardinality(S) \in Nat
  BY <1>1, <1>3, <1>5, <1>6, RowsCounted
<1>10. FoldedSeq(m, w) = threads[w].last + Cardinality(A(m))
  BY <1>4
<1>11. \A k \in Remaining : rows[k].thread = l /\ rows[m].seq < rows[k].seq =>
          FoldedSeq(m, w) < FoldedSeq(k, w)
  <2> TAKE k \in Remaining
  <2> HAVE rows[k].thread = l /\ rows[m].seq < rows[k].seq
  <2>1. /\ FoldedSeq(k, w) = threads[w].last + Cardinality(A(k))
        /\ Cardinality(A(k)) \in Nat /\ Cardinality(A(m)) < Cardinality(A(k))
    BY <1>2, <1>4, <1>5, <1>8
  <2> QED
    BY <1>1, <1>9, <1>10, <2>1
<1>12. /\ FoldedSeq(m, w) \in Nat /\ FoldedSeq(m, w) > threads[w].last
       /\ FoldedSeq(m, w) <= threads[w].last + Cardinality(S)
  BY <1>1, <1>7, <1>9, <1>10
<1> QED
  BY <1>3, <1>11, <1>12 DEF w

\* What stays of a thread: its kind, its key or the one its people make, its seats
\* as they were carried, and with a winner those of the thread it won.
LEMMA CommitThread ==
    ASSUME Committing, NEW t \in Live \ (merge.dead \cup Losers)
    PROVE  LET x == MergedThread(t)
           IN  /\ x \in Row /\ x.kind = threads[t].kind
               /\ x.key = IF t \in DOMAIN merge.keys THEN merge.keys[t] ELSE threads[t].key
               /\ t \in merge.desks => x.operator = Survivor
               /\ x.last >= threads[t].last
               /\ \A l \in Losers : WinnerOf(l) = t =>
                     x.last = threads[t].last + Cardinality(Said(l) \cap merge.seen)
               /\ \/ /\ \E l \in Losers : WinnerOf(l) = t
                     /\ DOMAIN x.seats \subseteq threads[t].key
                     /\ Guest \notin threads[t].key /\ t \notin DOMAIN merge.keys
                  \/ DOMAIN x.seats = DOMAIN SeatsAfter(t)
               /\ \A u \in Sitting(t) \cap DOMAIN x.seats :
                     \/ x.seats[u] >= threads[t].seats[u]
                     \/ /\ u = Survivor /\ t \in DOMAIN merge.marks
                        /\ merge.marks[t].own < threads[t].seats[u]
<1> DEFINE losers == {l \in Losers : WinnerOf(l) = t}
           seats  == SeatsAfter(t)
           joiners == (UNION {DOMAIN SeatsAfter(l) : l \in losers}) \ DOMAIN seats
           value(u) == IF u \in DOMAIN seats THEN seats[u]
                       ELSE SeatsAfter(CHOOSE l \in losers : u \in DOMAIN SeatsAfter(l))[u]
           all == [u \in DOMAIN seats \cup joiners |-> value(u)]
           came == Cardinality(merge.seen \cap UNION {Said(l) : l \in losers})
           key == IF t \in DOMAIN merge.keys THEN merge.keys[t] ELSE threads[t].key
           operator == IF t \in merge.desks THEN Survivor ELSE threads[t].operator
<1>1. MergedThread(t) = [threads[t] EXCEPT !.operator = operator, !.key = key,
                                           !.last = threads[t].last + came, !.seats = all]
  <2>1. threads[t] \in Row
    BY RowsTyped DEF Committing
  <2> QED
    BY <2>1 DEF MergedThread, Row
<1>2. /\ TypeInv /\ threads[t] \in Row /\ threads[t].last \in Nat
      /\ LookedInv /\ merge.phase = "looked"
      /\ \A l \in losers : l \in Live /\ l \in Losers /\ WinnerOf(l) = t
  BY RowsTyped, Folding DEF Committing, MergeInv, Direct
<1>3. came \in Nat /\ \A l \in losers : came = Cardinality(Said(l) \cap merge.seen)
  <2>1. merge.seen \cap UNION {Said(l) : l \in losers} \subseteq DOMAIN rows
    BY DEF Said
  <2>2. ASSUME NEW l \in losers
        PROVE  merge.seen \cap UNION {Said(k) : k \in losers} = Said(l) \cap merge.seen
    <3>1. losers = {l}
      BY <1>2, Folding
    <3> HIDE DEF losers
    <3> QED
      BY <3>1
  <2> QED
    BY <1>2, <2>1, <2>2, RowsCounted
<1>4. seats \in Seats /\ DOMAIN seats \in SUBSET Users /\ \A u \in DOMAIN seats : seats[u] \in Nat
  BY SeatsAfterAre, SeatsAre
<1>5. all \in Seats
  <2>1. ASSUME NEW u \in joiners
        PROVE  u \in Users /\ value(u) \in Nat
    <3> DEFINE l == CHOOSE k \in losers : u \in DOMAIN SeatsAfter(k)
    <3>1. l \in losers /\ u \in DOMAIN SeatsAfter(l)
      <4>1. \E k \in losers : u \in DOMAIN SeatsAfter(k)
        BY <2>1
      <4> HIDE DEF losers
      <4> QED
        BY <4>1
    <3>2. value(u) = SeatsAfter(l)[u]
      BY <2>1
    <3> HIDE DEF l, value, losers
    <3>3. SeatsAfter(l) \in Seats
      BY <1>2, <3>1, SeatsAfterAre
    <3> QED
      BY <3>1, <3>2, <3>3, SeatsAre
  <2>2. \A u \in DOMAIN seats : value(u) \in Nat
    BY <1>4
  <2> HIDE DEF value, joiners, seats
  <2>3. all \in [DOMAIN seats \cup joiners -> Nat] /\ DOMAIN seats \cup joiners \in SUBSET Users
    BY <1>4, <2>1, <2>2
  <2> QED
    BY <2>3, SeatsAre
<1>6. DOMAIN all = DOMAIN seats \cup joiners /\ \A u \in DOMAIN seats : all[u] = seats[u]
  OBVIOUS
<1>7. key \in SUBSET Users
  <2>1. ASSUME t \in DOMAIN merge.keys PROVE merge.keys[t] \in SUBSET Users
    BY <1>2, <2>1, PairSize DEF LookedInv, Renamed
  <2> QED
    BY <1>2, <2>1 DEF Row
<1>8. operator \in Users \cup {NoUser} /\ (t \in merge.desks => operator = Survivor)
  BY <1>2, UsersAssumption DEF Row
<1>9. \/ /\ \E l \in Losers : WinnerOf(l) = t
         /\ DOMAIN all \subseteq threads[t].key
         /\ Guest \notin threads[t].key /\ t \notin DOMAIN merge.keys /\ joiners \cap Sitting(t) = {}
      \/ joiners = {}
  <2>1. CASE losers = {}
    BY <2>1
  <2>2. CASE losers # {}
    <3>1. PICK l \in Losers : WinnerOf(l) = t
      BY <2>2
    <3>2. t \in Direct /\ Guest \notin threads[t].key /\ threads[t].key = Carried(threads[l].key)
      BY <3>1, Folding
    <3>3. t \notin merge.seated /\ t \notin DOMAIN merge.keys
      BY <3>2, Folding
    <3>4. DOMAIN seats = Sitting(t)
      BY <3>3, SeatsAfterAre
    <3>5. Sitting(t) \subseteq threads[t].key
      BY <3>2, CarriedIs DEF Committing, KeysInv, WellKeyed
    <3>6. DOMAIN SeatsAfter(l) \subseteq threads[t].key
      <4>1. /\ l \in Direct /\ l \in Live /\ l \in merge.seated /\ Guest \in Sitting(l)
        BY <1>2, Folding DEF Direct, LookedInv
      <4>2. Sitting(l) \subseteq threads[l].key
        BY <4>1, GuestsKey DEF Committing
      <4>3. DOMAIN SeatsAfter(l) \subseteq Carried(Sitting(l))
        BY <4>1, SeatsAfterAre
      <4> QED
        BY <3>2, <4>2, <4>3, CarriedIs
    <3>7. losers = {l}
      BY <3>1, Folding
    <3>8. joiners = DOMAIN SeatsAfter(l) \ DOMAIN seats
      <4> HIDE DEF losers, seats
      <4> QED
        BY <3>7
    <3> HIDE DEF joiners, seats, losers, all
    <3> QED
      BY <1>6, <3>1, <3>2, <3>3, <3>4, <3>5, <3>6, <3>8
  <2> QED
    BY <2>1, <2>2
<1>10. \A u \in Sitting(t) \cap DOMAIN all :
          \/ all[u] >= threads[t].seats[u]
          \/ u = Survivor /\ t \in DOMAIN merge.marks /\ merge.marks[t].own < threads[t].seats[u]
  <2> HIDE DEF joiners, all
  <2> QED
    BY <1>6, <1>9, SeatsAfterAre
<1> HIDE DEF all, came, key, operator, joiners, losers
<1>11. /\ MergedThread(t) \in Row /\ MergedThread(t).kind = threads[t].kind
       /\ MergedThread(t).key = key /\ MergedThread(t).operator = operator
       /\ MergedThread(t).last = threads[t].last + came /\ MergedThread(t).seats = all
  <2>1. threads[t].last + came \in Nat
    BY <1>2, <1>3
  <2> QED
    BY <1>1, <1>2, <1>5, <1>7, <1>8, <2>1 DEF Row
<1>12. threads[t].last + came >= threads[t].last
  BY <1>2, <1>3
<1>13. \A l \in Losers : WinnerOf(l) = t =>
          threads[t].last + came = threads[t].last + Cardinality(Said(l) \cap merge.seen)
  BY <1>3 DEF losers
<1>14. joiners = {} => DOMAIN all = DOMAIN seats
  BY <1>6
<1> QED
  BY <1>8, <1>9, <1>10, <1>11, <1>12, <1>13, <1>14 DEF key

\* What stays of a message: it is the survivor's if it was the guest's, and it stays
\* where it was or goes behind all that the winner has.
LEMMA CommitRow ==
    ASSUME Committing, NEW m \in Remaining
    PROVE  LET r == MergedRow(m)
           IN  /\ r \in Message
               /\ r.author = IF m \in merge.held THEN Survivor ELSE rows[m].author
               /\ r.life = rows[m].life
               /\ rows[m].thread \notin Losers =>
                     r.thread = rows[m].thread /\ r.seq = rows[m].seq
               /\ rows[m].thread \in Losers =>
                     /\ r.thread = WinnerOf(rows[m].thread)
                     /\ r.seq = FoldedSeq(m, r.thread) /\ r.rev = r.seq
               /\ r.thread \in Live \ (merge.dead \cup Losers)
<1> DEFINE a == IF m \in merge.held THEN Survivor ELSE rows[m].author
           r1 == [rows[m] EXCEPT !.author = IF m \in merge.held THEN Survivor ELSE @]
           w == WinnerOf(rows[m].thread)
           n == FoldedSeq(m, w)
           c == FoldedCid(m, w)
           r2 == [r1 EXCEPT !.thread = w, !.seq = n, !.rev = n, !.cid = c]
<1>1. /\ m \in DOMAIN rows /\ rows[m] \in Message /\ rows[m].thread \in Live
      /\ rows[m].thread \notin merge.dead
  BY RowsTyped DEF Remaining, Committing, PlacesInv
<1>2. a \in Users \cup {NoUser}
  BY <1>1, UsersAssumption DEF Message
<1>3. /\ r1 \in Message /\ r1.author = a /\ r1.thread = rows[m].thread /\ r1.seq = rows[m].seq
      /\ r1.cid = rows[m].cid /\ r1.life = rows[m].life
  BY <1>1, <1>2 DEF Message
<1> HIDE DEF a
<1>4. MergedRow(m) = IF r1.thread \notin Losers THEN r1
                     ELSE [r1 EXCEPT !.thread = WinnerOf(r1.thread),
                                     !.seq = FoldedSeq(m, WinnerOf(r1.thread)),
                                     !.rev = FoldedSeq(m, WinnerOf(r1.thread)),
                                     !.cid = FoldedCid(m, WinnerOf(r1.thread))]
  BY Zenon DEF MergedRow
<1>5. MergedRow(m) = IF rows[m].thread \notin Losers THEN r1 ELSE r2
  <2> HIDE DEF r1
  <2> QED
    BY <1>3, <1>4
<1>6. CASE rows[m].thread \notin Losers
  <2>1. MergedRow(m) = r1
    BY <1>5, <1>6
  <2> HIDE DEF r1
  <2> QED
    BY <1>1, <1>3, <1>6, <2>1 DEF a
<1>7. CASE rows[m].thread \in Losers
  <2>1. n \in Nat
    BY <1>7, FoldedPlaces
  <2>2. w \in Direct /\ w \in Live /\ w \notin merge.dead /\ w \notin Losers /\ w \in Nat
    <3>1. w \in Direct /\ Guest \notin threads[w].key
      BY <1>7, Folding
    <3>2. w \notin Losers
      BY <3>1, Folding
    <3>3. w \notin merge.dead
      BY <3>1, Folding
    <3> HIDE DEF w
    <3> QED
      BY <3>1, <3>2, <3>3, ReadsTyped DEF Direct, Committing
  <2>3. c \in Cids \cup {NoCid}
    BY <1>1, <1>3 DEF FoldedCid, Message
  <2> HIDE DEF w, n, c, r1
  <2>4. /\ r2 \in Message /\ r2.author = a /\ r2.thread = w /\ r2.seq = n /\ r2.rev = n
        /\ r2.life = rows[m].life
    BY <1>3, <2>1, <2>2, <2>3 DEF Message
  <2>5. MergedRow(m) = r2
    BY <1>5, <1>7
  <2> HIDE DEF r2
  <2> QED
    BY <1>7, <2>2, <2>4, <2>5 DEF a, w, n
<1> QED
  BY <1>6, <1>7

\* The tables as the commit leaves them.
LEMMA CommitIs ==
    ASSUME TypeInv, PlacesInv, KeysInv, MergeInv, CommitMerge
    PROVE  /\ Committing
           /\ DOMAIN threads' = Live \ (merge.dead \cup Losers)
           /\ \A t \in DOMAIN threads' : threads'[t] = MergedThread(t) /\ t \in Live
           /\ DOMAIN rows' = Remaining
           /\ \A m \in DOMAIN rows' : rows'[m] = MergedRow(m) /\ m \in DOMAIN rows
           /\ UNCHANGED <<opened, posted, stray, erase>>
           /\ merge'.phase = "done" /\ merge'.touched = merge.touched
           /\ merge'.held = merge.held /\ merge'.desks = merge.desks /\ merge' \in Merging
           /\ TablesTyped'
<1>1. Committing
  BY DEF Committing, CommitMerge
<1>2. /\ threads' = [t \in Live \ (merge.dead \cup Losers) |-> MergedThread(t)]
      /\ rows' = [m \in Remaining |-> MergedRow(m)] /\ Remaining \subseteq DOMAIN rows
      /\ UNCHANGED <<opened, posted, stray, erase>>
  BY DEF CommitMerge, Remaining
<1>3. /\ merge'.phase = "done" /\ merge'.touched = merge.touched
      /\ merge'.held = merge.held /\ merge'.desks = merge.desks /\ merge' \in Merging
  <2>1. NoMerge("done") \in Merging /\ NoMerge("done").phase = "done" /\ merge \in Merging
    BY NoMergeIs DEF TypeInv
  <2>2. merge' = [NoMerge("done") EXCEPT !.touched = merge.touched, !.held = merge.held,
                                         !.desks = merge.desks]
    BY DEF CommitMerge
  <2> QED
    BY <2>1, <2>2 DEF Merging
<1>4. \A t \in Live \ (merge.dead \cup Losers) : MergedThread(t) \in Row
  BY <1>1, CommitThread
<1>5. \A m \in Remaining : MergedRow(m) \in Message
  BY <1>1, CommitRow
<1>6. TablesTyped'
  <2>1. threads' \in [Live \ (merge.dead \cup Losers) -> Row] /\ rows' \in [Remaining -> Message]
    BY <1>2, <1>4, <1>5
  <2> QED
    BY <1>2, <2>1 DEF TablesTyped, TypeInv, Live
<1> QED
  BY <1>1, <1>2, <1>3, <1>6

\* Moved messages have places of their own.
LEMMA CommitPlaces ==
    ASSUME TypeInv, PlacesInv, KeysInv, MergeInv, CommitMerge
    PROVE  PlacesInv'
<1>1. Committing
  BY CommitIs
<1>2. ASSUME NEW m \in DOMAIN rows'
      PROVE  /\ m \in Remaining /\ m \in DOMAIN rows /\ rows'[m] = MergedRow(m)
             /\ rows'[m].thread \in DOMAIN threads' /\ rows'[m].thread \in Live
             /\ rows[m].thread \notin Losers =>
                   rows'[m].thread = rows[m].thread /\ rows'[m].seq = rows[m].seq
             /\ rows[m].thread \in Losers =>
                   /\ rows'[m].thread = WinnerOf(rows[m].thread)
                   /\ rows'[m].seq = FoldedSeq(m, rows'[m].thread)
                   /\ rows'[m].seq > threads[rows'[m].thread].last
             /\ rows'[m].seq \in Nat /\ rows[m].seq \in Nat
             /\ threads[rows'[m].thread].last \in Nat /\ threads'[rows'[m].thread].last \in Nat
  <2>1. m \in Remaining /\ m \in DOMAIN rows /\ rows'[m] = MergedRow(m)
    BY CommitIs
  <2>2. /\ rows'[m].thread \in DOMAIN threads' /\ rows'[m].thread \in Live
        /\ rows[m].thread \notin Losers =>
              rows'[m].thread = rows[m].thread /\ rows'[m].seq = rows[m].seq
        /\ rows[m].thread \in Losers =>
              /\ rows'[m].thread = WinnerOf(rows[m].thread)
              /\ rows'[m].seq = FoldedSeq(m, rows'[m].thread)
        /\ rows'[m].seq \in Nat
    BY <1>1, <2>1, CommitRow, CommitIs DEF Message
  <2>3. rows[m].thread \in Losers => rows'[m].seq > threads[rows'[m].thread].last
    BY <1>1, <2>1, <2>2, FoldedPlaces
  <2>4. /\ rows[m].seq \in Nat /\ threads[rows'[m].thread].last \in Nat
        /\ threads'[rows'[m].thread].last \in Nat
    BY <2>1, <2>2, RowsTyped, CommitIs DEF TablesTyped, Row
  <2> QED
    BY <2>1, <2>2, <2>3, <2>4
<1>3. ASSUME NEW m \in DOMAIN rows'
      PROVE  rows'[m].seq <= threads'[rows'[m].thread].last
  <2> DEFINE t == rows'[m].thread
  <2>1. t \in Live \ (merge.dead \cup Losers) /\ threads'[t] = MergedThread(t)
    BY <1>2, CommitIs
  <2>2. CASE rows[m].thread \in Losers
    <3>1. /\ t = WinnerOf(rows[m].thread) /\ rows'[m].seq = FoldedSeq(m, t) /\ m \in Remaining
      BY <1>2, <2>2
    <3>2. threads'[t].last = threads[t].last + Cardinality(Said(rows[m].thread) \cap merge.seen)
      BY <1>1, <2>1, <2>2, <3>1, CommitThread
    <3>3. rows'[m].seq <= threads[t].last + Cardinality(Said(rows[m].thread) \cap merge.seen)
      BY <1>1, <2>2, <3>1, FoldedPlaces
    <3> QED
      BY <3>2, <3>3
  <2>3. CASE rows[m].thread \notin Losers
    <3>1. t = rows[m].thread /\ rows'[m].seq = rows[m].seq /\ rows[m].seq <= threads[t].last
      BY <1>2, <2>3 DEF PlacesInv
    <3>2. threads'[t].last >= threads[t].last
      BY <1>1, <2>1, CommitThread
    <3> QED
      BY <1>2, <3>1, <3>2
  <2> QED
    BY <2>2, <2>3
<1>4. ASSUME NEW m \in DOMAIN rows', NEW k \in DOMAIN rows' \ {m}, rows'[k].thread = rows'[m].thread
      PROVE  rows'[k].seq # rows'[m].seq
  <2>1. CASE rows[m].thread \notin Losers /\ rows[k].thread \notin Losers
    BY <1>2, <1>4, <2>1 DEF PlacesInv
  <2>2. ASSUME NEW i \in DOMAIN rows', NEW j \in DOMAIN rows',
               rows[i].thread \in Losers, rows[j].thread \notin Losers,
               rows'[i].thread = rows'[j].thread
        PROVE  rows'[i].seq # rows'[j].seq
    <3>1. rows'[i].seq > threads[rows'[j].thread].last
      BY <1>2, <2>2
    <3>2. rows'[j].seq <= threads[rows'[j].thread].last
      BY <1>2, <2>2 DEF PlacesInv
    <3> QED
      BY <1>2, <3>1, <3>2
  <2>3. CASE rows[m].thread \in Losers /\ rows[k].thread \in Losers
    <3>1. rows[m].thread = rows[k].thread
      BY <1>1, <1>2, <1>4, <2>3, Folding
    <3>2. rows[m].seq # rows[k].seq
      BY <1>2, <3>1 DEF PlacesInv
    <3>3. rows[m].seq < rows[k].seq \/ rows[k].seq < rows[m].seq
      BY <1>2, <3>2
    <3>4. /\ rows'[m].seq = FoldedSeq(m, WinnerOf(rows[m].thread))
          /\ rows'[k].seq = FoldedSeq(k, WinnerOf(rows[m].thread))
      BY <1>2, <2>3, <3>1
    <3>5. rows'[m].seq < rows'[k].seq \/ rows'[k].seq < rows'[m].seq
      BY <1>1, <1>2, <2>3, <3>1, <3>3, <3>4, FoldedPlaces
    <3> QED
      BY <1>2, <3>5
  <2> QED
    BY <1>4, <2>1, <2>2, <2>3
<1> QED
  BY <1>2, <1>3, <1>4 DEF PlacesInv, Live

\* Two people keep one thread: a renamed one takes a key nobody has, and whoever
\* comes into a winner is in its key.
LEMMA CommitKeys ==
    ASSUME TypeInv, PlacesInv, KeysInv, MergeInv, CommitMerge
    PROVE  KeysInv'
<1>1. Committing /\ stray' = stray /\ LookedInv /\ merge.phase = "looked" /\ ~MergeCollides
  BY CommitIs DEF Committing, MergeInv
<1>2. ASSUME NEW t \in Direct'
      PROVE  /\ t \in Live \ (merge.dead \cup Losers) /\ t \in Direct
             /\ threads'[t] = MergedThread(t)
             /\ threads'[t].key = IF t \in DOMAIN merge.keys THEN merge.keys[t] ELSE threads[t].key
  <2>1. t \in Live \ (merge.dead \cup Losers) /\ threads'[t] = MergedThread(t)
        /\ threads'[t].kind = "direct"
    BY CommitIs DEF Direct, Live
  <2>2. /\ threads'[t].kind = threads[t].kind
        /\ threads'[t].key = IF t \in DOMAIN merge.keys THEN merge.keys[t] ELSE threads[t].key
    BY <1>1, <2>1, CommitThread
  <2> QED
    BY <2>1, <2>2 DEF Direct
<1>3. ASSUME NEW t \in Direct' PROVE WellKeyed(t)'
  <2>1. /\ threads[t].key \in Pairs /\ t \in Live \ (merge.dead \cup Losers)
        /\ threads'[t] = MergedThread(t) /\ t \in Direct /\ t \in Live
    BY <1>2 DEF KeysInv, WellKeyed
  <2>2. CASE t \in DOMAIN merge.keys
    <3>1. /\ threads'[t].key = merge.keys[t] /\ merge.keys[t] \in Pairs
          /\ merge.keys[t] = Carried(threads[t].key)
      BY <1>1, <1>2, <2>2 DEF LookedInv, Renamed
    <3>2. t \in merge.seated /\ Sitting(t) \subseteq threads[t].key
      BY <1>1, <2>1, <2>2, Folding, GuestsKey DEF LookedInv
    <3>3. DOMAIN threads'[t].seats = DOMAIN SeatsAfter(t)
      BY <1>1, <2>1, <2>2, CommitThread
    <3>4. DOMAIN SeatsAfter(t) \subseteq Carried(Sitting(t))
      BY <1>1, <2>1, <3>2, SeatsAfterAre
    <3>5. DOMAIN threads'[t].seats \subseteq threads'[t].key
      BY <3>1, <3>2, <3>3, <3>4, CarriedIs
    <3> QED
      BY <3>1, <3>5 DEF WellKeyed, Sitting
  <2>3. CASE t \notin DOMAIN merge.keys
    <3>1. threads'[t].key = threads[t].key
      BY <1>2, <2>3
    <3>2. CASE DOMAIN threads'[t].seats \subseteq threads[t].key
      BY <2>1, <3>1, <3>2 DEF WellKeyed, Sitting
    <3>3. CASE DOMAIN threads'[t].seats = DOMAIN SeatsAfter(t) /\ t \notin merge.seated
      <4>1. DOMAIN threads'[t].seats = Sitting(t)
        BY <1>1, <2>1, <3>3, SeatsAfterAre
      <4>2. WellKeyed(t)
        BY <2>1 DEF KeysInv
      <4> QED
        BY <1>1, <3>1, <4>1, <4>2 DEF WellKeyed, Sitting
    <3>4. CASE DOMAIN threads'[t].seats = DOMAIN SeatsAfter(t) /\ t \in merge.seated
      <4>1. t \in stray
        BY <1>1, <2>1, <2>3, <3>4 DEF LookedInv
      <4>2. DOMAIN threads'[t].seats \subseteq Carried(Sitting(t))
        BY <1>1, <2>1, <3>4, SeatsAfterAre
      <4>3. Sitting(t) \subseteq threads[t].key
        BY <1>1, <2>1, <3>4, GuestsKey DEF LookedInv
      <4>4. DOMAIN threads'[t].seats \subseteq Carried(threads[t].key)
        BY <4>2, <4>3, CarriedIs
      <4> QED
        BY <1>1, <2>1, <3>1, <4>1, <4>4 DEF WellKeyed, Sitting
    <3>5. \/ DOMAIN threads'[t].seats \subseteq threads[t].key
          \/ DOMAIN threads'[t].seats = DOMAIN SeatsAfter(t)
      BY <1>1, <2>1, CommitThread
    <3> QED
      BY <3>2, <3>3, <3>4, <3>5
  <2> QED
    BY <2>2, <2>3
<1>4. ASSUME NEW t \in Direct', NEW w \in Direct' \ {t}
      PROVE  threads'[w].key # threads'[t].key
  <2>1. t \in Direct /\ w \in Direct \ {t} /\ threads[w].key # threads[t].key
    BY <1>2 DEF KeysInv
  <2>2. CASE t \notin DOMAIN merge.keys /\ w \notin DOMAIN merge.keys
    BY <1>2, <2>1, <2>2
  <2>3. CASE t \in DOMAIN merge.keys /\ w \notin DOMAIN merge.keys
    BY <1>1, <1>2, <2>1, <2>3 DEF MergeCollides
  <2>4. CASE t \notin DOMAIN merge.keys /\ w \in DOMAIN merge.keys
    BY <1>1, <1>2, <2>1, <2>4 DEF MergeCollides
  <2>5. CASE t \in DOMAIN merge.keys /\ w \in DOMAIN merge.keys
    <3>1. /\ Renamed(t, merge.keys[t]) /\ Renamed(w, merge.keys[w])
          /\ threads'[t].key = merge.keys[t] /\ threads'[w].key = merge.keys[w]
      BY <1>1, <1>2, <2>5 DEF LookedInv
    <3>2. threads[t].key \in Pairs /\ threads[w].key \in Pairs
      BY <2>1 DEF KeysInv, WellKeyed
    <3>3. ASSUME merge.keys[t] = merge.keys[w] PROVE FALSE
      <4>1. /\ Carried(threads[t].key) = Carried(threads[w].key)
            /\ Carried(threads[t].key) \in Pairs
            /\ Guest \in threads[t].key /\ Guest \in threads[w].key
        BY <3>1, <3>3 DEF Renamed
      <4> QED
        BY <2>1, <3>2, <4>1, CarriedApart
    <3> QED
      BY <3>1, <3>3
  <2> QED
    BY <2>2, <2>3, <2>4, <2>5
<1> QED
  BY <1>3, <1>4 DEF KeysInv

\* Nothing of what the merge read as the guest's is the guest's any more.
LEMMA CommitMerges ==
    ASSUME TypeInv, PlacesInv, KeysInv, MergeInv, CommitMerge
    PROVE  MergeInv'
<1>1. /\ Committing /\ HeldInv /\ LookedInv /\ merge.phase = "looked" /\ Guest # Survivor
      /\ merge'.phase = "done" /\ merge'.touched = merge.touched /\ merge'.held = merge.held
      /\ merge'.desks = merge.desks /\ opened' = opened /\ posted' = posted
  BY CommitIs, UsersAssumption DEF MergeInv, Committing
<1>2. ASSUME NEW m \in merge.held \cap DOMAIN rows' PROVE rows'[m].author # Guest
  <2>1. m \in Remaining /\ rows'[m] = MergedRow(m)
    BY CommitIs
  <2> QED
    BY <1>1, <2>1, CommitRow
<1>3. ASSUME NEW t \in merge.touched \cap DOMAIN threads'
      PROVE  Guest \notin DOMAIN threads'[t].seats
  <2>1. t \in Live \ (merge.dead \cup Losers) /\ t \in Live /\ threads'[t] = MergedThread(t)
    BY CommitIs
  <2>2. t \in merge.seated
    BY <1>1, <2>1 DEF LookedInv
  <2>3. Guest \notin DOMAIN SeatsAfter(t)
    BY <1>1, <2>1, <2>2, SeatsAfterAre
  <2>4. \/ Guest \notin DOMAIN threads'[t].seats
        \/ DOMAIN threads'[t].seats = DOMAIN SeatsAfter(t)
    BY <1>1, <2>1, CommitThread
  <2> QED
    BY <2>3, <2>4
<1>4. ASSUME NEW t \in merge.desks \cap DOMAIN threads'
      PROVE  threads'[t].operator # Guest
  <2>1. t \in Live \ (merge.dead \cup Losers) /\ threads'[t] = MergedThread(t)
    BY CommitIs
  <2> QED
    BY <1>1, <2>1, CommitThread
<1>5. NothingStaysBehind'
  BY <1>1, <1>2, <1>3, <1>4 DEF NothingStaysBehind, By, Touched, Desks, Sitting, Live
<1>6. HeldInv' /\ LookedInv'
  BY <1>1 DEF HeldInv, LookedInv
<1> QED
  BY <1>5, <1>6 DEF MergeInv

\* The merge takes no message from an account that is deleted, and a deletion that
\* is to come to a thread that was folded will find it gone.
LEMMA CommitErases ==
    ASSUME TypeInv, PlacesInv, KeysInv, MergeInv, CommitMerge, NEW u \in Leavers, EraseOf(u)
    PROVE  EraseOf(u)'
<1>1. /\ Committing /\ HeldInv /\ merge.phase = "looked" /\ u # Guest /\ Guest # NoUser
      /\ opened' = opened /\ posted' = posted /\ erase' = erase /\ u # NoUser
  BY CommitIs, UsersAssumption DEF MergeInv, Committing
<1>2. ASSUME NEW m \in erase[u].held \cap DOMAIN rows'
      PROVE  /\ m \in DOMAIN rows /\ rows'[m].life = rows[m].life
             /\ rows[m].thread \notin Losers => rows'[m].thread = rows[m].thread
             /\ rows[m].life = "live" => rows[m].author = u /\ rows'[m].author = u
  <2>1. m \in Remaining /\ m \in DOMAIN rows /\ rows'[m] = MergedRow(m)
    BY CommitIs
  <2>2. rows[m].life = "live" => rows[m].author = u /\ m \notin merge.held
    BY <1>1, <2>1 DEF EraseOf, HeldInv
  <2> QED
    BY <1>1, <2>1, <2>2, CommitRow
<1>3. erase[u].held \cap Standing(u)' \subseteq erase[u].held \cap Standing(u)
  BY <1>2 DEF Standing, By
<1>4. erase[u].phase = "erasing" => Reaching(u)'
  <2> SUFFICES ASSUME erase[u].phase = "erasing" PROVE Reaching(u)'
    OBVIOUS
  <2>1. Reaching(u)
    BY DEF EraseOf
  <2>2. Live' = Live \ (merge.dead \cup Losers)
    BY CommitIs DEF Live
  <2>3. ASSUME NEW t \in erase[u].todo, t \notin Live' PROVE Reaching(u)'
    BY <1>1, <2>3 DEF Reaching
  <2>4. ASSUME erase[u].todo \subseteq Live' PROVE Reaching(u)'
    <3>1. \A m \in erase[u].held \cap Standing(u) : rows[m].thread \in erase[u].todo
      BY <2>1, <2>2, <2>4 DEF Reaching
    <3>2. ASSUME NEW m \in erase[u].held \cap Standing(u)'
          PROVE  rows'[m].thread \in erase[u].todo
      <4>1. m \in DOMAIN rows' /\ rows[m].thread \in erase[u].todo
        BY <1>3, <3>1 DEF Standing, By
      <4>2. rows[m].thread \notin Losers
        BY <2>2, <2>4, <4>1
      <4> QED
        BY <1>2, <4>1, <4>2
    <3> QED
      BY <1>1, <3>2 DEF Reaching
  <2> QED
    BY <2>3, <2>4
<1> QED
  BY <1>1, <1>2, <1>3, <1>4 DEF EraseOf

(***************************************************************************)
(* The invariant is inductive.                                             *)
(***************************************************************************)
\* It holds of whatever there was before.
LEMMA InvInit == Init => IInv
<1> SUFFICES ASSUME Init PROVE IInv
  OBVIOUS
<1>1. PICK h \in Histories : /\ threads = h.threads /\ opened = Newest(DOMAIN h.threads)
                             /\ rows = h.rows /\ posted = Newest(DOMAIN h.rows)
  BY DEF Init
<1>2. /\ threads = [t \in Live |-> threads[t]]
      /\ \A t \in Live : \E people \in SUBSET Users : threads[t] \in Thread(people)
      /\ rows \in [DOMAIN rows -> Message]
      /\ opened \in Nat /\ Live \subseteq 1 .. opened
      /\ posted \in Nat /\ DOMAIN rows \subseteq 1 .. posted
  BY <1>1, HistoriesAssumption DEF Live
<1>3. ASSUME NEW t \in Live PROVE threads[t] \in Row
  <2>1. PICK people \in SUBSET Users : threads[t] \in Thread(people)
    BY <1>2
  <2>2. \A s \in [people -> Nat] : s \in Seats
    BY SeatsAre
  <2> QED
    BY <2>1, <2>2 DEF Thread, Row
<1>4. /\ merge = NoMerge("waiting") /\ erase = [u \in Leavers |-> NoErase("waiting")]
  BY DEF Init
<1>5. /\ merge \in Merging /\ merge.phase = "waiting"
      /\ merge.touched = {} /\ merge.held = {} /\ merge.desks = {}
  BY <1>4, NoMergeIs
<1>6. NoErase("waiting") \in Erasing
  BY DEF NoErase, Erasing
<1>7. TypeInv
  <2>1. threads \in [Live -> Row]
    BY <1>2, <1>3
  <2>2. erase \in [Leavers -> Erasing]
    BY <1>4, <1>6
  <2> QED
    BY <1>2, <1>5, <2>1, <2>2 DEF TypeInv
<1>8. PlacesInv
  BY <1>1, HistoriesAssumption DEF PlacesInv, Live
<1>9. KeysInv
  <2>1. \A t \in Live :
           threads[t].kind = "direct" =>
              /\ threads[t].key \in Pairs /\ Sitting(t) \subseteq threads[t].key
              /\ \A w \in Live \ {t} :
                    threads[w].kind = "direct" => threads[w].key # threads[t].key
    <3>1. \A t \in DOMAIN h.threads :
             h.threads[t].kind = "direct" =>
                /\ h.threads[t].key \in Pairs
                /\ DOMAIN h.threads[t].seats \subseteq h.threads[t].key
                /\ \A w \in DOMAIN h.threads \ {t} :
                      h.threads[w].kind = "direct" => h.threads[w].key # h.threads[t].key
      BY HistoriesAssumption
    <3>2. threads = h.threads
      BY <1>1
    <3> QED
      BY <3>1, <3>2 DEF Live, Sitting
  <2> QED
    BY <2>1 DEF KeysInv, WellKeyed, Direct
<1>10. MergeInv
  BY <1>5 DEF MergeInv, HeldInv, LookedInv, NothingStaysBehind
<1>11. EraseInv
  <2>1. \A u \in Leavers : /\ erase[u].held = {} /\ erase[u].todo = {} /\ erase[u].phase = "waiting"
    BY <1>4 DEF NoErase
  <2> QED
    BY <2>1 DEF EraseInv, EraseOf
<1> QED
  BY <1>7, <1>8, <1>9, <1>10, <1>11 DEF IInv

\* People's steps, and a deletion's.
LEMMA GentleStep ==
    ASSUME IInv, Gentle, TablesTyped', merge' = merge,
           erase' = erase \/ \E u \in Leavers : Erases(u)
    PROVE  IInv'
<1>1. TypeInv'
  BY DEF IInv, TypeInv, TablesTyped, Erases, Live
<1>2. PlacesInv' /\ KeysInv' /\ MergeInv'
  BY <1>1, GentlePlaces, GentleKeys, GentleMerge DEF IInv
<1>3. EraseInv'
  <2>1. ASSUME NEW u \in Leavers, erase'[u] = erase[u] PROVE EraseOf(u)'
    BY <1>1, <2>1, GentleErase DEF IInv, EraseInv
  <2>2. ASSUME NEW u \in Leavers PROVE erase'[u] = erase[u] \/ EraseOf(u)'
    BY DEF Erases
  <2> QED
    BY <2>1, <2>2 DEF EraseInv
<1> QED
  BY <1>1, <1>2, <1>3 DEF IInv

\* A merge's own.
LEMMA QuietStep ==
    ASSUME IInv, UNCHANGED <<threads, opened, rows, posted, stray, erase>>,
           merge' \in Merging, MergeInv'
    PROVE  IInv'
<1>1. Gentle /\ TablesTyped'
  BY StillGentle DEF IInv
<1>2. TypeInv'
  BY <1>1 DEF IInv, TypeInv, TablesTyped, Live
<1>3. PlacesInv' /\ KeysInv'
  BY <1>1, <1>2, GentlePlaces, GentleKeys DEF IInv
<1>4. EraseInv'
  BY <1>1, <1>2, GentleErase DEF IInv, EraseInv
<1> QED
  BY <1>2, <1>3, <1>4 DEF IInv

\* What every step is: gentle, with one delivery at most; of a merge alone; or a
\* commit.
StepKinds ==
    \/ /\ Gentle /\ TablesTyped' /\ merge' = merge
       /\ erase' = erase \/ \E u \in Leavers : Erases(u)
    \/ /\ UNCHANGED <<threads, opened, rows, posted, stray, erase>>
       /\ merge' \in Merging /\ MergeInv'
    \/ CommitMerge

\* It is one of the three.
LEMMA EveryStep ==
    ASSUME IInv, [Next]_vars PROVE StepKinds
<1> USE DEF IInv
<1>1. CASE UNCHANGED vars
  BY <1>1, StillGentle DEF vars, StepKinds
<1>2. CASE Provision
  BY <1>2, StillGentle DEF Provision, StepKinds, deliveries
<1>3. ASSUME NEW u \in Users, NEW v \in Users, OpenDirect(u, v) PROVE StepKinds
  BY <1>3, OpenDirectGentle DEF OpenDirect, Add, StepKinds, deliveries
<1>4. ASSUME NEW room \in Rooms, Convene(room) PROVE StepKinds
  BY <1>4, ConveneGentle DEF Convene, Add, StepKinds, deliveries
<1>5. ASSUME NEW u \in Users, NEW t \in Live, Read(u, t) PROVE StepKinds
  BY <1>5, ReadGentle DEF Read, StepKinds, deliveries
<1>6. ASSUME NEW u \in Users, NEW t \in Live, NEW c \in Cids \cup {NoCid}, Post(u, t, c)
      PROVE  StepKinds
  BY <1>6, PostGentle DEF Post, StepKinds, deliveries
<1>7. ASSUME NEW m \in DOMAIN rows, Delete(m) \/ Edit(m) PROVE StepKinds
  <2>1. PICK life \in {"live", "gone", "back"} :
           Revise(m, life) /\ (rows[m].life # "live" => life # "live")
    BY <1>7 DEF Delete, Edit
  <2> QED
    BY <2>1, ReviseGentle DEF Revise, StepKinds, deliveries
<1>8. CASE \/ MergeIsQuiet \/ MergeNotReady \/ BeginMerge
           \/ RollBackMerge \/ CrashMerge \/ RetryMerge \/ RepeatMerge
  BY <1>8, DeliveryMerges DEF StepKinds
<1>9. CASE LookMerge
  BY <1>9, LookMerges DEF StepKinds
<1>10. CASE CommitMerge
  BY <1>10 DEF StepKinds
<1>11. ASSUME NEW u \in Leavers,
              \/ BeginErase(u) \/ EraseFails(u) \/ FinishErase(u)
              \/ CrashErase(u) \/ RetryErase(u) \/ RepeatErase(u)
       PROVE  StepKinds
  <2>1. Erases(u) /\ UNCHANGED <<database, merge, stray>>
    BY <1>11, DeliveryErases DEF EraseInv
  <2> QED
    BY <2>1, StillGentle DEF StepKinds, database
<1>12. ASSUME NEW u \in Leavers, RemoveMembership(u) PROVE StepKinds
  BY <1>12, RemoveGentle, RemoveErases DEF StepKinds, RemoveMembership, EraseInv
<1>13. ASSUME NEW u \in Leavers, NEW t \in erase[u].todo, EraseThread(u, t) PROVE StepKinds
  <2>1. t \in Live /\ merge' = merge
    BY <1>13 DEF EraseThread
  <2> QED
    BY <1>13, <2>1, EraseThreadGentle, EraseThreadErases DEF StepKinds, EraseInv
<1>14. ASSUME NEW u \in Leavers, NEW t \in erase[u].todo, Clean(u, t) PROVE StepKinds
  <2>1. t \in Nat /\ merge' = merge
    BY <1>14 DEF Clean, TypeInv, Erasing
  <2> QED
    BY <1>14, <2>1, CleanGentle, CleanErases DEF StepKinds, EraseInv
<1>15. CASE People
  BY <1>2, <1>3, <1>4, <1>5, <1>6, <1>15, <1>7 DEF People
<1>16. CASE MergeMoves \/ CrashMerge \/ RepeatMerge
  BY <1>8, <1>9, <1>10, <1>16 DEF MergeMoves
<1>17. ASSUME NEW u \in Leavers, EraseMoves(u) \/ CrashErase(u) \/ RepeatErase(u) PROVE StepKinds
  BY <1>11, <1>12, <1>13, <1>14, <1>17 DEF EraseMoves
<1> QED
  BY <1>1, <1>15, <1>16, <1>17 DEF Next

\* Every step keeps the invariant.
LEMMA InvStep == IInv /\ [Next]_vars => IInv'
<1> SUFFICES ASSUME IInv, [Next]_vars PROVE IInv'
  OBVIOUS
<1>1. CASE CommitMerge
  <2>1. TypeInv'
    BY <1>1, CommitIs DEF IInv, TypeInv, TablesTyped, Live
  <2>2. PlacesInv' /\ KeysInv' /\ MergeInv'
    BY <1>1, CommitPlaces, CommitKeys, CommitMerges DEF IInv
  <2>3. EraseInv'
    BY <1>1, CommitErases DEF IInv, EraseInv
  <2> QED
    BY <2>1, <2>2, <2>3 DEF IInv
<1> QED
  BY <1>1, EveryStep, GentleStep, QuietStep DEF StepKinds

\* The invariant holds always.
THEOREM Inductive == Spec => []IInv
BY InvInit, InvStep, PTL DEF Spec

(***************************************************************************)
(* The properties.                                                         *)
(***************************************************************************)
(***************************************************************************)
(* An acknowledged merge left nothing of the guest's behind, for any       *)
(* threads, messages and desks and whatever people and deletions did       *)
(* between its reads and its commit.                                       *)
(***************************************************************************)
THEOREM MergedLeavesNothing == Spec => []NothingStaysBehind
<1>1. IInv => NothingStaysBehind
  BY DEF IInv, MergeInv
<1> QED
  BY <1>1, Inductive, PTL

(***************************************************************************)
(* An acknowledged deletion has left nothing standing of what its account  *)
(* had said when the delivery began, also what a merge has folded into     *)
(* another thread, whatever was deleted or edited meanwhile: all of it is  *)
(* tombstones.                                                             *)
(***************************************************************************)
THEOREM DeletionReaches == Spec => []ErasureReaches
<1>1. ASSUME EraseInv PROVE ErasureReaches
  BY <1>1 DEF EraseInv, EraseOf, ErasureReaches, Standing, By
<1> QED
  BY <1>1, Inductive, PTL DEF IInv

(***************************************************************************)
(* Two people keep one thread, and only they sit there.                    *)
(***************************************************************************)
THEOREM PairsKeepOneThread == Spec => []OneThreadPerPair
<1>1. ASSUME KeysInv PROVE OneThreadPerPair
  <2>1. ASSUME NEW t \in Direct \ stray
        PROVE  Sitting(t) \subseteq threads[t].key /\ threads[t].key \in Pairs
    BY <1>1 DEF KeysInv, WellKeyed
  <2>2. ASSUME NEW t \in Direct \ stray, NEW w \in Direct \ (stray \cup {t}),
               Cardinality(Sitting(t)) = 2, Sitting(w) = Sitting(t)
        PROVE  FALSE
    <3>1. Sitting(t) = threads[t].key /\ Sitting(w) = threads[w].key
      BY <2>1, <2>2, PairSize
    <3> QED
      BY <1>1, <2>2, <3>1 DEF KeysInv
  <2> QED
    BY <2>1, <2>2 DEF OneThreadPerPair
<1>2. IInv => OneThreadPerPair
  BY <1>1 DEF IInv
<1> QED
  BY <1>2, Inductive, PTL

\* Messages of one thread that a step leaves stay together and in their order, and
\* where they are moved they go behind.
LEMMA CommitOrder ==
    ASSUME IInv, CommitMerge, NEW m \in DOMAIN rows \cap DOMAIN rows'
    PROVE  /\ \A k \in DOMAIN rows \cap DOMAIN rows' :
                 rows[m].thread = rows[k].thread /\ rows[m].seq < rows[k].seq =>
                     rows'[m].thread = rows'[k].thread /\ rows'[m].seq < rows'[k].seq
           /\ rows'[m].thread # rows[m].thread =>
                 /\ rows'[m].rev > threads[rows'[m].thread].last
                 /\ \A k \in DOMAIN rows' \ {m} :
                       rows'[k].thread = rows'[m].thread => rows'[k].seq # rows'[m].seq
<1>1. Committing /\ PlacesInv'
  BY CommitIs, CommitPlaces DEF IInv
<1>2. ASSUME NEW k \in DOMAIN rows'
      PROVE  /\ k \in Remaining
             /\ rows[k].thread \notin Losers =>
                   rows'[k].thread = rows[k].thread /\ rows'[k].seq = rows[k].seq
             /\ rows[k].thread \in Losers =>
                   /\ rows'[k].thread = WinnerOf(rows[k].thread)
                   /\ rows'[k].seq = FoldedSeq(k, WinnerOf(rows[k].thread))
                   /\ rows'[k].rev = rows'[k].seq
                   /\ rows'[k].seq > threads[rows'[k].thread].last
  <2>1. k \in Remaining /\ rows'[k] = MergedRow(k)
    BY <1>2, CommitIs DEF IInv
  <2>2. rows[k].thread \in Losers =>
           FoldedSeq(k, WinnerOf(rows[k].thread)) > threads[WinnerOf(rows[k].thread)].last
    BY <1>1, <2>1, FoldedPlaces
  <2> QED
    BY <1>1, <2>1, <2>2, CommitRow
<1>3. ASSUME NEW k \in DOMAIN rows', rows[m].thread = rows[k].thread, rows[m].seq < rows[k].seq
      PROVE  rows'[m].thread = rows'[k].thread /\ rows'[m].seq < rows'[k].seq
  <2>1. CASE rows[m].thread \notin Losers
    BY <1>2, <1>3, <2>1
  <2>2. CASE rows[m].thread \in Losers
    <3>1. FoldedSeq(m, WinnerOf(rows[m].thread)) < FoldedSeq(k, WinnerOf(rows[m].thread))
      BY <1>1, <1>2, <1>3, <2>2, FoldedPlaces
    <3> QED
      BY <1>2, <1>3, <2>2, <3>1
  <2> QED
    BY <2>1, <2>2
<1>4. rows'[m].thread # rows[m].thread =>
         /\ rows'[m].rev > threads[rows'[m].thread].last
         /\ \A k \in DOMAIN rows' \ {m} :
               rows'[k].thread = rows'[m].thread => rows'[k].seq # rows'[m].seq
  BY <1>1, <1>2 DEF PlacesInv
<1> QED
  BY <1>3, <1>4

(***************************************************************************)
(* Threads keep their messages together, in their order; what a merge      *)
(* moves lands behind all that the clients of the other thread have seen.  *)
(***************************************************************************)
THEOREM OrderIsKept == Spec => ThreadsKeepTheirOrder
<1> DEFINE Kept2(m) ==
       /\ \A k \in DOMAIN rows \cap DOMAIN rows' :
             rows[m].thread = rows[k].thread /\ rows[m].seq < rows[k].seq =>
                 rows'[m].thread = rows'[k].thread /\ rows'[m].seq < rows'[k].seq
       /\ rows'[m].thread # rows[m].thread =>
             /\ rows'[m].rev > threads[rows'[m].thread].last
             /\ \A k \in DOMAIN rows' \ {m} :
                   rows'[k].thread = rows'[m].thread => rows'[k].seq # rows'[m].seq
<1>1. ASSUME IInv, [Next]_vars PROVE \A m \in DOMAIN rows \cap DOMAIN rows' : Kept2(m)
  <2>1. CASE Gentle
    <3>1. \A m \in DOMAIN rows \cap DOMAIN rows' :
             rows'[m].thread = rows[m].thread /\ rows'[m].seq = rows[m].seq
      BY <2>1 DEF Gentle, SameRow
    <3> QED
      BY <3>1
  <2>2. CASE UNCHANGED rows
    BY <2>2
  <2>3. CASE CommitMerge
    BY <1>1, <2>3, CommitOrder
  <2> QED
    BY <1>1, <2>1, <2>2, <2>3, EveryStep DEF StepKinds
<1>2. IInv /\ [Next]_vars => [\A m \in DOMAIN rows \cap DOMAIN rows' : Kept2(m)]_vars
  BY <1>1
<1> QED
  BY <1>2, Inductive, PTL DEF Spec, ThreadsKeepTheirOrder

\* What a commit deletes was of a dead thread, or of a loser and not read; and it
\* takes back no mark but one moved since it was read.
LEMMA CommitLoses ==
    ASSUME IInv, CommitMerge
    PROVE  /\ \A m \in DOMAIN rows \ DOMAIN rows' :
                 \/ Cardinality(Sitting(rows[m].thread)) < 2
                 \/ Sitting(rows[m].thread) = {Guest, Survivor}
                 \/ m > merge.upto /\ rows[m].thread \in Losers
           /\ \A t \in Live \cap DOMAIN threads' :
                 \A u \in Sitting(t) \cap DOMAIN threads'[t].seats :
                    \/ threads'[t].seats[u] >= threads[t].seats[u]
                    \/ /\ u = Survivor /\ merge.phase = "looked" /\ t \in DOMAIN merge.marks
                       /\ merge.marks[t].own < threads[t].seats[u]
<1>1. /\ Committing /\ LookedInv /\ merge.phase = "looked"
      /\ DOMAIN rows' = Remaining /\ merge.upto \in Nat
      /\ DOMAIN threads' = Live \ (merge.dead \cup Losers)
      /\ \A t \in DOMAIN threads' : threads'[t] = MergedThread(t)
  BY CommitIs DEF IInv, Committing, MergeInv, TypeInv, Merging
<1>2. ASSUME NEW m \in DOMAIN rows \ DOMAIN rows'
      PROVE  \/ Cardinality(Sitting(rows[m].thread)) < 2
             \/ Sitting(rows[m].thread) = {Guest, Survivor}
             \/ m > merge.upto /\ rows[m].thread \in Losers
  <2> DEFINE t == rows[m].thread
  <2>1. CASE t \in merge.dead
    <3>1. Guest \in Sitting(t) /\ Sitting(t) \subseteq {Guest, Survivor}
      BY <1>1, <2>1, Folding DEF LookedInv
    <3>2. Sitting(t) = {Guest} \/ Sitting(t) = {Guest, Survivor}
      BY <3>1
    <3>3. Sitting(t) = {Guest} => Cardinality(Sitting(t)) = 1
      BY FS_Singleton
    <3> QED
      BY <3>2, <3>3
  <2>2. CASE t \notin merge.dead
    <3>1. t \in Losers /\ m \notin merge.seen
      BY <1>1, <2>2 DEF Remaining
    <3>2. ~(m <= merge.upto)
      BY <1>1, <3>1 DEF LookedInv
    <3>3. m \in Nat
      BY ReadsTyped DEF IInv
    <3> QED
      BY <1>1, <3>1, <3>2, <3>3
  <2> QED
    BY <2>1, <2>2
<1>3. ASSUME NEW t \in Live \cap DOMAIN threads'
      PROVE  \A u \in Sitting(t) \cap DOMAIN threads'[t].seats :
                \/ threads'[t].seats[u] >= threads[t].seats[u]
                \/ /\ u = Survivor /\ t \in DOMAIN merge.marks
                   /\ merge.marks[t].own < threads[t].seats[u]
  <2>1. t \in Live \ (merge.dead \cup Losers) /\ threads'[t] = MergedThread(t)
    BY <1>1
  <2> QED
    BY <1>1, <2>1, CommitThread
<1> QED
  BY <1>1, <1>2, <1>3

(***************************************************************************)
(* No message is lost but with a thread that has no two people, or that    *)
(* was folded after it was read; no read mark moves back but one its       *)
(* reader moved between the merge's read and its save.                     *)
(***************************************************************************)
THEOREM NothingGetsLost == Spec => NothingIsLost
<1> DEFINE RowGoes(m) ==
       LET t == rows[m].thread
       IN  \/ Cardinality(Sitting(t)) < 2 \/ Sitting(t) = {Guest, Survivor}
           \/ m > merge.upto /\ t \in Losers
           MarkStays(t, u) ==
       \/ threads'[t].seats[u] >= threads[t].seats[u]
       \/ /\ u = Survivor /\ merge.phase = "looked" /\ t \in DOMAIN merge.marks
          /\ merge.marks[t].own < threads[t].seats[u]
           Loss == /\ \A m \in DOMAIN rows \ DOMAIN rows' : RowGoes(m)
                   /\ \A t \in Live \cap DOMAIN threads' :
                         \A u \in Sitting(t) \cap DOMAIN threads'[t].seats : MarkStays(t, u)
<1>1. ASSUME IInv, [Next]_vars PROVE Loss
  <2>1. CASE Gentle
    <3>1. \A m \in DOMAIN rows \ DOMAIN rows' :
             rows[m].thread \in Live /\ Cardinality(Sitting(rows[m].thread)) < 2
      BY <1>1, <2>1 DEF Gentle, IInv, PlacesInv
    <3>2. \A t \in Live \cap DOMAIN threads' :
             \A u \in DOMAIN threads'[t].seats : threads'[t].seats[u] >= threads[t].seats[u]
      BY <2>1 DEF Gentle, Softer
    <3> QED
      BY <3>1, <3>2
  <2>2. CASE UNCHANGED <<threads, opened, rows, posted, stray, erase>>
    <3>1. Gentle
      BY <1>1, <2>2, StillGentle DEF IInv
    <3> QED
      BY <2>1, <3>1
  <2>3. CASE CommitMerge
    BY <1>1, <2>3, CommitLoses
  <2> QED
    BY <1>1, <2>1, <2>2, <2>3, EveryStep DEF StepKinds
<1>2. IInv /\ [Next]_vars => [Loss]_vars
  BY <1>1
<1> QED
  BY <1>2, Inductive, PTL DEF Spec, NothingIsLost

===============================================================================
