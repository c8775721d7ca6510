---------------------------- MODULE CdnClaimsProofs ----------------------------
(***************************************************************************)
(* Media and claims, for any senders, workers, media and attachments, and  *)
(* any number of failures: nothing live is released or reaped, and nothing *)
(* dead stays claimed.                                                     *)
(***************************************************************************)
EXTENDS CdnClaims, FiniteSetTheorems, SequenceTheorems, TLAPS

(***************************************************************************)
(* Types.                                                                  *)
(***************************************************************************)
Stored == [key : Media, type : Words \cup {"file"}]

Row     == [sender : Senders, atts : Seq(Stored), state : {"live", "tombstone", "removed"}]
Drafted == [sender : Senders, atts : Seq(Stored)]
AnEvent == [msg : Nat, old : SUBSET Media, new : SUBSET Media]
Places  == {"idle", "post", "delete", "remove", "publish", "backfill"}

TypeInv ==
    /\ rows \in Seq(Row)
    /\ bus \in Seq(AnEvent)
    /\ claims \subseteq (DOMAIN rows) \X Media
    /\ reaped \subseteq Media
    /\ pc \in [Workers -> Places]
    /\ DOMAIN job = Workers /\ job = [w \in Workers |-> job[w]]
    /\ due \in [Workers -> Seq(AnEvent)]

\* What a worker is about.
JobOf(w) ==
    /\ pc[w] = "idle" => due[w] = <<>>
    /\ pc[w] = "post" => job[w].draft[1] \in Drafted
    /\ pc[w] = "delete" => job[w].msgs[1] \in DOMAIN rows
    /\ pc[w] = "remove" => Range(job[w].msgs) \subseteq DOMAIN rows
    /\ pc[w] \in {"publish", "backfill"} => due[w] # <<>>
    /\ pc[w] = "backfill" => \A e \in Range(due[w]) : e.new # {}
    /\ pc[w] \in {"delete", "remove"} => \A e \in Range(due[w]) : e.old # {}

JobInv == \A w \in Workers : JobOf(w)

(***************************************************************************)
(* Events.  Everything that is on its way, published or not.               *)
(***************************************************************************)
Owed(w) == Range(due[w])

Events == Range(bus) \cup UNION {Owed(w) : w \in Workers}

\* All that concerns m is about the same references, which are what it carries
\* as long as it is there.
AllAbout(m, K) ==
    /\ \A e \in Events : e.msg = m => K # {} /\ e \in {Event(m, {}, K), Event(m, K, {})}
    /\ \A c \in claims : c[1] = m => c[2] \in K
    /\ Live(m) => K = Keys(m)

EventsInv ==
    /\ \A e \in Events : e.msg \in DOMAIN rows
    /\ \A m \in DOMAIN rows : ~Live(m) => rows[m].atts = <<>>
    /\ \A m \in DOMAIN rows : \E K \in SUBSET Media : AllAbout(m, K)

\* The messages a worker is about to delete.
Doomed(w) ==
    IF pc[w] = "delete" THEN {job[w].msgs[1]}
    ELSE IF pc[w] = "remove" THEN Range(job[w].msgs) ELSE {}

HasRelease(es, m) == \E e \in es : e.msg = m /\ e.new = {}

ReleasesOf(w) ==
    /\ \A e \in Owed(w) :
          e.old # {} => \/ ~Live(e.msg)
                        \/ pc[w] \in {"delete", "remove"} /\ e.msg \in Doomed(w)
    /\ \A m \in Doomed(w) :
          Live(m) /\ Keys(m) # {} => HasRelease(Owed(w), m)

\* A release is published only after its message is gone, and will be if the
\* message goes.
ReleasesInv ==
    /\ \A e \in Range(bus) : e.old # {} => ~Live(e.msg)
    /\ \A w \in Workers : ReleasesOf(w)

(***************************************************************************)
(* What a live message carries is claimed, or will be, or its claim was    *)
(* lost.                                                                   *)
(***************************************************************************)
Flowing == Range(bus) \cup UNION {Owed(w) : w \in {w \in Workers : pc[w] = "publish"}}

Coming(m, r) == \E e \in Flowing : e.msg = m /\ r \in e.new

KeptInv ==
    \A m \in DOMAIN rows : Live(m) => \A r \in Keys(m) :
       \/ <<m, r>> \in unclaimed
       \/ r \notin reaped /\ (<<m, r>> \in claims \/ Coming(m, r))

(***************************************************************************)
(* What is dead is released, or will be, or its release was lost.          *)
(***************************************************************************)
Pending(m) == \E w \in Workers : pc[w] = "publish" /\ HasRelease(Owed(w), m)

ReleasedAfter(m, i) == \E j \in DOMAIN bus : j > i /\ bus[j].msg = m /\ bus[j].new = {}

\* Behind every claim, held or on its way to the CDN, comes a release.
LastWord(m) ==
    /\ m \in released
    /\ (\E c \in claims : c[1] = m) => ReleasedAfter(m, 0)
    /\ \A i \in DOMAIN bus : bus[i].msg = m /\ bus[i].new # {} => ReleasedAfter(m, i)

\* It never had a claim.
Untold(m) == (\A e \in Events : e.msg # m) /\ (\A c \in claims : c[1] # m)

Settled(m) == m \in stuck \/ Pending(m) \/ LastWord(m) \/ Untold(m)

SettledInv == \A m \in DOMAIN rows : ~Live(m) => Settled(m)

IInv == TypeInv /\ JobInv /\ EventsInv /\ ReleasesInv /\ KeptInv /\ SettledInv

(***************************************************************************)
(* Sequences and what is in them.                                          *)
(***************************************************************************)
LEMMA RangeEmpty == Range(<<>>) = {}
  BY DEF Range

\* One event alone.
LEMMA RangeOne == \A e : Range(<<e>>) = {e}
  BY DEF Range

\* What is in a sequence has its type.
LEMMA RangeTyped == ASSUME NEW S, NEW s \in Seq(S) PROVE Range(s) \subseteq S
  BY DEF Range

\* One more at the end.
LEMMA RangeAppend ==
    ASSUME NEW S, NEW s \in Seq(S), NEW e \in S
    PROVE  Append(s, e) \in Seq(S) /\ Range(Append(s, e)) = Range(s) \cup {e}
<1> DEFINE t == Append(s, e)
<1>1. /\ t \in Seq(S) /\ DOMAIN s = 1 .. Len(s) /\ DOMAIN t = 1 .. Len(s) + 1 /\ Len(s) \in Nat
      /\ t[Len(s) + 1] = e /\ \A i \in DOMAIN s : t[i] = s[i]
  OBVIOUS
<1>2. DOMAIN t = DOMAIN s \cup {Len(s) + 1}
  BY <1>1
<1> HIDE DEF t
<1>3. Range(t) = Range(s) \cup {e}
  BY <1>1, <1>2 DEF Range
<1> QED
  BY <1>1, <1>3 DEF t

\* One less at the front.
LEMMA RangeTail ==
    ASSUME NEW S, NEW s \in Seq(S), s # <<>>
    PROVE  /\ Head(s) \in S /\ Head(s) \in Range(s) /\ Tail(s) \in Seq(S)
           /\ Range(s) = {Head(s)} \cup Range(Tail(s))
<1> DEFINE t == Tail(s)
<1>1. /\ t \in Seq(S) /\ DOMAIN s = 1 .. Len(s) /\ DOMAIN t = 1 .. Len(s) - 1
      /\ Len(s) \in Nat /\ Len(s) >= 1
      /\ Head(s) = s[1] /\ \A i \in 1 .. Len(s) - 1 : t[i] = s[i + 1]
  OBVIOUS
<1> HIDE DEF t
<1>2. Head(s) \in Range(s)
  BY <1>1 DEF Range
<1>3. Range(t) \subseteq Range(s)
  <2>1. \A i \in DOMAIN t : i + 1 \in DOMAIN s /\ t[i] = s[i + 1]
    BY <1>1
  <2> QED
    BY <2>1 DEF Range
<1>4. Range(s) \subseteq {Head(s)} \cup Range(t)
  <2>1. \A i \in DOMAIN s : i = 1 \/ (i - 1 \in DOMAIN t /\ s[i] = t[i - 1])
    BY <1>1
  <2> QED
    BY <1>1, <2>1 DEF Range
<1> QED
  BY <1>1, <1>2, <1>3, <1>4 DEF t

(***************************************************************************)
(* A set of messages in its order has all of them.                         *)
(***************************************************************************)
LEMMA InOrderHasAll ==
    ASSUME NEW n \in Nat, NEW S \in SUBSET (1 .. n)
    PROVE  InOrder(S) \in Seq(S) /\ Range(InOrder(S)) = S
<1> DEFINE c == Cardinality(S)
           T(m) == {i \in S : i <= m}
           f == [m \in S |-> Rank(S, m)]
<1>0. \A m \in S : m \in Int
  OBVIOUS
<1>1. IsFiniteSet(S) /\ c \in Nat
  <2>1. IsFiniteSet(1 .. n)
    BY FS_Interval
  <2> QED
    BY <2>1, FS_Subset, FS_CardinalityType
<1>2. \A m \in S : IsFiniteSet(T(m)) /\ Cardinality(T(m)) \in 1 .. c
  <2> TAKE m \in S
  <2>1. m \in T(m) /\ T(m) \subseteq S
    OBVIOUS
  <2>2. IsFiniteSet(T(m)) /\ Cardinality(T(m)) <= c /\ Cardinality(T(m)) \in Nat
    BY <1>1, <2>1, FS_Subset, FS_CardinalityType
  <2>3. Cardinality(T(m)) # 0
    BY <2>1, <2>2, FS_EmptySet
  <2> QED
    BY <1>1, <2>2, <2>3
<1>3. \A i, j \in S : i < j => Cardinality(T(i)) < Cardinality(T(j))
  <2> SUFFICES ASSUME NEW i \in S, NEW j \in S, i < j
               PROVE  Cardinality(T(i)) < Cardinality(T(j))
    OBVIOUS
  <2>0. \A k \in S : k <= i => k <= j
    BY <1>0
  <2>1. T(i) \subseteq T(j) /\ j \in T(j) /\ j \notin T(i)
    <3>1. j <= j /\ ~(j <= i)
      BY <1>0
    <3>2. T(i) \subseteq T(j)
      BY <2>0
    <3> QED
      BY <3>1, <3>2
  <2>2. /\ IsFiniteSet(T(j)) /\ Cardinality(T(j)) \in Nat /\ Cardinality(T(i)) \in Nat
    BY <1>2
  <2> HIDE DEF T
  <2>3. Cardinality(T(i)) <= Cardinality(T(j)) /\ Cardinality(T(i)) # Cardinality(T(j))
    BY <2>1, <2>2, FS_Subset
  <2> QED
    BY <2>2, <2>3
<1>4. \A m \in S : f[m] = Cardinality(T(m))
  BY DEF Rank
<1>5. f \in Injection(S, 1 .. c)
  <2>1. \A m \in S : f[m] \in 1 .. c
    BY <1>2, <1>4
  <2>2. \A i, j \in S : f[i] = f[j] => i = j
    <3> SUFFICES ASSUME NEW i \in S, NEW j \in S, f[i] = f[j] PROVE i = j
      OBVIOUS
    <3>1. ~(f[i] < f[j]) /\ ~(f[j] < f[i])
      BY <1>1, <2>1
    <3>2. ~(i < j) /\ ~(j < i) /\ i \in Int /\ j \in Int
      <4>1. f[i] = Cardinality(T(i)) /\ f[j] = Cardinality(T(j))
        BY <1>4
      <4> HIDE DEF T, f
      <4> QED
        BY <1>0, <1>3, <3>1, <4>1
    <3> QED
      BY <3>2
  <2> QED
    BY <2>1, <2>2 DEF Injection, IsInjective
<1>6. \A k \in 1 .. c : \E m \in S : f[m] = k
  <2>1. IsFiniteSet(1 .. c) /\ Cardinality(1 .. c) = c
    BY <1>1, FS_Interval
  <2>2. f \in Surjection(S, 1 .. c)
    BY <1>1, <1>5, <2>1, FS_Injection
  <2> QED
    BY <2>2 DEF Surjection
<1> DEFINE s == InOrder(S)
<1>7. DOMAIN s = 1 .. c /\ \A k \in 1 .. c : s[k] \in S /\ Rank(S, s[k]) = k
  BY <1>6 DEF InOrder
<1>8. s \in Seq(S)
  <2>1. s = [k \in 1 .. c |-> s[k]]
    BY DEF InOrder
  <2> HIDE DEF s
  <2> QED
    BY <1>1, <1>7, <2>1
<1>9. \A m \in S : \E k \in 1 .. c : s[k] = m
  <2> TAKE m \in S
  <2>1. f[m] \in 1 .. c /\ s[f[m]] \in S /\ f[s[f[m]]] = f[m]
    BY <1>2, <1>4, <1>7
  <2>2. s[f[m]] = m
    BY <1>5, <2>1 DEF Injection, IsInjective
  <2> QED
    BY <2>1, <2>2
<1> HIDE DEF s
<1>10. Range(s) = S
  BY <1>7, <1>9 DEF Range
<1> QED
  BY <1>8, <1>10 DEF s

(***************************************************************************)
(* Attachments: what is stored.                                            *)
(***************************************************************************)
LEMMA NormalizedStored ==
    ASSUME NEW a \in Attachment, a.key # NoKey PROVE Normalized(a) \in Stored
  BY DEF Attachment, Stored, Normalized

\* What a send stores.
LEMMA PreparedStored ==
    ASSUME NEW raws \in Offers, Accepted(raws) PROVE Prepared(raws) \in Seq(Stored)
<1>1. raws \in Seq(Attachment) /\ Len(raws) \in Nat /\ DOMAIN raws = 1 .. Len(raws)
  BY OffersAssumption
<1>2. \A i \in DOMAIN raws : raws[i] \in Attachment /\ raws[i].key # NoKey
  BY <1>1 DEF Accepted
<1>3. \A i \in DOMAIN raws : Normalized(raws[i]) \in Stored
  BY <1>2, NormalizedStored
<1>4. Prepared(raws) = [i \in 1 .. Len(raws) |-> Normalized(raws[i])]
  BY <1>1 DEF Prepared
<1> HIDE DEF Normalized
<1> QED
  BY <1>1, <1>3, <1>4

(***************************************************************************)
(* The events a message gives rise to.                                     *)
(***************************************************************************)
LEMMA KeysTyped ==
    ASSUME TypeInv, NEW m \in DOMAIN rows
    PROVE  Keys(m) \in SUBSET Media /\ Released(m) = Keys(m) /\ Refs(rows[m].atts) = Keys(m)
<1>1. rows[m] \in Row
  BY DEF TypeInv
<1>2. rows[m].atts \in Seq(Stored)
  BY <1>1 DEF Row
<1>3. \A i \in DOMAIN rows[m].atts : rows[m].atts[i].key \in Media
  <2> TAKE i \in DOMAIN rows[m].atts
  <2>1. rows[m].atts[i] \in Stored
    BY <1>2
  <2> QED
    BY <2>1 DEF Stored
<1> QED
  BY <1>3 DEF Keys, Released, Refs

\* An event about a set of media.
LEMMA EventTyped ==
    ASSUME NEW m \in Nat, NEW old \in SUBSET Media, NEW new \in SUBSET Media
    PROVE  /\ Event(m, old, new) \in AnEvent
           /\ Event(m, old, new).msg = m
           /\ Event(m, old, new).old = old
           /\ Event(m, old, new).new = new
  BY DEF Event, AnEvent

\* A claim, if there is something to claim.
LEMMA ClaimHas ==
    ASSUME NEW m \in Nat, NEW K \in SUBSET Media
    PROVE  /\ Claim(m, K) \in Seq(AnEvent)
           /\ Range(Claim(m, K)) = IF K = {} THEN {} ELSE {Event(m, {}, K)}
           /\ Claim(m, K) = <<>> <=> K = {}
<1>1. Event(m, {}, K) \in AnEvent
  BY EventTyped
<1> DEFINE e == Event(m, {}, K)
<1>2. <<e>> \in Seq(AnEvent) /\ <<>> \in Seq(AnEvent) /\ <<e>> # <<>>
  BY <1>1
<1> HIDE DEF e
<1>3. Claim(m, K) = IF K = {} THEN <<>> ELSE <<e>>
  BY DEF Claim, e
<1> QED
  BY <1>2, <1>3, RangeEmpty, RangeOne DEF e

\* A release, if there is something to release.
LEMMA ReleaseHas ==
    ASSUME NEW m \in Nat, NEW K \in SUBSET Media
    PROVE  /\ Release(m, K) \in Seq(AnEvent)
           /\ Range(Release(m, K)) = IF K = {} THEN {} ELSE {Event(m, K, {})}
<1>1. Event(m, K, {}) \in AnEvent
  BY EventTyped
<1> DEFINE e == Event(m, K, {})
<1>2. <<e>> \in Seq(AnEvent) /\ <<>> \in Seq(AnEvent) /\ <<e>> # <<>>
  BY <1>1
<1> HIDE DEF e
<1>3. Release(m, K) = IF K = {} THEN <<>> ELSE <<e>>
  BY DEF Release, e
<1> QED
  BY <1>2, <1>3, RangeEmpty, RangeOne DEF e

\* The releases of a set of messages are of all that hold a claim.
LEMMA ReleasesHave ==
    ASSUME TypeInv, NEW S \in SUBSET (DOMAIN rows)
    PROVE  /\ Releases(S) \in Seq(AnEvent)
           /\ Range(Releases(S)) = {Event(m, Keys(m), {}) : m \in {m \in S : Keys(m) # {}}}
<1> DEFINE H == {m \in S : Released(m) # {}}
           ms == InOrder(H)
           es == [i \in DOMAIN ms |-> Event(ms[i], Released(ms[i]), {})]
<1>1. Len(rows) \in Nat /\ DOMAIN rows = 1 .. Len(rows)
  BY DEF TypeInv
<1>2. H \in SUBSET (1 .. Len(rows))
  BY <1>1
<1>3. ms \in Seq(H) /\ Range(ms) = H
  BY <1>1, <1>2, InOrderHasAll
<1>4. \A m \in H : m \in Nat /\ Released(m) = Keys(m) /\ Released(m) \in SUBSET Media
  BY <1>1, KeysTyped
<1>5. H = {m \in S : Keys(m) # {}}
  BY KeysTyped
<1>6. Releases(S) = es
  BY DEF Releases
<1> HIDE DEF H, ms
<1>7. DOMAIN ms = 1 .. Len(ms) /\ Len(ms) \in Nat /\ \A i \in DOMAIN ms : ms[i] \in H
  BY <1>3
<1>8. \A i \in DOMAIN ms : es[i] \in AnEvent /\ es[i] = Event(ms[i], Keys(ms[i]), {})
  BY <1>4, <1>7, EventTyped
<1>9. es \in Seq(AnEvent)
  <2>1. DOMAIN es = 1 .. Len(ms) /\ es = [i \in 1 .. Len(ms) |-> es[i]]
    BY <1>7
  <2> HIDE DEF es
  <2> QED
    BY <1>7, <1>8, <2>1
<1>10. Range(es) = {Event(m, Keys(m), {}) : m \in H}
  <2>1. DOMAIN es = DOMAIN ms
    OBVIOUS
  <2>2. H = {ms[i] : i \in DOMAIN ms}
    BY <1>3 DEF Range
  <2> HIDE DEF es
  <2> QED
    BY <1>8, <2>1, <2>2 DEF Range
<1> QED
  BY <1>5, <1>6, <1>9, <1>10

(***************************************************************************)
(* The steps of a worker, as far as the claims tell them apart.  It takes  *)
(* something up; it ends messages; it stores one; it drops what it had in  *)
(* hand; it loses events it owed; or it publishes one.                     *)
(***************************************************************************)
Alone(w) == \A v \in Workers \ {w} : pc'[v] = pc[v] /\ job'[v] = job[v] /\ due'[v] = due[v]

\* An event about what its message carries at this moment.
Tells(e) ==
    /\ e.msg \in DOMAIN rows /\ Keys(e.msg) # {}
    /\ e \in {Event(e.msg, {}, Keys(e.msg)), Event(e.msg, Keys(e.msg), {})}

Starts(w) ==
    /\ UNCHANGED <<rows, cdn, unclaimed, stuck, released>>
    /\ pc[w] = "idle" /\ pc'[w] # "publish"
    /\ \A e \in Owed(w)' :
          /\ Tells(e)
          /\ e.old # {} => pc'[w] \in {"delete", "remove"} /\ e.msg \in Doomed(w)'
    /\ \A m \in Doomed(w)' : Live(m) /\ Keys(m) # {} => HasRelease(Owed(w)', m)

Ended(w, m) ==
    /\ ~Live(m)' /\ rows'[m].atts = <<>>
    /\ Live(m) => Keys(m) = {} \/ m \in stuck' \/ HasRelease(Owed(w)', m)

Ends(w) ==
    /\ UNCHANGED <<cdn, unclaimed, released>>
    /\ pc[w] \in {"idle", "delete", "remove"} /\ pc'[w] \in {"idle", "publish"}
    /\ DOMAIN rows' = DOMAIN rows
    /\ \A m \in DOMAIN rows : rows'[m] = rows[m] \/ Ended(w, m)
    /\ \A e \in Owed(w)' : ~Live(e.msg)' /\ (e \in Owed(w) \/ Tells(e))
    /\ stuck \subseteq stuck'

Stores(w) ==
    LET n == Len(rows) + 1 IN
    /\ UNCHANGED <<cdn, stuck, released>>
    /\ pc[w] = "post" /\ pc'[w] \in {"idle", "publish"}
    /\ n \notin DOMAIN rows /\ DOMAIN rows' = DOMAIN rows \cup {n}
    /\ \A m \in DOMAIN rows : rows'[m] = rows[m]
    /\ rows'[n].state = "live"
    /\ Refs(rows'[n].atts) \in SUBSET Media
    /\ Owed(w)' = IF Refs(rows'[n].atts) = {} THEN {} ELSE {Event(n, {}, Refs(rows'[n].atts))}
    /\ unclaimed' = unclaimed \cup ({n} \X reaped)

Drops(w) ==
    /\ UNCHANGED <<rows, cdn, unclaimed, stuck, released>>
    /\ pc[w] # "publish" /\ (pc'[w] = "idle" \/ (pc'[w] = "backfill" /\ pc[w] = "backfill"))
    /\ Owed(w)' \subseteq Owed(w)

Loses(w) ==
    /\ UNCHANGED <<rows, cdn, released>>
    /\ pc[w] = "publish" /\ pc'[w] \in {"idle", "publish"}
    /\ \E es \in SUBSET Owed(w) : Owed(w) = es \cup Owed(w)' /\ Lost(es)

Publishes(w) ==
    /\ UNCHANGED <<rows, claims, reaped>>
    /\ pc[w] \in {"publish", "backfill"} /\ pc'[w] \in {"idle", pc[w]}
    /\ \E e \in Owed(w) :
          /\ Owed(w) = {e} \cup Owed(w)'
          /\ bus' = Append(bus, e)
          /\ released' = IF e.new = {} THEN released \cup {e.msg} ELSE released
          /\ stuck' = stuck \cup Overtaken(e)
          /\ \/ unclaimed' = unclaimed
             \/ /\ e.new # {}
                /\ unclaimed' = unclaimed \ ({e.msg} \X (Media \ reaped))

Moves(w) ==
    /\ Starts(w) \/ Ends(w) \/ Stores(w) \/ Drops(w) \/ Loses(w) \/ Publishes(w)
    /\ TypeInv' /\ JobOf(w)' /\ Alone(w)

\* Where a worker goes.
LEMMA GoesTo ==
    ASSUME TypeInv, NEW w \in Workers, NEW place \in Places, NEW what,
           NEW list \in Seq(AnEvent), Goto(w, place, what, list)
    PROVE  /\ pc' \in [Workers -> Places] /\ due' \in [Workers -> Seq(AnEvent)]
           /\ DOMAIN job' = Workers /\ job' = [v \in Workers |-> job'[v]]
           /\ pc'[w] = place /\ job'[w] = what /\ due'[w] = list
           /\ Owed(w)' = Range(list)
           /\ Alone(w)
  BY DEF TypeInv, Goto, Alone, Owed

\* A worker with callbacks left publishes them.
LEMMA GoesAfter ==
    ASSUME TypeInv, NEW w \in Workers, NEW list \in Seq(AnEvent), After(w, list)
    PROVE  /\ pc' \in [Workers -> Places] /\ due' \in [Workers -> Seq(AnEvent)]
           /\ DOMAIN job' = Workers /\ job' = [v \in Workers |-> job'[v]]
           /\ pc'[w] \in {"idle", "publish"} /\ due'[w] = list
           /\ Owed(w)' = Range(list)
           /\ JobOf(w)' /\ Alone(w)
<1>1. (IF list = <<>> THEN "idle" ELSE "publish") \in Places
  BY DEF Places
<1>2. Goto(w, IF list = <<>> THEN "idle" ELSE "publish", Nothing, list)
  BY DEF After
<1> QED
  BY <1>1, <1>2, GoesTo DEF JobOf

\* A draft is prepared.
LEMMA PrepareMoves ==
    ASSUME IInv, NEW w \in Workers, NEW sender \in Senders, NEW raws \in Offers,
           Prepare(w, sender, raws)
    PROVE  Moves(w)
<1> DEFINE d == [sender |-> sender, atts |-> Prepared(raws)]
<1>1. Prepared(raws) \in Seq(Stored)
  BY PreparedStored DEF Prepare
<1>2. d \in Drafted
  BY <1>1 DEF Drafted
<1>3. Draft(d).draft[1] = d
  BY DEF Draft, Nothing
<1>4. Goto(w, "post", Draft(d), <<>>) /\ "post" \in Places /\ <<>> \in Seq(AnEvent)
  BY DEF Prepare, Places
<1> HIDE DEF d
<1>5. /\ pc' \in [Workers -> Places] /\ due' \in [Workers -> Seq(AnEvent)]
      /\ DOMAIN job' = Workers /\ job' = [v \in Workers |-> job'[v]]
      /\ pc'[w] = "post" /\ job'[w] = Draft(d) /\ due'[w] = <<>>
      /\ Owed(w)' = {} /\ Alone(w)
  BY <1>4, GoesTo, RangeEmpty DEF IInv
<1>6. JobOf(w)'
  BY <1>2, <1>3, <1>5 DEF JobOf
<1>7. TypeInv'
  BY <1>5 DEF Prepare, IInv, TypeInv, cdn
<1>8. Starts(w)
  BY <1>2, <1>3, <1>5 DEF Prepare, Starts, Doomed
<1> QED
  BY <1>5, <1>6, <1>7, <1>8 DEF Moves

\* A row is stored, its claim owed.
LEMMA PostMoves ==
    ASSUME IInv, NEW w \in Workers, Post(w)
    PROVE  Moves(w)
<1> DEFINE d == job[w].draft[1]
           n == Len(rows) + 1
           r == Message(d.sender, d.atts)
<1>1. pc[w] = "post" /\ d \in Drafted
  BY DEF Post, IInv, JobInv, JobOf
<1>2. r \in Row
  BY <1>1 DEF Drafted, Row, Message
<1>3. /\ rows \in Seq(Row) /\ rows' = Append(rows, r)
      /\ After(w, Claim(n, Refs(d.atts)))
      /\ unclaimed' = unclaimed \cup ({n} \X reaped)
      /\ UNCHANGED <<cdn, stuck, released>>
  BY DEF Post, IInv, TypeInv
<1> HIDE DEF d, r
<1>4. /\ rows' \in Seq(Row) /\ n \in Nat /\ n \notin DOMAIN rows
      /\ DOMAIN rows' = DOMAIN rows \cup {n}
      /\ rows'[n] = r /\ \A m \in DOMAIN rows : rows'[m] = rows[m]
  BY <1>2, <1>3
<1>5. Refs(d.atts) \in SUBSET Media
  <2>1. d.atts \in Seq(Stored)
    BY <1>1 DEF Drafted
  <2>2. \A i \in DOMAIN d.atts : d.atts[i].key \in Media
    <3> TAKE i \in DOMAIN d.atts
    <3>1. d.atts[i] \in Stored
      BY <2>1
    <3> QED
      BY <3>1 DEF Stored
  <2> QED
    BY <2>2 DEF Refs
<1>6. /\ Claim(n, Refs(d.atts)) \in Seq(AnEvent)
      /\ Range(Claim(n, Refs(d.atts))) =
            IF Refs(d.atts) = {} THEN {} ELSE {Event(n, {}, Refs(d.atts))}
  BY <1>4, <1>5, ClaimHas
<1>7. /\ pc' \in [Workers -> Places] /\ due' \in [Workers -> Seq(AnEvent)]
      /\ DOMAIN job' = Workers /\ job' = [v \in Workers |-> job'[v]]
      /\ pc'[w] \in {"idle", "publish"}
      /\ Owed(w)' = IF Refs(d.atts) = {} THEN {} ELSE {Event(n, {}, Refs(d.atts))}
      /\ JobOf(w)' /\ Alone(w)
  <2> HIDE DEF n, Event, Claim
  <2> QED
    BY <1>3, <1>5, <1>6, GoesAfter DEF IInv
<1>8. TypeInv'
  BY <1>3, <1>4, <1>7 DEF IInv, TypeInv, cdn
<1>9. rows'[n].state = "live" /\ rows'[n].atts = d.atts
  BY <1>4 DEF r, Message
<1>10. Stores(w)
  BY <1>1, <1>3, <1>4, <1>5, <1>7, <1>9 DEF Stores
<1> QED
  BY <1>7, <1>8, <1>10 DEF Moves

\* Nothing a worker does but a store and the end of messages touches the rows.
LEMMA TypesKept ==
    ASSUME TypeInv, UNCHANGED <<rows, claims, reaped>>, bus' \in Seq(AnEvent),
           pc' \in [Workers -> Places], due' \in [Workers -> Seq(AnEvent)],
           DOMAIN job' = Workers, job' = [v \in Workers |-> job'[v]]
    PROVE  TypeInv'
  BY DEF TypeInv

\* A deletion reads its release first.
LEMMA BeginDeleteMoves ==
    ASSUME IInv, NEW w \in Workers, NEW m \in DOMAIN rows, BeginDelete(w, m)
    PROVE  Moves(w)
<1> DEFINE es == Release(m, Released(m))
<1>1. TypeInv /\ m \in Nat /\ Keys(m) \in SUBSET Media /\ Released(m) = Keys(m)
  BY KeysTyped DEF IInv, TypeInv
<1>2. /\ es \in Seq(AnEvent)
      /\ Range(es) = IF Keys(m) = {} THEN {} ELSE {Event(m, Keys(m), {})}
  <2> HIDE DEF Event, Release, Keys, Released
  <2> QED
    BY <1>1, ReleaseHas
<1>3. About(<<m>>).msgs = <<m>> /\ <<m>>[1] = m
  BY DEF About, Nothing
<1>4. Goto(w, "delete", About(<<m>>), es) /\ "delete" \in Places
  BY DEF BeginDelete, Places
<1> HIDE DEF es
<1>5. /\ pc' \in [Workers -> Places] /\ due' \in [Workers -> Seq(AnEvent)]
      /\ DOMAIN job' = Workers /\ job' = [v \in Workers |-> job'[v]]
      /\ pc'[w] = "delete" /\ job'[w].msgs[1] = m /\ due'[w] = es
      /\ Owed(w)' = Range(es) /\ Alone(w)
  <2>1. job'[w] = About(<<m>>)
    BY <1>1, <1>2, <1>4, GoesTo
  <2> QED
    BY <1>1, <1>2, <1>3, <1>4, <2>1, GoesTo
<1>6. UNCHANGED <<rows, bus, claims, reaped, unclaimed, stuck, released>> /\ pc[w] = "idle"
  BY DEF BeginDelete, cdn
<1>7. \A e \in Range(es) : /\ Keys(m) # {} /\ e = Event(m, Keys(m), {})
                           /\ e.msg = m /\ e.old = Keys(m) /\ e.new = {}
  <2>1. /\ Event(m, Keys(m), {}).msg = m /\ Event(m, Keys(m), {}).old = Keys(m)
        /\ Event(m, Keys(m), {}).new = {}
    BY <1>1, EventTyped
  <2> HIDE DEF Event, Keys
  <2> QED
    BY <1>2, <2>1
<1>8. Doomed(w)' = {m}
  BY <1>5 DEF Doomed
<1> HIDE DEF Event, Keys
<1>9. JobOf(w)'
  BY <1>5, <1>6, <1>7 DEF JobOf
<1>10. Starts(w)
  <2>1. \A e \in Owed(w)' : Tells(e) /\ e.msg \in Doomed(w)'
    BY <1>5, <1>7, <1>8 DEF Tells
  <2>2. Keys(m) # {} => HasRelease(Owed(w)', m)
    BY <1>2, <1>5, <1>7 DEF HasRelease
  <2> QED
    BY <1>5, <1>6, <1>8, <2>1, <2>2 DEF Starts, cdn
<1> QED
  BY <1>1, <1>5, <1>6, <1>9, <1>10, TypesKept DEF Moves, TypeInv

\* So does the deletion of the conversation.
LEMMA BeginDropMoves ==
    ASSUME IInv, NEW w \in Workers, BeginDrop(w)
    PROVE  Moves(w)
<1> DEFINE es == Releases(Present)
           ms == InOrder(Present)
<1>1. TypeInv /\ Len(rows) \in Nat /\ DOMAIN rows = 1 .. Len(rows)
  BY DEF IInv, TypeInv
<1>2. Present \in SUBSET (DOMAIN rows)
  BY DEF Present
<1>3. /\ es \in Seq(AnEvent)
      /\ Range(es) = {Event(m, Keys(m), {}) : m \in {m \in Present : Keys(m) # {}}}
  BY <1>1, <1>2, ReleasesHave
<1>4. Range(ms) = Present
  BY <1>1, <1>2, InOrderHasAll
<1>5. About(ms).msgs = ms
  BY DEF About, Nothing
<1>6. Goto(w, "remove", About(ms), es) /\ "remove" \in Places
  BY DEF BeginDrop, Places
<1> HIDE DEF es, ms
<1>7. /\ pc' \in [Workers -> Places] /\ due' \in [Workers -> Seq(AnEvent)]
      /\ DOMAIN job' = Workers /\ job' = [v \in Workers |-> job'[v]]
      /\ pc'[w] = "remove" /\ job'[w] = About(ms) /\ due'[w] = es
      /\ Owed(w)' = Range(es) /\ Alone(w)
  BY <1>1, <1>3, <1>6, GoesTo
<1>8. UNCHANGED <<rows, bus, claims, reaped, unclaimed, stuck, released>> /\ pc[w] = "idle"
  BY DEF BeginDrop, cdn
<1>9. \A e \in Range(es) :
         /\ e.msg \in Present /\ Keys(e.msg) # {} /\ e = Event(e.msg, Keys(e.msg), {})
         /\ e.old = Keys(e.msg) /\ e.new = {}
  <2> TAKE e \in Range(es)
  <2>1. PICK m \in Present : Keys(m) # {} /\ e = Event(m, Keys(m), {})
    BY <1>3
  <2>2. m \in Nat /\ m \in DOMAIN rows
    BY <1>1, <1>2
  <2>3. Keys(m) \in SUBSET Media
    BY <1>1, <2>2, KeysTyped
  <2>4. e.msg = m /\ e.old = Keys(m) /\ e.new = {}
    <3> HIDE DEF Event, Keys
    <3> QED
      BY <2>1, <2>2, <2>3, EventTyped
  <2> QED
    BY <2>1, <2>4
<1>10. Doomed(w)' = Present
  BY <1>4, <1>5, <1>7 DEF Doomed
<1> HIDE DEF Event, Keys
<1>11. JobOf(w)'
  BY <1>2, <1>4, <1>5, <1>7, <1>8, <1>9 DEF JobOf
<1>12. Starts(w)
  <2>1. \A e \in Owed(w)' : Tells(e) /\ e.msg \in Doomed(w)'
    BY <1>2, <1>7, <1>9, <1>10 DEF Tells
  <2>2. \A m \in Present : Keys(m) # {} => HasRelease(Owed(w)', m)
    <3> SUFFICES ASSUME NEW m \in Present, Keys(m) # {} PROVE HasRelease(Owed(w)', m)
      OBVIOUS
    <3>1. Event(m, Keys(m), {}) \in Range(es) /\ m \in Nat
      BY <1>1, <1>2, <1>3
    <3>2. Event(m, Keys(m), {}).msg = m /\ Event(m, Keys(m), {}).new = {}
      BY <1>1, <1>2, <3>1, KeysTyped, EventTyped
    <3> QED
      BY <1>7, <3>1, <3>2 DEF HasRelease
  <2> QED
    BY <1>7, <1>8, <1>10, <2>1, <2>2 DEF Starts, cdn
<1> QED
  BY <1>1, <1>7, <1>8, <1>11, <1>12, TypesKept DEF Moves, TypeInv

\* A backfill owes a claim for live rows only.
LEMMA BeginBackfillMoves ==
    ASSUME IInv, NEW w \in Workers, NEW limit \in 1 .. MaxRows, BeginBackfill(w, limit)
    PROVE  Moves(w)
<1>1. TypeInv /\ Len(rows) \in Nat /\ DOMAIN rows = 1 .. Len(rows) /\ limit \in Nat /\ limit >= 1
  BY BoundsAssumption DEF IInv, TypeInv
<1>2. PICK slice \in [1 .. limit -> Candidates] :
         Goto(w, "backfill", Nothing,
              [i \in 1 .. limit |-> Event(slice[i], {}, Refs(rows[slice[i]].atts))])
  BY DEF BeginBackfill, Slices
<1> DEFINE es == [i \in 1 .. limit |-> Event(slice[i], {}, Refs(rows[slice[i]].atts))]
<1>3. \A i \in 1 .. limit :
         /\ slice[i] \in DOMAIN rows /\ slice[i] \in Nat
         /\ Keys(slice[i]) \in SUBSET Media /\ Keys(slice[i]) # {}
         /\ es[i] = Event(slice[i], {}, Keys(slice[i]))
  <2> TAKE i \in 1 .. limit
  <2>1. /\ slice[i] \in DOMAIN rows /\ Refs(rows[slice[i]].atts) # {}
        /\ es[i] = Event(slice[i], {}, Refs(rows[slice[i]].atts))
    BY <1>2 DEF Candidates
  <2> HIDE DEF es, Event
  <2> QED
    BY <1>1, <2>1, KeysTyped
<1>4. DOMAIN es = 1 .. limit /\ es = [i \in 1 .. limit |-> es[i]]
  OBVIOUS
<1>5. Goto(w, "backfill", Nothing, es) /\ "backfill" \in Places
  BY <1>2 DEF Places
<1> HIDE DEF es, Event, Keys
<1>6. \A i \in 1 .. limit :
         /\ es[i] \in AnEvent /\ es[i].msg = slice[i]
         /\ es[i].old = {} /\ es[i].new = Keys(slice[i])
  BY <1>3, EventTyped
<1>7. es \in Seq(AnEvent) /\ es # <<>>
  BY <1>1, <1>4, <1>6
<1>8. \A e \in Range(es) : Tells(e) /\ e.old = {} /\ e.new # {}
  <2> TAKE e \in Range(es)
  <2>1. PICK i \in 1 .. limit : e = es[i]
    BY <1>4 DEF Range
  <2> QED
    BY <1>3, <1>6, <2>1 DEF Tells
<1>9. /\ pc' \in [Workers -> Places] /\ due' \in [Workers -> Seq(AnEvent)]
      /\ DOMAIN job' = Workers /\ job' = [v \in Workers |-> job'[v]]
      /\ pc'[w] = "backfill" /\ due'[w] = es
      /\ Owed(w)' = Range(es) /\ Alone(w)
  BY <1>1, <1>5, <1>7, GoesTo
<1>10. UNCHANGED <<rows, bus, claims, reaped, unclaimed, stuck, released>> /\ pc[w] = "idle"
  BY DEF BeginBackfill, cdn
<1>11. JobOf(w)'
  BY <1>7, <1>8, <1>9 DEF JobOf
<1>12. Starts(w)
  BY <1>8, <1>9, <1>10 DEF Starts, Doomed, cdn
<1> QED
  BY <1>1, <1>9, <1>10, <1>11, <1>12, TypesKept DEF Moves, TypeInv

\* What was begun is given up.
LEMMA RollBackMoves ==
    ASSUME IInv, NEW w \in Workers, RollBack(w)
    PROVE  Moves(w)
<1>1. /\ TypeInv /\ pc[w] \in {"post", "delete"} /\ Goto(w, "idle", Nothing, <<>>)
      /\ "idle" \in Places /\ <<>> \in Seq(AnEvent)
      /\ UNCHANGED <<rows, bus, claims, reaped, unclaimed, stuck, released>>
  BY DEF RollBack, Places, cdn, IInv
<1>2. /\ pc' \in [Workers -> Places] /\ due' \in [Workers -> Seq(AnEvent)]
      /\ DOMAIN job' = Workers /\ job' = [v \in Workers |-> job'[v]]
      /\ pc'[w] = "idle" /\ due'[w] = <<>> /\ Owed(w)' = {} /\ Alone(w)
  BY <1>1, GoesTo, RangeEmpty
<1>3. JobOf(w)' /\ Drops(w)
  <2>1. Owed(w)' \subseteq Owed(w)
    BY <1>2
  <2> QED
    BY <1>1, <1>2, <2>1 DEF JobOf, Drops, cdn
<1> QED
  BY <1>1, <1>2, <1>3, TypesKept DEF Moves, TypeInv

\* An emptied row is a row that is not live and carries nothing.
LEMMA EmptiedRow ==
    ASSUME NEW r \in Row
    PROVE  /\ Emptied(r) \in Row /\ Emptied(r).atts = <<>> /\ Emptied(r).state = "tombstone"
<1>1. <<>> \in Seq(Stored)
  OBVIOUS
<1> QED
  BY <1>1 DEF Row, Emptied

\* A row that goes with its conversation.
LEMMA RemovedRow ==
    ASSUME NEW r \in Row, NEW q, q = [r EXCEPT !.atts = <<>>, !.state = "removed"]
    PROVE  q \in Row /\ q.atts = <<>> /\ q.state = "removed"
<1>1. <<>> \in Seq(Stored)
  OBVIOUS
<1> QED
  BY <1>1 DEF Row

\* What ends messages keeps the types.
LEMMA TypesEnded ==
    ASSUME TypeInv, rows' \in Seq(Row), DOMAIN rows' = DOMAIN rows, UNCHANGED cdn,
           pc' \in [Workers -> Places], due' \in [Workers -> Seq(AnEvent)],
           DOMAIN job' = Workers, job' = [v \in Workers |-> job'[v]]
    PROVE  TypeInv'
  BY DEF TypeInv, cdn

\* A row is emptied, its release owed.
LEMMA DeleteMoves ==
    ASSUME IInv, NEW w \in Workers, Delete(w)
    PROVE  Moves(w)
<1>0. PICK m \in DOMAIN rows : m = job[w].msgs[1]
  BY DEF Delete, IInv, JobInv, JobOf
<1>1. /\ TypeInv /\ pc[w] = "delete" /\ due[w] \in Seq(AnEvent)
      /\ rows' = [rows EXCEPT ![m] = Emptied(rows[m])]
      /\ After(w, due[w]) /\ UNCHANGED <<bus, claims, reaped, unclaimed, stuck, released>>
  BY <1>0 DEF Delete, cdn, IInv, TypeInv
<1>2. ReleasesOf(w) /\ Doomed(w) = {m} /\ \A e \in Owed(w) : e.old # {}
  BY <1>0, <1>1 DEF IInv, ReleasesInv, Doomed, JobInv, JobOf, Owed
<1>3. rows \in Seq(Row) /\ rows[m] \in Row
  BY <1>1 DEF TypeInv
<1>4. /\ rows' \in Seq(Row) /\ DOMAIN rows' = DOMAIN rows /\ rows'[m] = Emptied(rows[m])
      /\ \A n \in DOMAIN rows : n # m => rows'[n] = rows[n]
  BY <1>1, <1>3, EmptiedRow
<1>5. rows'[m].atts = <<>> /\ rows'[m].state = "tombstone"
  BY <1>3, <1>4, EmptiedRow
<1>6. /\ pc' \in [Workers -> Places] /\ due' \in [Workers -> Seq(AnEvent)]
      /\ DOMAIN job' = Workers /\ job' = [v \in Workers |-> job'[v]]
      /\ pc'[w] \in {"idle", "publish"} /\ Owed(w)' = Owed(w) /\ JobOf(w)' /\ Alone(w)
  BY <1>1, GoesAfter DEF Owed
<1>7. Ended(w, m)
  <2>1. ~Live(m)'
    BY <1>5 DEF Live
  <2>2. Live(m) /\ Keys(m) # {} => HasRelease(Owed(w), m)
    BY <1>2 DEF ReleasesOf
  <2> QED
    BY <1>5, <1>6, <2>1, <2>2 DEF Ended
<1>8. \A e \in Owed(w)' : ~Live(e.msg)'
  <2> TAKE e \in Owed(w)'
  <2>1. e.msg \in DOMAIN rows
    BY <1>6 DEF IInv, EventsInv, Events
  <2>2. ~Live(e.msg) \/ e.msg = m
    BY <1>2, <1>6 DEF ReleasesOf
  <2> QED
    BY <1>4, <1>5, <2>1, <2>2 DEF Live
<1>9. Ends(w)
  BY <1>1, <1>4, <1>6, <1>7, <1>8 DEF Ends, cdn
<1> QED
  BY <1>1, <1>4, <1>6, <1>9, TypesEnded DEF Moves, cdn

\* So are all rows of a sender.
LEMMA EraseMoves ==
    ASSUME IInv, NEW w \in Workers, NEW sender \in Senders, Erase(w, sender)
    PROVE  Moves(w)
<1> DEFINE ms == {m \in DOMAIN rows : Live(m) /\ rows[m].sender = sender}
           es == Releases(ms)
<1>1. /\ TypeInv /\ pc[w] = "idle"
      /\ rows' = [m \in DOMAIN rows |-> IF m \in ms THEN Emptied(rows[m]) ELSE rows[m]]
      /\ After(w, es) /\ UNCHANGED <<bus, claims, reaped, unclaimed, stuck, released>>
  BY DEF Erase, cdn, IInv
<1>2. ms \in SUBSET (DOMAIN rows)
  OBVIOUS
<1>3. /\ es \in Seq(AnEvent)
      /\ Range(es) = {Event(m, Keys(m), {}) : m \in {m \in ms : Keys(m) # {}}}
  BY <1>1, <1>2, ReleasesHave
<1> HIDE DEF ms, es
<1>4. /\ rows \in Seq(Row) /\ Len(rows) \in Nat /\ DOMAIN rows = 1 .. Len(rows)
      /\ \A m \in DOMAIN rows : rows[m] \in Row
  BY <1>1 DEF TypeInv
<1>5. /\ DOMAIN rows' = DOMAIN rows
      /\ \A m \in ms : rows'[m] = Emptied(rows[m])
      /\ \A m \in DOMAIN rows : m \notin ms => rows'[m] = rows[m]
  BY <1>1, <1>2
<1>6. rows' \in Seq(Row)
  <2>1. \A m \in DOMAIN rows : (IF m \in ms THEN Emptied(rows[m]) ELSE rows[m]) \in Row
    BY <1>4, EmptiedRow
  <2> QED
    BY <1>1, <1>4, <2>1
<1>7. \A m \in ms : rows'[m].atts = <<>> /\ rows'[m].state = "tombstone"
  BY <1>2, <1>4, <1>5, EmptiedRow
<1>8. /\ pc' \in [Workers -> Places] /\ due' \in [Workers -> Seq(AnEvent)]
      /\ DOMAIN job' = Workers /\ job' = [v \in Workers |-> job'[v]]
      /\ pc'[w] \in {"idle", "publish"} /\ Owed(w)' = Range(es) /\ JobOf(w)' /\ Alone(w)
  BY <1>1, <1>3, GoesAfter
<1> HIDE DEF Keys
<1>9. \A m \in ms : /\ Keys(m) \in SUBSET Media /\ m \in Nat
                    /\ Event(m, Keys(m), {}).msg = m /\ Event(m, Keys(m), {}).new = {}
  BY <1>1, <1>2, <1>4, KeysTyped, EventTyped
<1> HIDE DEF Event
<1>10. \A m \in ms : Ended(w, m)
  <2> TAKE m \in ms
  <2>1. Keys(m) # {} => HasRelease(Owed(w)', m)
    BY <1>3, <1>8, <1>9 DEF HasRelease
  <2> QED
    BY <1>7, <2>1 DEF Ended, Live
<1>11. \A e \in Owed(w)' : ~Live(e.msg)' /\ Tells(e)
  <2> TAKE e \in Owed(w)'
  <2>1. PICK m \in ms : Keys(m) # {} /\ e = Event(m, Keys(m), {})
    BY <1>3, <1>8
  <2> QED
    BY <1>2, <1>7, <1>9, <2>1 DEF Live, Tells
<1>12. Ends(w)
  BY <1>1, <1>2, <1>5, <1>8, <1>10, <1>11 DEF Ends, cdn
<1> QED
  BY <1>1, <1>5, <1>6, <1>8, <1>12, TypesEnded DEF Moves, cdn

\* So are all rows of the conversation, but those that came too late are stuck.
LEMMA DropMoves ==
    ASSUME IInv, NEW w \in Workers, NEW done \in BOOLEAN, DropConversation(w, done)
    PROVE  Moves(w)
<1>1. /\ TypeInv /\ pc[w] = "remove" /\ due[w] \in Seq(AnEvent) /\ <<>> \in Seq(AnEvent)
      /\ UNCHANGED <<bus, claims, reaped, unclaimed, released>>
      /\ After(w, Published(done, due[w]))
  <2>1. TypeInv /\ due[w] \in Seq(AnEvent) /\ <<>> \in Seq(AnEvent)
    BY DEF IInv, TypeInv
  <2> QED
    BY <2>1 DEF DropConversation, cdn
<1>2. ReleasesOf(w) /\ Doomed(w) = Range(job[w].msgs)
  BY <1>1 DEF IInv, ReleasesInv, Doomed
<1>3. CASE done
  <2>1. /\ rows' = [m \in DOMAIN rows |-> [rows[m] EXCEPT !.atts = <<>>, !.state = "removed"]]
        /\ stuck' = stuck \cup (Present \ Range(job[w].msgs))
        /\ After(w, due[w])
    BY <1>1, <1>3 DEF DropConversation, Published
  <2>2. /\ rows \in Seq(Row) /\ Len(rows) \in Nat /\ DOMAIN rows = 1 .. Len(rows)
        /\ \A m \in DOMAIN rows : rows[m] \in Row
    BY <1>1 DEF TypeInv
  <2>3. DOMAIN rows' = DOMAIN rows
    BY <2>1
  <2>4. \A m \in DOMAIN rows :
           rows'[m] \in Row /\ rows'[m].atts = <<>> /\ rows'[m].state = "removed"
    BY <2>1, <2>2, RemovedRow
  <2>5. rows' \in Seq(Row)
    <3>1. rows' = [m \in 1 .. Len(rows) |-> rows'[m]]
      BY <2>1, <2>2
    <3> QED
      BY <2>2, <2>4, <3>1
  <2>6. /\ pc' \in [Workers -> Places] /\ due' \in [Workers -> Seq(AnEvent)]
        /\ DOMAIN job' = Workers /\ job' = [v \in Workers |-> job'[v]]
        /\ pc'[w] \in {"idle", "publish"} /\ Owed(w)' = Owed(w) /\ JobOf(w)' /\ Alone(w)
    BY <1>1, <2>1, GoesAfter DEF Owed
  <2>7. \A m \in DOMAIN rows : Ended(w, m)
    <3> TAKE m \in DOMAIN rows
    <3>1. CASE Live(m) /\ m \in Doomed(w) /\ Keys(m) # {}
      <4>1. HasRelease(Owed(w), m) /\ ~Live(m)'
        BY <1>2, <2>4, <3>1 DEF ReleasesOf, Live
      <4> QED
        BY <2>4, <2>6, <4>1 DEF Ended
    <3>2. CASE Live(m) /\ m \notin Doomed(w)
      <4>1. m \in Present
        BY <3>2 DEF Present, Live
      <4> QED
        BY <1>2, <2>1, <2>4, <3>2, <4>1 DEF Ended, Live
    <3> QED
      BY <2>4, <3>1, <3>2 DEF Ended, Live
  <2>8. \A e \in Owed(w)' : ~Live(e.msg)'
    <3> TAKE e \in Owed(w)'
    <3>1. e.msg \in DOMAIN rows
      BY <2>6 DEF IInv, EventsInv, Events
    <3> QED
      BY <2>4, <3>1 DEF Live
  <2>9. Ends(w)
    BY <1>1, <2>1, <2>3, <2>6, <2>7, <2>8 DEF Ends, cdn
  <2> QED
    BY <1>1, <2>3, <2>5, <2>6, <2>9, TypesEnded DEF Moves, cdn
<1>4. CASE ~done
  <2>1. After(w, <<>>) /\ UNCHANGED <<rows, stuck>>
    BY <1>1, <1>4 DEF DropConversation, Published
  <2>2. /\ pc' \in [Workers -> Places] /\ due' \in [Workers -> Seq(AnEvent)]
        /\ DOMAIN job' = Workers /\ job' = [v \in Workers |-> job'[v]]
        /\ pc'[w] \in {"idle", "publish"} /\ due'[w] = <<>>
        /\ Owed(w)' = {} /\ JobOf(w)' /\ Alone(w)
    BY <1>1, <2>1, GoesAfter, RangeEmpty
  <2>3. pc'[w] = "idle"
    BY <2>2 DEF JobOf
  <2>4. Drops(w)
    <3>1. Owed(w)' \subseteq Owed(w)
      BY <2>2
    <3> QED
      BY <1>1, <2>1, <2>3, <3>1 DEF Drops, cdn
  <2> QED
    BY <1>1, <2>1, <2>2, <2>4, TypesKept DEF Moves, TypeInv
<1> QED
  BY <1>3, <1>4

\* The first event owed is on the bus.
LEMMA PublishMoves ==
    ASSUME IInv, NEW w \in Workers, Publish(w)
    PROVE  Moves(w)
<1> DEFINE e == Head(due[w])
           es == Tail(due[w])
<1>1. /\ TypeInv /\ pc[w] = "publish" /\ bus' = Append(bus, e)
      /\ released' = IF e.new = {} THEN released \cup {e.msg} ELSE released
      /\ stuck' = stuck \cup Overtaken(e) /\ After(w, es)
      /\ UNCHANGED <<rows, claims, reaped, unclaimed>>
      /\ due[w] # <<>> /\ due[w] \in Seq(AnEvent) /\ bus \in Seq(AnEvent)
  BY DEF Publish, IInv, TypeInv, JobInv, JobOf
<1>2. /\ e \in AnEvent /\ e \in Owed(w) /\ es \in Seq(AnEvent) /\ Owed(w) = {e} \cup Range(es)
  BY <1>1, RangeTail DEF Owed
<1> HIDE DEF e, es
<1>3. /\ pc' \in [Workers -> Places] /\ due' \in [Workers -> Seq(AnEvent)]
      /\ DOMAIN job' = Workers /\ job' = [v \in Workers |-> job'[v]]
      /\ pc'[w] \in {"idle", "publish"} /\ Owed(w)' = Range(es) /\ JobOf(w)' /\ Alone(w)
  BY <1>1, <1>2, GoesAfter
<1>4. bus' \in Seq(AnEvent)
  BY <1>1, <1>2
<1>5. Publishes(w)
  BY <1>1, <1>2, <1>3 DEF Publishes
<1> QED
  BY <1>1, <1>3, <1>4, <1>5, TypesKept DEF Moves

\* The first event owed is lost.
LEMMA PublishFailsMoves ==
    ASSUME IInv, NEW w \in Workers, PublishFails(w)
    PROVE  Moves(w)
<1> DEFINE e == Head(due[w])
           es == Tail(due[w])
<1>1. /\ TypeInv /\ pc[w] = "publish" /\ Lost({e}) /\ After(w, es)
      /\ UNCHANGED <<rows, bus, claims, reaped, released>>
      /\ due[w] # <<>> /\ due[w] \in Seq(AnEvent) /\ bus \in Seq(AnEvent)
  BY DEF PublishFails, cdn, IInv, TypeInv, JobInv, JobOf
<1>2. /\ e \in Owed(w) /\ es \in Seq(AnEvent) /\ Owed(w) = {e} \cup Range(es)
  BY <1>1, RangeTail DEF Owed
<1> HIDE DEF e, es
<1>3. /\ pc' \in [Workers -> Places] /\ due' \in [Workers -> Seq(AnEvent)]
      /\ DOMAIN job' = Workers /\ job' = [v \in Workers |-> job'[v]]
      /\ pc'[w] \in {"idle", "publish"} /\ Owed(w)' = Range(es) /\ JobOf(w)' /\ Alone(w)
  BY <1>1, <1>2, GoesAfter
<1>4. Loses(w)
  BY <1>1, <1>2, <1>3 DEF Loses, cdn
<1> QED
  BY <1>1, <1>3, <1>4, TypesKept DEF Moves

\* All that was owed is lost.
LEMMA CrashMoves ==
    ASSUME IInv, NEW w \in Workers, Crash(w)
    PROVE  Moves(w)
<1>1. /\ TypeInv /\ Goto(w, "idle", Nothing, <<>>)
      /\ Lost(IF pc[w] = "publish" THEN Owed(w) ELSE {})
      /\ UNCHANGED <<rows, bus, claims, reaped, released>>
      /\ "idle" \in Places /\ <<>> \in Seq(AnEvent) /\ bus \in Seq(AnEvent)
  BY DEF Crash, cdn, IInv, TypeInv, Places, Owed
<1>2. /\ pc' \in [Workers -> Places] /\ due' \in [Workers -> Seq(AnEvent)]
      /\ DOMAIN job' = Workers /\ job' = [v \in Workers |-> job'[v]]
      /\ pc'[w] = "idle" /\ due'[w] = <<>> /\ Owed(w)' = {} /\ Alone(w)
  BY <1>1, GoesTo, RangeEmpty
<1>3. JobOf(w)'
  BY <1>2 DEF JobOf
<1>4. CASE pc[w] = "publish"
  <2>1. Loses(w)
    BY <1>1, <1>2, <1>4 DEF Loses, cdn
  <2> QED
    BY <1>1, <1>2, <1>3, <2>1, TypesKept DEF Moves
<1>5. CASE pc[w] # "publish"
  <2>1. UNCHANGED <<unclaimed, stuck>>
    BY <1>1, <1>5 DEF Lost
  <2>2. Drops(w)
    <3>1. Owed(w)' \subseteq Owed(w)
      BY <1>2
    <3> QED
      BY <1>1, <1>2, <1>5, <2>1, <3>1 DEF Drops, cdn
  <2> QED
    BY <1>1, <1>2, <1>3, <2>2, TypesKept DEF Moves
<1> QED
  BY <1>4, <1>5

\* A claim is published once more, or passed over.
LEMMA BackfillMoves ==
    ASSUME IInv, NEW w \in Workers, NEW ok \in BOOLEAN, Backfill(w, ok)
    PROVE  Moves(w)
<1> DEFINE e == Head(due[w])
           es == Tail(due[w])
<1>1. /\ TypeInv /\ pc[w] = "backfill"
      /\ bus' = IF ok THEN Append(bus, e) ELSE bus
      /\ stuck' = IF ok THEN stuck \cup Overtaken(e) ELSE stuck
      /\ unclaimed' = IF ok THEN unclaimed \ ({e.msg} \X (Media \ reaped)) ELSE unclaimed
      /\ IF es = <<>> THEN Goto(w, "idle", Nothing, <<>>) ELSE Goto(w, "backfill", Nothing, es)
      /\ UNCHANGED <<rows, claims, reaped, released>>
      /\ due[w] # <<>> /\ due[w] \in Seq(AnEvent) /\ bus \in Seq(AnEvent)
      /\ \A x \in Owed(w) : x.new # {}
      /\ {"idle", "backfill"} \subseteq Places
  BY DEF Backfill, IInv, TypeInv, JobInv, JobOf, Owed, Places
<1>2. /\ e \in AnEvent /\ e \in Owed(w) /\ es \in Seq(AnEvent) /\ Owed(w) = {e} \cup Range(es)
  BY <1>1, RangeTail DEF Owed
<1> HIDE DEF e, es
<1>3. /\ pc' \in [Workers -> Places] /\ due' \in [Workers -> Seq(AnEvent)]
      /\ DOMAIN job' = Workers /\ job' = [v \in Workers |-> job'[v]]
      /\ pc'[w] = (IF es = <<>> THEN "idle" ELSE "backfill") /\ due'[w] = es
      /\ Owed(w)' = Range(es) /\ Alone(w)
  BY <1>1, <1>2, GoesTo
<1>4. JobOf(w)'
  BY <1>1, <1>2, <1>3 DEF JobOf
<1>5. bus' \in Seq(AnEvent)
  BY <1>1, <1>2
<1>6. CASE ok
  <2>1. Publishes(w)
    BY <1>1, <1>2, <1>3, <1>6 DEF Publishes
  <2> QED
    BY <1>1, <1>3, <1>4, <1>5, <2>1, TypesKept DEF Moves
<1>7. CASE ~ok
  <2>1. Drops(w)
    BY <1>1, <1>2, <1>3, <1>7 DEF Drops, cdn
  <2> QED
    BY <1>1, <1>3, <1>4, <1>5, <2>1, TypesKept DEF Moves
<1> QED
  BY <1>6, <1>7

\* Whatever a worker does is one of these.
LEMMA WorkersMove ==
    ASSUME IInv, NEW w \in Workers, Work(w)
    PROVE  Moves(w)
  BY PrepareMoves, PostMoves, RollBackMoves, BeginDeleteMoves, DeleteMoves, EraseMoves,
     BeginDropMoves, DropMoves, PublishMoves, PublishFailsMoves, CrashMoves,
     BeginBackfillMoves, BackfillMoves
     DEF Work

(***************************************************************************)
(* What every step of a worker has in common.                              *)
(***************************************************************************)
\* A row never comes back, and a live one never changes.
RowsOnlyEnd ==
    /\ DOMAIN rows \subseteq DOMAIN rows'
    /\ \A m \in DOMAIN rows : Live(m)' => Live(m) /\ rows'[m] = rows[m]

\* A row is emptied for good.
LEMMA RowsEnd == ASSUME NEW w \in Workers, Moves(w) PROVE RowsOnlyEnd
<1>1. CASE Ends(w)
  BY <1>1 DEF Ends, Ended, RowsOnlyEnd, Live
<1>2. CASE Stores(w)
  BY <1>2 DEF Stores, RowsOnlyEnd, Live
<1> QED
  BY <1>1, <1>2 DEF Moves, Starts, Drops, Loses, Publishes, RowsOnlyEnd, Live

\* Only the events of the worker that moves are new or gone.
LEMMA OthersOwe ==
    ASSUME NEW w \in Workers, Alone(w), NEW v \in Workers \ {w}
    PROVE  Owed(v)' = Owed(v) /\ pc'[v] = pc[v] /\ Doomed(v)' = Doomed(v)
  BY DEF Alone, Owed, Doomed

\* Events come from the rows or were there.
LEMMA EventsMove ==
    ASSUME NEW w \in Workers, Alone(w)
    PROVE  Events' \subseteq Range(bus') \cup Events \cup Owed(w)'
<1> SUFFICES ASSUME NEW v \in Workers, v # w PROVE Owed(v)' \subseteq Events
  BY DEF Events
<1> QED
  BY OthersOwe DEF Events

\* What is on the bus is an event.
LEMMA BusHas ==
    ASSUME TypeInv, NEW e \in AnEvent, bus' = Append(bus, e)
    PROVE  Range(bus') = Range(bus) \cup {e}
  BY RangeAppend DEF TypeInv

\* What is owed is an event.
LEMMA OwedTyped ==
    ASSUME TypeInv
    PROVE  /\ Range(bus) \subseteq AnEvent
           /\ \A w \in Workers : Owed(w) \subseteq AnEvent
  BY RangeTyped DEF TypeInv, Owed

\* Only a live message is told of.
LEMMA TellsOfLive ==
    ASSUME EventsInv, NEW e, Tells(e)
    PROVE  Live(e.msg)
<1>1. \A m : rows[m].atts = <<>> => Keys(m) = {}
  BY DEF Keys
<1> QED
  BY <1>1 DEF EventsInv, Tells

(***************************************************************************)
(* What workers are about.                                                 *)
(***************************************************************************)
LEMMA JobStep == ASSUME JobInv, NEW w \in Workers, Moves(w) PROVE JobInv'
<1> SUFFICES ASSUME NEW v \in Workers, v # w PROVE JobOf(v)'
  BY DEF JobInv, Moves
<1>1. /\ JobOf(v) /\ pc'[v] = pc[v] /\ job'[v] = job[v] /\ due'[v] = due[v]
      /\ DOMAIN rows \subseteq DOMAIN rows'
  BY RowsEnd DEF JobInv, Moves, Alone, RowsOnlyEnd
<1> QED
  BY <1>1 DEF JobOf

(***************************************************************************)
(* Events.                                                                 *)
(***************************************************************************)
\* All about a message stays about the same references.
LEMMA AboutStep ==
    ASSUME EventsInv, RowsOnlyEnd,
           \A e \in Events' : e \in Events \/ Tells(e) \/ e.msg \notin DOMAIN rows,
           \A c \in claims' : c \in claims \/ \E e \in Events : e.msg = c[1] /\ c[2] \in e.new,
           NEW m \in DOMAIN rows
    PROVE  \E K \in SUBSET Media : AllAbout(m, K)'
<1>1. PICK K \in SUBSET Media : AllAbout(m, K)
  BY DEF EventsInv
<1>2. Event(m, {}, K).new = K /\ Event(m, K, {}).new = {}
  BY DEF Event
<1> HIDE DEF Event
<1>3. \A e \in Events' : e.msg = m => K # {} /\ e \in {Event(m, {}, K), Event(m, K, {})}
  <2> SUFFICES ASSUME NEW e \in Events', e.msg = m
               PROVE  K # {} /\ e \in {Event(m, {}, K), Event(m, K, {})}
    OBVIOUS
  <2>1. CASE e \in Events
    BY <1>1, <2>1 DEF AllAbout
  <2>2. CASE Tells(e)
    BY <1>1, <2>2, TellsOfLive DEF AllAbout, Tells
  <2> QED
    BY <2>1, <2>2
<1>4. \A c \in claims' : c[1] = m => c[2] \in K
  BY <1>1, <1>2 DEF AllAbout
<1>5. Live(m)' => K = Keys(m)'
  BY <1>1 DEF AllAbout, RowsOnlyEnd, Keys
<1>6. AllAbout(m, K)'
  BY <1>3, <1>4, <1>5 DEF AllAbout
<1> QED
  BY <1>6

\* All that concerns a message stays about what it carries.
LEMMA EventsStep == ASSUME IInv, NEW w \in Workers, Moves(w) PROVE EventsInv'
<1>0. TypeInv /\ EventsInv /\ RowsOnlyEnd /\ Alone(w)
  BY RowsEnd DEF IInv, Moves
<1>1. ASSUME NEW e \in Events' PROVE e \in Events \/ Tells(e) \/ (Stores(w) /\ e.msg = Len(rows) + 1)
  <2>1. e \in Range(bus') \/ e \in Events \/ e \in Owed(w)'
    BY <1>0, <1>1, EventsMove
  <2>2. CASE Starts(w) \/ Ends(w) \/ Drops(w)
    BY <2>1, <2>2 DEF Starts, Ends, Drops, cdn, Events
  <2>3. CASE Stores(w)
    <3>1. bus' = bus
      BY <2>3 DEF Stores, cdn
    <3>2. e \in Owed(w)' => e.msg = Len(rows) + 1
      BY <2>3 DEF Stores, Event
    <3> QED
      BY <2>1, <2>3, <3>1, <3>2 DEF Events
  <2>4. CASE Loses(w)
    BY <2>1, <2>4 DEF Loses, cdn, Events
  <2>5. CASE Publishes(w)
    <3>1. PICK x \in Owed(w) : Owed(w) = {x} \cup Owed(w)' /\ bus' = Append(bus, x)
      BY <2>5 DEF Publishes
    <3>2. Range(bus') = Range(bus) \cup {x}
      BY <1>0, <3>1, BusHas, OwedTyped
    <3> QED
      BY <2>1, <3>1, <3>2 DEF Events
  <2> QED
    BY <2>2, <2>3, <2>4, <2>5 DEF Moves
<1>2. \A e \in Events' : e.msg \in DOMAIN rows'
  BY <1>0, <1>1 DEF EventsInv, Tells, RowsOnlyEnd, Stores
<1>3. \A m \in DOMAIN rows' : ~Live(m)' => rows'[m].atts = <<>>
  <2>1. CASE Ends(w)
    BY <1>0, <2>1 DEF Ends, Ended, EventsInv, Live
  <2>2. CASE Stores(w)
    BY <1>0, <2>2 DEF Stores, EventsInv, Live
  <2>3. CASE rows' = rows
    BY <1>0, <2>3 DEF EventsInv, Live
  <2> QED
    BY <2>1, <2>2, <2>3 DEF Moves, Starts, Drops, Loses, Publishes
<1>4. claims' = claims
  BY DEF Moves, Starts, Ends, Stores, Drops, Loses, Publishes, cdn
<1>5. \A m \in DOMAIN rows : \E K \in SUBSET Media : AllAbout(m, K)'
  <2>1. \A e \in Events' : e \in Events \/ Tells(e) \/ e.msg \notin DOMAIN rows
    BY <1>1 DEF Stores
  <2> QED
    BY <1>0, <1>4, <2>1, AboutStep
<1>6. ASSUME Stores(w), NEW m, m = Len(rows) + 1
      PROVE  \E K \in SUBSET Media : AllAbout(m, K)'
  <2>0. PICK K \in SUBSET Media : K = Refs(rows'[m].atts)
    BY <1>6 DEF Stores
  <2>1. /\ m \notin DOMAIN rows
        /\ Owed(w)' = IF K = {} THEN {} ELSE {Event(m, {}, K)}
    BY <1>6, <2>0 DEF Stores
  <2>2. Keys(m)' = K
    BY <2>0 DEF Keys, Refs
  <2>3. \A e \in Events' : e.msg = m => K # {} /\ e = Event(m, {}, K)
    <3> SUFFICES ASSUME NEW e \in Events', e.msg = m PROVE e \in Owed(w)'
      BY <2>1
    <3>1. bus' = bus /\ e \notin Events
      BY <1>0, <1>6, <2>1 DEF Stores, cdn, EventsInv
    <3>2. e \in Range(bus') \/ e \in Events \/ e \in Owed(w)'
      BY <1>0, EventsMove
    <3> QED
      BY <3>1, <3>2 DEF Events
  <2>4. \A c \in claims' : c[1] # m
    BY <1>0, <1>4, <2>1 DEF TypeInv
  <2>5. AllAbout(m, K)'
    BY <2>2, <2>3, <2>4 DEF AllAbout
  <2> QED
    BY <2>1, <2>5
<1>7. DOMAIN rows' = DOMAIN rows \/ (Stores(w) /\ DOMAIN rows' = DOMAIN rows \cup {Len(rows) + 1})
  BY DEF Moves, Starts, Ends, Stores, Drops, Loses, Publishes
<1>8. \A m \in DOMAIN rows' : \E K \in SUBSET Media : AllAbout(m, K)'
  BY <1>5, <1>6, <1>7
<1> QED
  BY <1>2, <1>3, <1>8 DEF EventsInv

(***************************************************************************)
(* Releases.                                                               *)
(***************************************************************************)
LEMMA ReleasesStep == ASSUME IInv, NEW w \in Workers, Moves(w) PROVE ReleasesInv'
<1>0. /\ TypeInv /\ JobInv /\ EventsInv /\ ReleasesInv /\ ReleasesOf(w)
      /\ RowsOnlyEnd /\ Alone(w) /\ JobOf(w)'
  BY RowsEnd DEF IInv, Moves, ReleasesInv
<1>1. \A m \in DOMAIN rows : Live(m)' => Live(m) /\ Keys(m)' = Keys(m)
  BY <1>0 DEF RowsOnlyEnd, Keys
<1>2. \A e \in Range(bus') : e.old # {} => ~Live(e.msg)'
  <2>1. \A e \in Range(bus) : e.old # {} => ~Live(e.msg)'
    BY <1>0, <1>1 DEF EventsInv, Events, ReleasesInv
  <2>2. CASE Publishes(w)
    <3>1. PICK x \in Owed(w) : bus' = Append(bus, x)
      BY <2>2 DEF Publishes
    <3>2. Range(bus') = Range(bus) \cup {x}
      BY <1>0, <3>1, BusHas, OwedTyped
    <3>3. x.old # {} => ~Live(x.msg)'
      BY <1>0, <2>2 DEF Publishes, ReleasesOf, Live
    <3> QED
      BY <2>1, <3>2, <3>3
  <2>3. CASE bus' = bus
    BY <2>1, <2>3
  <2> QED
    BY <2>2, <2>3 DEF Moves, Starts, Ends, Stores, Drops, Loses, cdn
<1>3. ASSUME NEW v \in Workers, v # w PROVE ReleasesOf(v)'
  <2>1. /\ ReleasesOf(v) /\ Owed(v)' = Owed(v) /\ pc'[v] = pc[v] /\ Doomed(v)' = Doomed(v)
        /\ Doomed(v) \subseteq DOMAIN rows
        /\ \A e \in Owed(v) : e.msg \in DOMAIN rows
    <3>1. Doomed(v) \subseteq DOMAIN rows
      BY <1>0 DEF JobInv, JobOf, Doomed
    <3> QED
      BY <1>0, <1>3, <3>1, OthersOwe DEF EventsInv, Events, ReleasesInv
  <2>2. \A e \in Owed(v)' : e.old # {} =>
           \/ ~Live(e.msg)'
           \/ pc'[v] \in {"delete", "remove"} /\ e.msg \in Doomed(v)'
    BY <1>1, <2>1 DEF ReleasesOf
  <2>3. \A m \in Doomed(v)' : Live(m)' /\ Keys(m)' # {} => HasRelease(Owed(v)', m)
    BY <1>1, <2>1 DEF ReleasesOf
  <2> QED
    BY <2>1, <2>2, <2>3 DEF ReleasesOf, HasRelease
<1>4. ReleasesOf(w)'
  <2>1. CASE Starts(w)
    <3>1. \A m : (Live(m)' <=> Live(m)) /\ Keys(m)' = Keys(m)
      BY <2>1 DEF Starts, Live, Keys
    <3>2. \A e \in Owed(w)' : e.old # {} =>
             pc'[w] \in {"delete", "remove"} /\ e.msg \in Doomed(w)'
      BY <2>1 DEF Starts
    <3>3. \A m \in Doomed(w)' : Live(m)' /\ Keys(m)' # {} => HasRelease(Owed(w)', m)
      BY <2>1, <3>1 DEF Starts
    <3> QED
      BY <3>2, <3>3 DEF ReleasesOf, HasRelease
  <2>2. CASE ~Starts(w)
    <3>1. pc'[w] \in {"idle", "publish", "backfill"}
      BY <2>2 DEF Moves, Ends, Stores, Drops, Loses, Publishes
    <3>2. Doomed(w)' = {}
      BY <3>1 DEF Doomed
    <3>3. \A e \in Owed(w)' : e.old # {} => ~Live(e.msg)'
      <4>1. CASE Ends(w)
        BY <4>1 DEF Ends
      <4>2. CASE Stores(w)
        BY <4>2 DEF Stores, Event
      <4>3. CASE Drops(w)
        <5>1. CASE pc'[w] = "idle"
          BY <1>0, <5>1, RangeEmpty DEF JobOf, Owed
        <5>2. CASE pc[w] = "backfill"
          BY <1>0, <4>3, <5>2 DEF Drops, ReleasesOf, Live
        <5> QED
          BY <4>3, <5>1, <5>2 DEF Drops
      <4>4. CASE Loses(w) \/ Publishes(w)
        <5>1. Owed(w)' \subseteq Owed(w) /\ rows' = rows /\ pc[w] \in {"publish", "backfill"}
          BY <4>4 DEF Loses, Publishes
        <5> QED
          BY <1>0, <5>1 DEF ReleasesOf, Live
      <4> QED
        BY <2>2, <4>1, <4>2, <4>3, <4>4 DEF Moves
    <3> QED
      BY <3>2, <3>3 DEF ReleasesOf
  <2> QED
    BY <2>1, <2>2
<1> QED
  BY <1>2, <1>3, <1>4 DEF ReleasesInv

(***************************************************************************)
(* What is live is claimed, or will be.                                    *)
(***************************************************************************)
\* What flows to the CDN goes on flowing, unless it is lost.
LEMMA FlowingStep ==
    ASSUME IInv, NEW w \in Workers, Moves(w)
    PROVE  \A e \in Flowing : e \in Flowing' \/ (Loses(w) /\ {e.msg} \X e.new \subseteq unclaimed')
<1> SUFFICES ASSUME NEW e \in Flowing, e \notin Flowing'
             PROVE  Loses(w) /\ {e.msg} \X e.new \subseteq unclaimed'
  OBVIOUS
<1>1. Alone(w) /\ TypeInv
  BY DEF Moves, IInv
<1>2. \A v \in Workers \ {w} : Owed(v)' = Owed(v) /\ pc'[v] = pc[v]
  BY <1>1, OthersOwe
<1>3. Range(bus) \subseteq Range(bus')
  <2>1. CASE Publishes(w)
    BY <1>1, <2>1, BusHas, OwedTyped DEF Publishes
  <2>2. CASE bus' = bus
    BY <2>2
  <2> QED
    BY <2>1, <2>2 DEF Moves, Starts, Ends, Stores, Drops, Loses, cdn
<1>4. pc[w] = "publish" /\ e \in Owed(w)
  BY <1>2, <1>3 DEF Flowing
<1>5. e \notin Owed(w)'
  <2> SUFFICES ASSUME e \in Owed(w)' PROVE FALSE
    OBVIOUS
  <2>1. due'[w] # <<>>
    BY RangeEmpty DEF Owed
  <2>2. pc'[w] # "idle"
    BY <2>1 DEF Moves, JobOf
  <2>3. pc'[w] = "publish"
    BY <1>4, <2>2 DEF Moves, Starts, Ends, Stores, Drops, Loses, Publishes
  <2> QED
    BY <2>3 DEF Flowing
<1>6. CASE Loses(w)
  <2>1. PICK es \in SUBSET Owed(w) : Owed(w) = es \cup Owed(w)' /\ Lost(es)
    BY <1>6 DEF Loses
  <2>2. e \in es
    BY <1>4, <1>5, <2>1
  <2> QED
    BY <1>6, <2>1, <2>2 DEF Lost
<1>7. CASE Publishes(w)
  <2>1. PICK x \in Owed(w) : Owed(w) = {x} \cup Owed(w)' /\ bus' = Append(bus, x)
    BY <1>7 DEF Publishes
  <2>2. e = x /\ Range(bus') = Range(bus) \cup {x}
    BY <1>1, <1>4, <1>5, <2>1, BusHas, OwedTyped
  <2> QED
    BY <2>2 DEF Flowing
<1> QED
  BY <1>4, <1>6, <1>7 DEF Moves, Starts, Ends, Stores, Drops

\* What a live message carries stays claimed, or coming, or told as lost.
LEMMA KeptStep == ASSUME IInv, NEW w \in Workers, Moves(w) PROVE KeptInv'
<1>0. /\ TypeInv /\ EventsInv /\ KeptInv /\ RowsOnlyEnd /\ JobOf(w)'
      /\ claims' = claims /\ reaped' = reaped
  BY RowsEnd DEF IInv, Moves, Starts, Ends, Stores, Drops, Loses, Publishes, cdn
<1>1. ASSUME NEW m \in DOMAIN rows, Live(m)', NEW r \in Keys(m)'
      PROVE  \/ <<m, r>> \in unclaimed'
             \/ r \notin reaped' /\ (<<m, r>> \in claims' \/ Coming(m, r)')
  <2>1. Live(m) /\ r \in Keys(m)
    BY <1>0, <1>1 DEF RowsOnlyEnd, Keys
  <2>2. CASE <<m, r>> \in unclaimed /\ <<m, r>> \notin unclaimed'
    <3>1. Publishes(w)
      BY <2>2 DEF Moves, Starts, Ends, Stores, Drops, Loses, Lost
    <3>2. PICK e \in Owed(w) :
             /\ bus' = Append(bus, e)
             /\ \/ unclaimed' = unclaimed
                \/ /\ e.new # {}
                   /\ unclaimed' = unclaimed \ ({e.msg} \X (Media \ reaped))
      BY <3>1 DEF Publishes
    <3>3. e.new # {} /\ e.msg = m /\ r \notin reaped
      BY <2>2, <3>2
    <3>4. PICK K : AllAbout(m, K)
      BY <1>0 DEF EventsInv
    <3>5. e \in Events
      BY DEF Events
    <3>6. e = Event(m, {}, K) \/ e = Event(m, K, {})
      BY <3>3, <3>4, <3>5 DEF AllAbout
    <3>7. e.new = Keys(m)
      BY <2>1, <3>3, <3>4, <3>6 DEF AllAbout, Event
    <3>8. e \in Range(bus')
      BY <1>0, <3>2, BusHas, OwedTyped
    <3> QED
      BY <1>0, <2>1, <3>3, <3>7, <3>8 DEF Coming, Flowing
  <2>3. CASE r \notin reaped /\ <<m, r>> \in claims
    BY <1>0, <2>3
  <2>4. CASE r \notin reaped /\ Coming(m, r)
    <3>1. PICK e \in Flowing : e.msg = m /\ r \in e.new
      BY <2>4 DEF Coming
    <3>2. e \in Flowing' \/ <<m, r>> \in unclaimed'
      BY <3>1, FlowingStep
    <3> QED
      BY <1>0, <2>4, <3>1, <3>2 DEF Coming
  <2> QED
    BY <1>0, <2>1, <2>2, <2>3, <2>4 DEF KeptInv
<1>2. ASSUME Stores(w), NEW m, m = Len(rows) + 1, NEW r \in Keys(m)'
      PROVE  \/ <<m, r>> \in unclaimed'
             \/ r \notin reaped' /\ Coming(m, r)'
  <2>1. PICK K : K = Refs(rows'[m].atts)
    OBVIOUS
  <2>2. r \in K /\ Owed(w)' = {Event(m, {}, K)} /\ unclaimed' = unclaimed \cup ({m} \X reaped)
    BY <1>2, <2>1 DEF Stores, Keys, Refs
  <2>3. pc'[w] = "publish"
    <3>1. due'[w] # <<>>
      BY <2>2, RangeEmpty DEF Owed
    <3> QED
      BY <1>0, <1>2, <3>1 DEF JobOf, Stores
  <2>4. Event(m, {}, K) \in Flowing'
    BY <2>2, <2>3 DEF Flowing
  <2>5. Event(m, {}, K).msg = m /\ r \in Event(m, {}, K).new
    BY <2>2 DEF Event
  <2>6. Coming(m, r)'
    <3> HIDE DEF Event
    <3> QED
      BY <2>4, <2>5 DEF Coming
  <2> QED
    BY <1>0, <2>2, <2>6
<1>3. DOMAIN rows' = DOMAIN rows \/ (Stores(w) /\ DOMAIN rows' = DOMAIN rows \cup {Len(rows) + 1})
  BY DEF Moves, Starts, Ends, Stores, Drops, Loses, Publishes
<1> QED
  BY <1>1, <1>2, <1>3 DEF KeptInv

(***************************************************************************)
(* What is dead is released, or will be.                                   *)
(***************************************************************************)
LEMMA LiveIsPublishing ==
    ASSUME NEW w \in Workers, Moves(w), pc'[w] \in {"idle", "publish"}, NEW m,
           HasRelease(Owed(w)', m)
    PROVE  Pending(m)'
<1>1. due'[w] # <<>>
  BY RangeEmpty DEF HasRelease, Owed
<1>2. pc'[w] = "publish"
  BY <1>1 DEF Moves, JobOf
<1> QED
  BY <1>2 DEF Pending, HasRelease

\* A pending release goes on pending, unless its worker publishes or loses it.
LEMMA PendingStep ==
    ASSUME IInv, NEW w \in Workers, Moves(w), NEW m, Pending(m)
    PROVE  \/ Pending(m)'
           \/ \E e \in Owed(w) : e.msg = m /\ e.new = {} /\ e \notin Owed(w)' /\ pc[w] = "publish"
<1>1. PICK v \in Workers : pc[v] = "publish" /\ HasRelease(Owed(v), m)
  BY DEF Pending
<1>2. CASE v # w
  <2>1. Owed(v)' = Owed(v) /\ pc'[v] = pc[v]
    BY <1>2, OthersOwe DEF Moves
  <2> QED
    BY <1>1, <2>1 DEF Pending, HasRelease
<1>3. CASE v = w
  <2>1. PICK e \in Owed(w) : e.msg = m /\ e.new = {}
    BY <1>1, <1>3 DEF HasRelease
  <2>2. CASE e \in Owed(w)'
    <3>1. pc'[w] \in {"idle", "publish"}
      BY <1>1, <1>3 DEF Moves, Starts, Ends, Stores, Drops, Loses, Publishes
    <3>2. HasRelease(Owed(w)', m)
      BY <2>1, <2>2 DEF HasRelease
    <3> QED
      BY <3>1, <3>2, LiveIsPublishing
  <2> QED
    BY <1>1, <1>3, <2>1, <2>2
<1> QED
  BY <1>2, <1>3

\* Nothing new is told of a message that was never told of.
LEMMA UntoldStep ==
    ASSUME IInv, NEW w \in Workers, Moves(w), NEW m \in DOMAIN rows,
           ~Live(m) \/ Keys(m) = {}, Untold(m)
    PROVE  Untold(m)'
<1>0. TypeInv /\ EventsInv /\ Alone(w) /\ claims' = claims
  BY DEF IInv, Moves, Starts, Ends, Stores, Drops, Loses, Publishes, cdn
<1>1. \A e : Tells(e) => e.msg # m
  BY <1>0, TellsOfLive DEF Tells
<1>2. \A e \in Owed(w)' : e.msg # m
  <2>1. \A e \in Owed(w) : e.msg # m
    BY DEF Untold, Events
  <2>2. CASE Stores(w)
    BY <2>2 DEF Stores, Event
  <2> QED
    BY <1>1, <2>1, <2>2 DEF Moves, Starts, Ends, Drops, Loses, Publishes
<1>3. \A e \in Range(bus') : e.msg # m
  <2>1. \A e \in Range(bus) \cup Owed(w) : e.msg # m
    BY DEF Untold, Events
  <2>2. CASE Publishes(w)
    BY <1>0, <2>1, <2>2, BusHas, OwedTyped DEF Publishes
  <2> QED
    BY <2>1, <2>2 DEF Moves, Starts, Ends, Stores, Drops, Loses, cdn
<1>4. \A e \in Events' : e.msg # m
  BY <1>0, <1>2, <1>3, EventsMove DEF Untold
<1> QED
  BY <1>0, <1>4 DEF Untold

\* Whatever is published comes behind what was.
LEMMA BusGrows ==
    ASSUME TypeInv, NEW e \in AnEvent, bus' = Append(bus, e)
    PROVE  /\ Len(bus) \in Nat /\ DOMAIN bus = 1 .. Len(bus)
           /\ DOMAIN bus' = 1 .. Len(bus) + 1
           /\ bus'[Len(bus) + 1] = e /\ \A i \in DOMAIN bus : bus'[i] = bus[i]
  BY DEF TypeInv

\* What is settled stays so when a worker publishes.
LEMMA PublishedSettled ==
    ASSUME IInv, NEW w \in Workers, Moves(w), Publishes(w), NEW m \in DOMAIN rows,
           ~Live(m), Settled(m)
    PROVE  Settled(m)'
<1>0. TypeInv /\ EventsInv /\ claims' = claims
  BY DEF IInv, Publishes
<1>1. PICK e \in Owed(w) :
         /\ Owed(w) = {e} \cup Owed(w)' /\ bus' = Append(bus, e)
         /\ released' = IF e.new = {} THEN released \cup {e.msg} ELSE released
         /\ stuck' = stuck \cup Overtaken(e)
  BY DEF Publishes
<1>2. /\ Len(bus) \in Nat /\ DOMAIN bus = 1 .. Len(bus)
      /\ DOMAIN bus' = 1 .. Len(bus) + 1
      /\ bus'[Len(bus) + 1] = e /\ \A i \in DOMAIN bus : bus'[i] = bus[i]
  BY <1>0, <1>1, BusGrows, OwedTyped
<1>3. CASE e.msg = m /\ e.new = {}
  <2>1. m \in released'
    BY <1>1, <1>3
  <2>2. \A i \in 0 .. Len(bus) : ReleasedAfter(m, i)'
    BY <1>2, <1>3 DEF ReleasedAfter
  <2>3. LastWord(m)'
    BY <1>2, <1>3, <2>1, <2>2 DEF LastWord
  <2> QED
    BY <2>3 DEF Settled
<1>4. CASE ~(e.msg = m /\ e.new = {})
  <2>1. CASE m \in stuck
    BY <1>1, <2>1 DEF Settled
  <2>2. CASE Pending(m)
    <3>1. Pending(m)'
      BY <1>1, <1>4, <2>2, PendingStep
    <3> QED
      BY <3>1 DEF Settled
  <2>3. CASE LastWord(m)
    <3>1. CASE e.msg = m
      <4>1. m \in Overtaken(e)
        BY <1>4, <2>3, <3>1 DEF LastWord, Overtaken
      <4> QED
        BY <1>1, <4>1 DEF Settled
    <3>2. CASE e.msg # m
      <4>1. \A i \in Int : ReleasedAfter(m, i) => ReleasedAfter(m, i)'
        BY <1>2 DEF ReleasedAfter
      <4>2. m \in released'
        BY <1>1, <2>3 DEF LastWord
      <4>3. LastWord(m)'
        BY <1>0, <1>2, <2>3, <3>2, <4>1, <4>2 DEF LastWord
      <4> QED
        BY <4>3 DEF Settled
    <3> QED
      BY <3>1, <3>2
  <2>4. CASE Untold(m)
    BY <2>4, UntoldStep DEF Settled
  <2> QED
    BY <2>1, <2>2, <2>3, <2>4 DEF Settled
<1> QED
  BY <1>3, <1>4

\* What is dead stays settled.
LEMMA SettledStep == ASSUME IInv, NEW w \in Workers, Moves(w) PROVE SettledInv'
<1>0. /\ TypeInv /\ EventsInv /\ SettledInv /\ stuck \subseteq stuck'
  BY DEF IInv, Moves, Starts, Ends, Stores, Drops, Loses, Publishes, Lost
<1>1. ASSUME NEW m \in DOMAIN rows, ~Live(m) PROVE Settled(m)'
  <2>1. Settled(m)
    BY <1>0, <1>1 DEF SettledInv
  <2>2. CASE Publishes(w)
    BY <1>1, <2>1, <2>2, PublishedSettled
  <2>3. CASE ~Publishes(w)
    <3>0. UNCHANGED <<bus, claims, released>>
      BY <2>3 DEF Moves, Starts, Ends, Stores, Drops, Loses, cdn
    <3>1. CASE m \in stuck
      BY <1>0, <3>1 DEF Settled
    <3>2. CASE Pending(m) /\ ~Pending(m)'
      <4>1. PICK e \in Owed(w) : /\ e.msg = m /\ e.new = {} /\ e \notin Owed(w)'
                                 /\ pc[w] = "publish"
        BY <3>2, PendingStep
      <4>2. Loses(w)
        BY <2>3, <4>1 DEF Moves, Starts, Ends, Stores, Drops
      <4>3. m \in stuck'
        BY <4>1, <4>2 DEF Loses, Lost
      <4> QED
        BY <4>3 DEF Settled
    <3>3. CASE LastWord(m)
      BY <3>0, <3>3 DEF Settled, LastWord, ReleasedAfter
    <3>4. CASE Untold(m)
      BY <1>1, <3>4, UntoldStep DEF Settled
    <3> QED
      BY <2>1, <3>1, <3>2, <3>3, <3>4 DEF Settled
  <2> QED
    BY <2>2, <2>3
<1>2. ASSUME NEW m \in DOMAIN rows, Live(m), ~Live(m)' PROVE Settled(m)'
  <2>1. Ends(w) /\ Ended(w, m)
    BY <1>2 DEF Moves, Starts, Ends, Stores, Drops, Loses, Publishes, Live
  <2>2. CASE m \in stuck'
    BY <2>2 DEF Settled
  <2>3. CASE HasRelease(Owed(w)', m)
    BY <2>1, <2>3, LiveIsPublishing DEF Ends, Settled
  <2>4. CASE Keys(m) = {}
    <3>1. PICK K : AllAbout(m, K)
      BY <1>0 DEF EventsInv
    <3>2. Untold(m)
      BY <1>2, <2>4, <3>1 DEF AllAbout, Untold
    <3> QED
      BY <2>4, <3>2, UntoldStep DEF Settled
  <2> QED
    BY <1>2, <2>1, <2>2, <2>3, <2>4 DEF Ended
<1>3. \A m \in DOMAIN rows' : ~Live(m)' => m \in DOMAIN rows
  BY DEF Moves, Starts, Ends, Stores, Drops, Loses, Publishes, Live
<1> QED
  BY <1>1, <1>2, <1>3 DEF SettledInv

(***************************************************************************)
(* Steps that leave a part of the world alone.                             *)
(***************************************************************************)
\* The releases of the workers, when neither the rows nor the work changes.
LEMMA ReleasesKept ==
    ASSUME UNCHANGED <<rows, work>>, NEW w \in Workers, ReleasesOf(w)
    PROVE  ReleasesOf(w)'
<1>1. Owed(w)' = Owed(w) /\ Doomed(w)' = Doomed(w) /\ pc' = pc
  BY DEF Owed, Doomed, work
<1>2. \A m : (Live(m)' <=> Live(m)) /\ Keys(m)' = Keys(m)
  BY DEF Live, Keys
<1>3. \A m : HasRelease(Owed(w), m)' <=> HasRelease(Owed(w), m)
  BY <1>1 DEF HasRelease
<1> QED
  BY <1>1, <1>2, <1>3 DEF ReleasesOf

\* All that concerns the messages, when nothing of it changes.
LEMMA EventsKept ==
    ASSUME UNCHANGED <<rows, bus, claims, work>>, EventsInv PROVE EventsInv'
<1>1. Events' = Events
  BY DEF Events, Owed, work
<1>2. \A m : (Live(m)' <=> Live(m)) /\ Keys(m)' = Keys(m)
  BY DEF Live, Keys
<1>3. \A m, K : AllAbout(m, K) => AllAbout(m, K)'
  BY <1>1, <1>2 DEF AllAbout
<1>4. \A m \in DOMAIN rows : \E K \in SUBSET Media : AllAbout(m, K)'
  BY <1>3 DEF EventsInv
<1> QED
  BY <1>1, <1>2, <1>4 DEF EventsInv

\* What is settled, when nothing of it changes.
LEMMA SettledKept ==
    ASSUME UNCHANGED <<rows, bus, claims, work, released, stuck>>, SettledInv PROVE SettledInv'
<1>1. Events' = Events
  BY DEF Events, Owed, work
<1>2. \A m : Untold(m)' <=> Untold(m)
  BY <1>1 DEF Untold
<1>3. \A m : LastWord(m)' <=> LastWord(m)
  BY DEF LastWord, ReleasedAfter
<1>4. \A m : Pending(m)' <=> Pending(m)
  BY DEF Pending, HasRelease, Owed, work
<1>5. \A m : Live(m)' <=> Live(m)
  BY DEF Live
<1> QED
  BY <1>2, <1>3, <1>4, <1>5 DEF SettledInv, Settled

(***************************************************************************)
(* The CDN applies the first event of its bus.                             *)
(***************************************************************************)
LEMMA Applied ==
    ASSUME IInv, Apply
    PROVE  \E e \in AnEvent :
              /\ e \in Events /\ e.msg \in DOMAIN rows /\ bus # <<>> /\ e = bus[1]
              /\ Range(bus) = {e} \cup Range(bus') /\ bus' \in Seq(AnEvent)
              /\ Len(bus) \in Nat /\ DOMAIN bus = 1 .. Len(bus)
              /\ DOMAIN bus' = 1 .. Len(bus) - 1
              /\ \A i \in DOMAIN bus' : bus'[i] = bus[i + 1]
              /\ claims' = (claims \ ({e.msg} \X (e.old \ e.new)))
                              \cup ({e.msg} \X (e.new \ e.old))
              /\ UNCHANGED <<rows, reaped, work, unclaimed, stuck, released>>
<1> DEFINE e == Head(bus)
<1>1. /\ bus # <<>> /\ bus' = Tail(bus) /\ bus \in Seq(AnEvent)
      /\ claims' = (claims \ ({e.msg} \X (e.old \ e.new))) \cup ({e.msg} \X (e.new \ e.old))
      /\ UNCHANGED <<rows, reaped, work, unclaimed, stuck, released>>
  BY DEF Apply, IInv, TypeInv
<1>2. /\ e \in AnEvent /\ e \in Range(bus) /\ bus' \in Seq(AnEvent)
      /\ Range(bus) = {e} \cup Range(bus')
  BY <1>1, RangeTail
<1>3. /\ e = bus[1] /\ Len(bus) \in Nat /\ DOMAIN bus = 1 .. Len(bus)
      /\ DOMAIN bus' = 1 .. Len(bus) - 1
      /\ \A i \in DOMAIN bus' : bus'[i] = bus[i + 1]
  BY <1>1
<1> HIDE DEF e
<1>4. e \in Events /\ e.msg \in DOMAIN rows
  BY <1>2 DEF IInv, EventsInv, Events
<1> QED
  BY <1>1, <1>2, <1>3, <1>4

\* Applying an event of the bus keeps all of it.
LEMMA ApplyStep == ASSUME IInv, Apply PROVE IInv'
<1>1. PICK e \in AnEvent :
         /\ e \in Events /\ e.msg \in DOMAIN rows /\ bus # <<>> /\ e = bus[1]
         /\ Range(bus) = {e} \cup Range(bus') /\ bus' \in Seq(AnEvent)
         /\ Len(bus) \in Nat /\ DOMAIN bus = 1 .. Len(bus)
         /\ DOMAIN bus' = 1 .. Len(bus) - 1
         /\ \A i \in DOMAIN bus' : bus'[i] = bus[i + 1]
         /\ claims' = (claims \ ({e.msg} \X (e.old \ e.new))) \cup ({e.msg} \X (e.new \ e.old))
         /\ UNCHANGED <<rows, reaped, work, unclaimed, stuck, released>>
  BY Applied
<1>2. PICK K \in SUBSET Media : AllAbout(e.msg, K)
  BY <1>1 DEF IInv, EventsInv
<1>3. \/ e.old = {} /\ e.new = K
      \/ e.old = K /\ e.new = {}
  BY <1>1, <1>2 DEF AllAbout, Event
<1>4. /\ Live(e.msg) => e.old = {}
      /\ K # {}
  BY <1>1, <1>2 DEF IInv, ReleasesInv, AllAbout
<1>5. Events' \subseteq Events
  BY <1>1 DEF Events, Owed, work
<1>6. TypeInv'
  BY <1>1 DEF IInv, TypeInv, AnEvent, work
<1>7. JobInv'
  BY <1>1 DEF IInv, JobInv, JobOf, work
<1>8. EventsInv'
  <2>1. EventsInv /\ RowsOnlyEnd
    BY <1>1 DEF IInv, RowsOnlyEnd, Live
  <2>2. \A c \in claims' : c \in claims \/ \E x \in Events : x.msg = c[1] /\ c[2] \in x.new
    BY <1>1
  <2>3. \A m \in DOMAIN rows : \E k \in SUBSET Media : AllAbout(m, k)'
    BY <1>5, <2>1, <2>2, AboutStep
  <2> QED
    BY <1>1, <1>5, <2>1, <2>3 DEF EventsInv, Live
<1>9. ReleasesInv'
  <2>1. \A x \in Range(bus') : x.old # {} => ~Live(x.msg)'
    BY <1>1 DEF IInv, ReleasesInv, Live
  <2>2. \A w \in Workers : ReleasesOf(w)'
    BY <1>1, ReleasesKept DEF IInv, ReleasesInv
  <2> QED
    BY <2>1, <2>2 DEF ReleasesInv
<1>10. KeptInv'
  <2> SUFFICES ASSUME NEW m \in DOMAIN rows, Live(m), NEW r \in Keys(m), <<m, r>> \notin unclaimed
               PROVE  r \notin reaped /\ (<<m, r>> \in claims' \/ Coming(m, r)')
    BY <1>1 DEF KeptInv, Live, Keys
  <2>1. r \notin reaped /\ (<<m, r>> \in claims \/ Coming(m, r))
    BY DEF IInv, KeptInv
  <2>2. CASE <<m, r>> \in claims
    BY <1>1, <1>4, <2>1, <2>2
  <2>3. CASE Coming(m, r)
    <3>1. PICK x \in Flowing : x.msg = m /\ r \in x.new
      BY <2>3 DEF Coming
    <3>2. CASE x = e
      BY <1>1, <1>3, <2>1, <3>1, <3>2
    <3>3. CASE x # e
      <4>1. x \in Flowing'
        BY <1>1, <3>1, <3>3 DEF Flowing, Owed, work
      <4> QED
        BY <2>1, <3>1, <4>1 DEF Coming
    <3> QED
      BY <3>2, <3>3
  <2> QED
    BY <2>1, <2>2, <2>3
<1>11. SettledInv'
  <2> SUFFICES ASSUME NEW m \in DOMAIN rows, ~Live(m) PROVE Settled(m)'
    BY <1>1 DEF SettledInv, Live
  <2>1. Settled(m)
    BY DEF IInv, SettledInv
  <2>2. CASE m \in stuck
    BY <1>1, <2>2 DEF Settled
  <2>3. CASE Pending(m)
    BY <1>1, <2>3 DEF Settled, Pending, Owed, HasRelease, work
  <2>4. CASE LastWord(m)
    <3>1. \A i \in Nat : i > 0 /\ ReleasedAfter(m, i) => ReleasedAfter(m, i - 1)'
      <4> SUFFICES ASSUME NEW i \in Nat, i > 0, ReleasedAfter(m, i) PROVE ReleasedAfter(m, i - 1)'
        OBVIOUS
      <4>1. PICK j \in DOMAIN bus : j > i /\ bus[j].msg = m /\ bus[j].new = {}
        BY DEF ReleasedAfter
      <4>2. j - 1 \in DOMAIN bus' /\ j - 1 > i - 1 /\ bus'[j - 1] = bus[j]
        BY <1>1, <4>1
      <4> QED
        BY <4>1, <4>2 DEF ReleasedAfter
    <3>2. \A i \in DOMAIN bus' : bus'[i].msg = m /\ bus'[i].new # {} => ReleasedAfter(m, i)'
      <4> SUFFICES ASSUME NEW i \in DOMAIN bus', bus'[i].msg = m, bus'[i].new # {}
                   PROVE  ReleasedAfter(m, i)'
        OBVIOUS
      <4>1. i + 1 \in DOMAIN bus /\ bus[i + 1] = bus'[i] /\ i \in Nat
        BY <1>1
      <4>2. ReleasedAfter(m, i + 1)
        BY <2>4, <4>1 DEF LastWord
      <4>3. ReleasedAfter(m, (i + 1) - 1)'
        BY <3>1, <4>1, <4>2
      <4>4. (i + 1) - 1 = i
        BY <4>1
      <4> QED
        BY <4>3, <4>4
    <3>3. ASSUME NEW c \in claims', c[1] = m PROVE ReleasedAfter(m, 0)'
      <4>1. CASE e.msg = m /\ e.new # {}
        <5>1. 1 \in DOMAIN bus
          BY <1>1
        <5>2. ReleasedAfter(m, 1)
          BY <1>1, <2>4, <4>1, <5>1 DEF LastWord
        <5> QED
          BY <3>1, <5>2
      <4>2. CASE e.msg = m /\ e.new = {}
        <5>1. c \in claims /\ c \notin {m} \X K
          BY <1>1, <1>3, <3>3, <4>2
        <5>2. c[2] \in K
          BY <1>2, <3>3, <4>2, <5>1 DEF AllAbout
        <5>3. c = <<c[1], c[2]>>
          BY <5>1 DEF IInv, TypeInv
        <5> QED
          BY <3>3, <5>1, <5>2, <5>3
      <4>3. CASE e.msg # m
        <5>1. c \in claims
          BY <1>1, <3>3, <4>3
        <5>2. PICK j \in DOMAIN bus : j > 0 /\ bus[j].msg = m /\ bus[j].new = {}
          BY <2>4, <3>3, <5>1 DEF LastWord, ReleasedAfter
        <5>3. ReleasedAfter(m, 1)
          BY <1>1, <4>3, <5>2 DEF ReleasedAfter
        <5> QED
          BY <3>1, <5>3
      <4> QED
        BY <4>1, <4>2, <4>3
    <3>4. LastWord(m)'
      BY <1>1, <2>4, <3>2, <3>3 DEF LastWord
    <3> QED
      BY <3>4 DEF Settled
  <2>5. CASE Untold(m)
    <3>1. e.msg # m
      BY <1>1, <2>5 DEF Untold
    <3> QED
      BY <1>1, <1>5, <2>5, <3>1 DEF Untold, Settled
  <2> QED
    BY <2>1, <2>2, <2>3, <2>4, <2>5 DEF Settled
<1> QED
  BY <1>6, <1>7, <1>8, <1>9, <1>10, <1>11 DEF IInv

(***************************************************************************)
(* The sweeper reaps what nobody claims and nothing is under way about.    *)
(***************************************************************************)
LEMMA SweepStep == ASSUME IInv, NEW r \in Media, Sweep(r) PROVE IInv'
<1>1. /\ UNCHANGED <<rows, bus, claims, work, unclaimed, stuck, released>>
      /\ reaped' = reaped \cup {r} /\ ~UnderWay(r)
      /\ \A m \in DOMAIN rows : <<m, r>> \notin claims
  BY DEF Sweep
<1>2. TypeInv'
  BY <1>1 DEF IInv, TypeInv, work
<1>3. JobInv'
  BY <1>1 DEF IInv, JobInv, JobOf, work
<1>4. EventsInv'
  BY <1>1, EventsKept DEF IInv
<1>5. ReleasesInv'
  <2>1. \A w \in Workers : ReleasesOf(w)'
    BY <1>1, ReleasesKept DEF IInv, ReleasesInv
  <2> QED
    BY <1>1, <2>1 DEF IInv, ReleasesInv, Live
<1>6. SettledInv'
  BY <1>1, SettledKept DEF IInv
<1>7. KeptInv'
  <2>1. \A m : ~Coming(m, r)
    BY <1>1 DEF Coming, Flowing, UnderWay, Range, Owed
  <2>2. \A m, x : Coming(m, x)' <=> Coming(m, x)
    BY <1>1 DEF Coming, Flowing, Owed, work
  <2> QED
    BY <1>1, <2>1, <2>2 DEF IInv, KeptInv, Live, Keys
<1> QED
  BY <1>2, <1>3, <1>4, <1>5, <1>6, <1>7 DEF IInv

(***************************************************************************)
(* The inductive invariant.                                                *)
(***************************************************************************)
LEMMA InvInit == Init => IInv
<1> SUFFICES ASSUME Init PROVE IInv
  OBVIOUS
<1>1. PICK sender \in Senders, atts \in Legacy : rows = <<Message(sender, atts)>>
  BY DEF Init
<1> DEFINE r == Message(sender, atts)
<1>2. atts \in Seq(Stored)
  <2>1. atts \in Seq(Attachment) /\ \A i \in DOMAIN atts : atts[i].key # NoKey
    BY LegacyAssumption
  <2>2. \A i \in DOMAIN atts : atts[i] \in Stored
    <3> TAKE i \in DOMAIN atts
    <3>1. atts[i] \in Attachment /\ atts[i].key # NoKey
      BY <2>1
    <3> QED
      BY <3>1 DEF Attachment, Stored
  <2> QED
    BY <2>1, <2>2
<1>3. /\ r \in Row /\ r.state = "live"
  BY <1>2 DEF Message, Row
<1> HIDE DEF r
<1>4. /\ rows \in Seq(Row) /\ DOMAIN rows = {1} /\ rows[1] = r
  BY <1>1, <1>3 DEF r
<1>5. /\ bus = <<>> /\ claims = {} /\ reaped = {} /\ unclaimed = {1} \X Media
      /\ pc = [w \in Workers |-> "idle"] /\ job = [w \in Workers |-> Nothing]
      /\ due = [w \in Workers |-> <<>>]
  BY DEF Init
<1>6. TypeInv
  BY <1>4, <1>5 DEF TypeInv, Places
<1>7. JobInv
  BY <1>3, <1>4, <1>5 DEF JobInv, JobOf
<1>8. Events = {} /\ Live(1) /\ Keys(1) \in SUBSET Media
  BY <1>3, <1>4, <1>5, <1>6, RangeEmpty, KeysTyped DEF Events, Owed, Live
<1>9. EventsInv
  <2>1. AllAbout(1, Keys(1))
    BY <1>5, <1>8 DEF AllAbout
  <2> QED
    BY <1>4, <1>8, <2>1 DEF EventsInv
<1>10. ReleasesInv
  BY <1>5, RangeEmpty DEF ReleasesInv, ReleasesOf, Doomed, Owed
<1>11. KeptInv
  BY <1>4, <1>5, <1>8 DEF KeptInv
<1>12. SettledInv
  BY <1>4, <1>8 DEF SettledInv
<1> QED
  BY <1>6, <1>7, <1>9, <1>10, <1>11, <1>12 DEF IInv

\* Every step keeps the invariant.
LEMMA InvStep == IInv /\ [Next]_vars => IInv'
<1> SUFFICES ASSUME IInv, [Next]_vars PROVE IInv'
  OBVIOUS
<1>1. CASE UNCHANGED vars
  <2>1. TypeInv' /\ JobInv'
    BY <1>1 DEF vars, IInv, TypeInv, JobInv, JobOf
  <2>2. EventsInv' /\ SettledInv'
    BY <1>1, EventsKept, SettledKept DEF vars, IInv, work
  <2>3. ReleasesInv'
    <3>1. \A w \in Workers : ReleasesOf(w)'
      BY <1>1, ReleasesKept DEF vars, IInv, ReleasesInv, work
    <3> QED
      BY <1>1, <3>1 DEF vars, IInv, ReleasesInv, Live
  <2>4. KeptInv'
    <3>1. \A m, r : Coming(m, r)' <=> Coming(m, r)
      BY <1>1 DEF vars, Coming, Flowing, Owed
    <3> QED
      BY <1>1, <3>1 DEF vars, IInv, KeptInv, Live, Keys
  <2> QED
    BY <2>1, <2>2, <2>3, <2>4 DEF IInv
<1>2. ASSUME NEW w \in Workers, Work(w) PROVE IInv'
  <2>1. Moves(w)
    BY <1>2, WorkersMove
  <2> QED
    BY <2>1, JobStep, EventsStep, ReleasesStep, KeptStep, SettledStep DEF IInv, Moves
<1>3. CASE Apply
  BY <1>3, ApplyStep
<1>4. ASSUME NEW r \in Media, Sweep(r) PROVE IInv'
  BY <1>4, SweepStep
<1> QED
  BY <1>1, <1>2, <1>3, <1>4 DEF Next

\* So it always holds.
LEMMA Inductive == Spec => []IInv
  BY InvInit, InvStep, PTL DEF Spec

(***************************************************************************)
(* No order of sends, deletions, backfills and failures releases the media *)
(* of a message that is still there.                                       *)
(***************************************************************************)
THEOREM TheLivingKeepTheirClaims == Spec => OnlyTheDeadAreReleased
<1>1. IInv /\ [Next]_vars => [\A c \in claims \ claims' : ~Live(c[1])]_vars
  <2> SUFFICES ASSUME IInv, Next, NEW c \in claims, c \notin claims' PROVE ~Live(c[1])
    OBVIOUS
  <2>1. CASE Apply
    <3>1. PICK e \in AnEvent :
             /\ e \in Range(bus)
             /\ claims' = (claims \ ({e.msg} \X (e.old \ e.new))) \cup ({e.msg} \X (e.new \ e.old))
      BY <2>1, Applied
    <3>2. c[1] = e.msg /\ e.old # {}
      BY <3>1
    <3> QED
      BY <3>1, <3>2 DEF IInv, ReleasesInv
  <2>2. ASSUME NEW w \in Workers, Work(w) PROVE FALSE
    BY <2>2, WorkersMove DEF Moves, Starts, Ends, Stores, Drops, Loses, Publishes, cdn
  <2> QED
    BY <2>1, <2>2 DEF Next, Sweep
<1> QED
  BY <1>1, Inductive, PTL DEF Spec, OnlyTheDeadAreReleased

(***************************************************************************)
(* The sweeper never takes what a live message carries, unless the claim   *)
(* was lost or never made.                                                 *)
(***************************************************************************)
THEOREM TheLivingKeepTheirMedia == Spec => []LiveMediaIsKept
<1>1. IInv => LiveMediaIsKept
  BY DEF IInv, KeptInv, LiveMediaIsKept
<1> QED
  BY <1>1, Inductive, PTL

(***************************************************************************)
(* With nothing under way, the dead claim nothing, unless a release was    *)
(* lost or overtaken.                                                      *)
(***************************************************************************)
THEOREM TheDeadClaimNothing == Spec => []DeadMediaIsReleased
<1>1. IInv => DeadMediaIsReleased
  <2> SUFFICES ASSUME IInv, bus = <<>>, \A w \in Workers : pc[w] = "idle",
                      NEW c \in claims, ~Live(c[1]), c[1] \notin stuck
               PROVE  FALSE
    BY DEF DeadMediaIsReleased
  <2>1. c[1] \in DOMAIN rows
    BY DEF IInv, TypeInv
  <2>2. Pending(c[1]) \/ LastWord(c[1]) \/ Untold(c[1])
    BY <2>1 DEF IInv, SettledInv, Settled
  <2>3. ~Pending(c[1]) /\ ~Untold(c[1]) /\ ~ReleasedAfter(c[1], 0)
    BY DEF Pending, Untold, ReleasedAfter
  <2> QED
    BY <2>2, <2>3 DEF LastWord
<1> QED
  BY <1>1, Inductive, PTL

================================================================================
