-------------------------- MODULE ParticipantProofs --------------------------
(***************************************************************************)
(* What one participant is told, for any constants: of the others, whether *)
(* they are there (Presence), and of a conversation, what is unread        *)
(* (ReadMarkers).  The two share no state; they are proved one after the   *)
(* other.                                                                  *)
(***************************************************************************)
EXTENDS Presence, ReadMarkers, FiniteSetTheorems, TLAPS

(***************************************************************************)
(* The lease.  Neither the row nor the last frame promises more than what  *)
(* is left of a lease taken when the last socket was still there.          *)
(***************************************************************************)
LeaseInv ==
    /\ onlineUntil \in Int /\ onlineUntil <= Ttl - alone
    /\ told.until \in Int /\ told.until <= Ttl - alone
    /\ told = [online |-> told.online, until |-> told.until]
    /\ alone \in 0 .. Ttl
    /\ age \in [Sockets -> 0 .. CallTicks]
    /\ pc \in [Sockets -> {"closed", "open"} \cup Connecting \cup Leaving]
    /\ \A s \in Sockets : pc[s] # "closed" => alone = 0

LEMMA LeaseInit == PresenceInit => LeaseInv
  BY WindowsAssumption DEF PresenceInit, LeaseInv, Past

LEMMA LeaseStep == LeaseInv /\ [PresenceNext]_presenceVars => LeaseInv'
<1> SUFFICES ASSUME LeaseInv, [PresenceNext]_presenceVars PROVE LeaseInv'
  OBVIOUS
<1> USE WindowsAssumption DEF LeaseInv, Connecting, Leaving
<1>1. CASE UNCHANGED presenceVars
  BY <1>1 DEF presenceVars
<1>2. CASE Tick
  BY <1>2 DEF Tick, Down, Up, Past, InCall
<1>3. ASSUME NEW s \in Sockets, Open(s) PROVE LeaseInv'
  BY <1>3 DEF Open, Call, Goto, row
<1>4. ASSUME NEW s \in Sockets, CallStep(s) PROVE LeaseInv'
  <2>1. CASE Find(s)
    BY <2>1 DEF Find, Goto
  <2>2. CASE Count(s)
    BY <2>2 DEF Count, Goto, Deadline
  <2>3. CASE Hail(s)
    BY <2>3 DEF Hail, Goto, Deadline, row
  <2>4. CASE Uncount(s)
    BY <2>4 DEF Uncount, Goto
  <2>5. CASE Look(s)
    BY <2>5 DEF Look, Goto, row
  <2>6. CASE Expire(s)
    BY <2>6 DEF Expire, Goto
  <2>7. CASE Farewell(s)
    BY <2>7 DEF Farewell, Goto, row
  <2> QED
    BY <1>4, <2>1, <2>2, <2>3, <2>4, <2>5, <2>6, <2>7 DEF CallStep
<1>5. ASSUME NEW s \in Sockets, Touch(s) PROVE LeaseInv'
  BY <1>5 DEF Touch
<1>6. ASSUME NEW s \in Sockets, Close(s) PROVE LeaseInv'
  BY <1>6 DEF Close, Call, Goto, row
<1>7. ASSUME NEW s \in Sockets, Crash(s) \/ DisconnectFails(s) PROVE LeaseInv'
  BY <1>7 DEF Crash, DisconnectFails, Goto, row
<1>8. ASSUME NEW s \in Sockets, ConnectFails(s) \/ TouchFails(s) PROVE LeaseInv'
  BY <1>8 DEF ConnectFails, TouchFails, Goto, row
<1> QED
  BY <1>1, <1>2, <1>3, <1>4, <1>5, <1>6, <1>7, <1>8 DEF PresenceNext

(***************************************************************************)
(* A false "online" dies with the lease: a lease after the last socket     *)
(* went, by whatever crash or failure, is_online says no for the row and   *)
(* the deadline in the last frame has passed.                              *)
(***************************************************************************)
THEOREM GhostsAlwaysFade == PresenceSpec => []GhostsFade
<1>1. LeaseInv => GhostsFade
  BY WindowsAssumption DEF LeaseInv, GhostsFade, Online, IsOnline, PeersSeeOnline
<1> QED
  BY <1>1, LeaseInit, LeaseStep, PTL DEF PresenceSpec

(***************************************************************************)
(* The counter.  A socket is recorded exactly from its increment to its    *)
(* decrement, and its row then exists.                                     *)
(***************************************************************************)
CountInv ==
    /\ connections \in Nat
    /\ known \in BOOLEAN
    /\ pc \in [Sockets -> {"closed", "open"} \cup Connecting \cup Leaving]
    /\ recorded \subseteq Sockets
    /\ \A s \in Sockets : s \in recorded <=> pc[s] \in {"hail", "open", "leave"}
    /\ \A s \in Sockets : pc[s] \in {"count", "hail", "open", "leave"} => known
    /\ CountCovers

LEMMA RecordedIsFinite ==
  ASSUME recorded \subseteq Sockets
  PROVE  IsFiniteSet(recorded) /\ Cardinality(recorded) \in Nat
  BY SocketsAssumption, FS_Subset, FS_CardinalityType

LEMMA NoneAreZero == Cardinality({}) = 0
  BY FS_EmptySet

LEMMA CountInit == PresenceInit => CountInv
<1> SUFFICES ASSUME PresenceInit PROVE CountInv
  OBVIOUS
<1>1. Cardinality(recorded) = 0 /\ connections = 0
  BY NoneAreZero DEF PresenceInit
<1>2. CountCovers
  BY <1>1 DEF CountCovers
<1>3. connections \in Nat /\ known = FALSE /\ recorded = {}
      /\ pc \in [Sockets -> {"closed"}]
  BY DEF PresenceInit
<1> QED
  BY <1>2, <1>3 DEF CountInv

LEMMA CountStep ==
  ASSUME MayFail = FALSE
  PROVE  CountInv /\ [PresenceNext]_presenceVars => CountInv'
<1> SUFFICES ASSUME CountInv, [PresenceNext]_presenceVars PROVE CountInv'
  OBVIOUS
<1>0. IsFiniteSet(recorded) /\ Cardinality(recorded) \in Nat
  BY RecordedIsFinite DEF CountInv
<1> USE DEF CountInv, CountCovers, Connecting, Leaving
<1>1. CASE UNCHANGED presenceVars
  BY <1>1 DEF presenceVars
<1>2. CASE Tick
  BY <1>2 DEF Tick
<1>3. ASSUME NEW s \in Sockets, Open(s) PROVE CountInv'
  BY <1>3 DEF Open, Call, Goto, row
<1>4. ASSUME NEW s \in Sockets, Find(s) PROVE CountInv'
  <2>1. connections' \in Nat /\ recorded' = recorded
    BY <1>4 DEF Find
  <2>2. known \/ recorded = {}
    OBVIOUS
  <2>3. CASE known
    BY <1>4, <2>3 DEF Find, Goto
  <2>4. CASE ~known
    <3>1. recorded' = {} /\ connections' = 0
      BY <1>4, <2>1, <2>2, <2>4 DEF Find
    <3>2. Cardinality(recorded') = 0
      BY <3>1, NoneAreZero
    <3> QED
      BY <1>4, <2>4, <3>1, <3>2 DEF Find, Goto
  <2> QED
    BY <2>3, <2>4
<1>5. ASSUME NEW s \in Sockets, Count(s) PROVE CountInv'
  <2>1. Cardinality(recorded') = Cardinality(recorded) + 1
    BY <1>0, <1>5, FS_AddElement DEF Count
  <2> QED
    BY <1>0, <1>5, <2>1 DEF Count, Goto
<1>6. ASSUME NEW s \in Sockets, Hail(s) \/ Look(s) \/ Expire(s) \/ Farewell(s)
      PROVE CountInv'
  BY <1>6 DEF Hail, Look, Expire, Farewell, Goto, row
<1>7. ASSUME NEW s \in Sockets, Uncount(s) PROVE CountInv'
  <2>1. s \in recorded /\ known
    BY <1>7 DEF Uncount
  <2>2. Cardinality(recorded') = Cardinality(recorded) - 1
    BY <1>0, <1>7, <2>1, FS_RemoveElement DEF Uncount
  <2>3. connections' = IF connections > 0 THEN connections - 1 ELSE 0
    BY <1>7, <2>1 DEF Uncount, Fewer
  <2>4. CountCovers' /\ connections' \in Nat
    BY <1>0, <2>2, <2>3
  <2> QED
    BY <1>7, <2>1, <2>4 DEF Uncount, Goto
<1>8. ASSUME NEW s \in Sockets, Touch(s) PROVE CountInv'
  BY <1>8 DEF Touch
<1>9. ASSUME NEW s \in Sockets, Close(s) PROVE CountInv'
  BY <1>9 DEF Close, Call, Goto, row
<1>10. ASSUME NEW s \in Sockets, Crash(s) PROVE CountInv'
  <2>1. Cardinality(recorded') <= Cardinality(recorded) /\ Cardinality(recorded') \in Nat
    BY <1>0, <1>10, FS_Subset, FS_CardinalityType DEF Crash
  <2> QED
    BY <1>0, <1>10, <2>1 DEF Crash, Goto, row
<1> QED
  BY <1>1, <1>2, <1>3, <1>4, <1>5, <1>6, <1>7, <1>8, <1>9, <1>10
  DEF PresenceNext, CallStep, ConnectFails, DisconnectFails, TouchFails

(***************************************************************************)
(* While no statement of a call fails, the counter never falls short of    *)
(* the sockets that are recorded, however connects, disconnects and killed *)
(* workers interleave.                                                     *)
(***************************************************************************)
THEOREM CounterCoversTabs ==
  ASSUME MayFail = FALSE
  PROVE  PresenceSpec => []CountCovers
<1>1. CountInv => CountCovers
  BY DEF CountInv
<1>2. CountInv /\ [PresenceNext]_presenceVars => CountInv'
  BY CountStep
<1> QED
  BY <1>1, <1>2, CountInit, PTL DEF PresenceSpec

(***************************************************************************)
(* The transaction that holds the lock creates the message that follows    *)
(* the last position issued.                                               *)
(***************************************************************************)
DraftIsNext == draft # <<>> => draft[1].seq = lastSeq + 1 /\ ~draft[1].deleted

(***************************************************************************)
(* A read marker is beyond the journal only where a read named a position  *)
(* that was not issued yet.                                                *)
(***************************************************************************)
ReadIsKnown == \A u \in Users : read[u] <= lastSeq \/ read[u] <= ahead[u]

MarkerInv == TypeOK /\ DraftIsNext /\ ReadIsKnown

(***************************************************************************)
(* The greater of two positions is one of them and below neither.          *)
(***************************************************************************)
LEMMA MaxOfTwo ==
    ASSUME NEW a \in Int, NEW b \in Int
    PROVE  Max({a, b}) \in {a, b} /\ a <= Max({a, b}) /\ b <= Max({a, b})
<1>1. \E x \in {a, b} : \A y \in {a, b} : x >= y
    <2>1. CASE a >= b BY <2>1
    <2>2. CASE b >= a BY <2>2
    <2> QED BY <2>1, <2>2
<1> QED BY <1>1 DEF Max

(***************************************************************************)
(* UPDATE ... WHERE marker < upto: the marker of one participant moves to  *)
(* the position named, if it is ahead, and no other marker moves.          *)
(***************************************************************************)
LEMMA AdvancedIsForward ==
    ASSUME NEW marker \in [Users -> Named], NEW u \in Users, NEW upto \in Named
    PROVE  /\ Advanced(marker, u, upto) \in [Users -> Named]
           /\ \A v \in Users : marker[v] <= Advanced(marker, u, upto)[v]
           /\ \A v \in Users : v # u => Advanced(marker, u, upto)[v] = marker[v]
           /\ Advanced(marker, u, upto)[u] \in {marker[u], upto}
           /\ upto <= Advanced(marker, u, upto)[u]
<1>0. Named \subseteq Int
    BY BoundsAssumption DEF Named
<1>1. /\ Max({marker[u], upto}) \in {marker[u], upto}
      /\ marker[u] <= Max({marker[u], upto}) /\ upto <= Max({marker[u], upto})
    <2>1. marker[u] \in Int /\ upto \in Int BY <1>0
    <2> QED BY <2>1, MaxOfTwo
<1>2. \A v \in Users : marker[v] <= marker[v]
    <2>1. \A v \in Users : marker[v] \in Int
        BY <1>0
    <2> QED BY <2>1
<1> QED BY <1>1, <1>2 DEF Advanced

\* A marker that is left alone does not move back.
LEMMA MarkersStay ==
    ASSUME MarkerInv
    PROVE  \A v \in Users : read[v] <= read[v] /\ delivered[v] <= delivered[v]
<1>1. read \in [Users -> Named] /\ delivered \in [Users -> Named] /\ Named \subseteq Int
    BY BoundsAssumption DEF MarkerInv, TypeOK, Named
<1>2. \A v \in Users : read[v] \in Int /\ delivered[v] \in Int
    BY <1>1
<1> QED BY <1>2

(***************************************************************************)
(* A read that names a position keeps what is known of the marker.         *)
(***************************************************************************)
LEMMA ReadStaysKnown ==
    ASSUME MarkerInv, NEW u \in Users, NEW upto \in Named
    PROVE  /\ AheadOf(u, upto) \in [Users -> Named]
           /\ \A v \in Users : \/ Advanced(read, u, upto)[v] <= lastSeq
                               \/ Advanced(read, u, upto)[v] <= AheadOf(u, upto)[v]
<1>0. /\ Named \subseteq Int /\ lastSeq \in Int
      /\ read \in [Users -> Named] /\ ahead \in [Users -> Named]
      /\ \A v \in Users : read[v] <= lastSeq \/ read[v] <= ahead[v]
    BY BoundsAssumption DEF MarkerInv, TypeOK, ReadIsKnown, Named, Position
<1>1. /\ \A v \in Users : v # u => Advanced(read, u, upto)[v] = read[v]
      /\ Advanced(read, u, upto)[u] \in {read[u], upto}
    BY ONLY <1>0, AdvancedIsForward, u \in Users, upto \in Named
<1>2. CASE upto > lastSeq
    <2>1. AheadOf(u, upto) = Advanced(ahead, u, upto)
        BY <1>2 DEF AheadOf, Advanced
    <2>2. /\ Advanced(ahead, u, upto) \in [Users -> Named]
          /\ \A v \in Users : ahead[v] <= Advanced(ahead, u, upto)[v]
          /\ upto <= Advanced(ahead, u, upto)[u]
        BY ONLY <1>0, AdvancedIsForward, u \in Users, upto \in Named
    <2> DEFINE a == Advanced(ahead, u, upto)
               b == Advanced(read, u, upto)
    <2>3. \A v \in Users : v # u => b[v] = read[v]
        BY <1>1
    <2>4. b[u] \in {read[u], upto} BY <1>1
    <2>5. a \in [Users -> Named] /\ (\A v \in Users : ahead[v] <= a[v]) /\ upto <= a[u]
        BY <2>2
    <2> HIDE DEF a, b
    <2>6. \A v \in Users : b[v] <= lastSeq \/ b[v] <= a[v]
        <3> SUFFICES ASSUME NEW v \in Users PROVE b[v] <= lastSeq \/ b[v] <= a[v]
            OBVIOUS
        <3>1. /\ read[v] \in Int /\ ahead[v] \in Int /\ a[v] \in Int /\ upto \in Int
              /\ ahead[v] <= a[v] /\ (read[v] <= lastSeq \/ read[v] <= ahead[v])
            BY <1>0, <2>5
        <3>2. CASE b[v] = read[v] BY <1>0, <3>1, <3>2
        <3>3. CASE v = u /\ b[v] = upto BY <2>5, <3>3
        <3> QED BY <2>3, <2>4, <3>2, <3>3
    <2> QED BY <2>1, <2>5, <2>6 DEF a, b
<1>3. CASE ~(upto > lastSeq)
    <2>1. AheadOf(u, upto) = ahead
        BY <1>3 DEF AheadOf
    <2>2. upto <= lastSeq
        BY <1>0, <1>3
    <2> QED BY <1>0, <1>1, <2>1, <2>2
<1> QED BY <1>2, <1>3

LEMMA MarkerInit == Init => MarkerInv
<1> SUFFICES ASSUME Init PROVE MarkerInv
    OBVIOUS
<1>1. 0 \in Named /\ 0 \in Position /\ 0 \in Instant
    BY BoundsAssumption DEF Named, Position, Instant
<1>2. TypeOK
    BY <1>1 DEF Init, TypeOK
<1>3. DraftIsNext /\ ReadIsKnown
    BY DEF Init, DraftIsNext, ReadIsKnown
<1> QED BY <1>2, <1>3 DEF MarkerInv

\* What writers leave alone keeps its type when the counters only grow.
LEMMA WritersKeepTheMarkers ==
    ASSUME MarkerInv, UNCHANGED <<markers, cleared, marking, clearing, ahead>>,
           rows' \in Seq(Message), lastSeq' \in Position, lastSeq <= lastSeq',
           clock' \in Instant, clock <= clock',
           draft' = <<>> \/ \E m \in Message : draft' = <<m>>,
           draft' # <<>> => draft'[1].seq = lastSeq' + 1 /\ ~draft'[1].deleted
    PROVE  MarkerInv' /\ lastSeq <= lastSeq'
<1>1. read' = read /\ delivered' = delivered /\ cleared' = cleared
      /\ marking' = marking /\ clearing' = clearing /\ ahead' = ahead
    BY DEF markers
<1>2. 0 .. clock \subseteq 0 .. clock'
    <2>1. clock \in Int /\ clock' \in Int
        BY BoundsAssumption DEF MarkerInv, TypeOK, Instant
    <2> QED BY <2>1
<1>3. /\ read \in [Users -> Named] /\ delivered \in [Users -> Named]
      /\ ahead \in [Users -> Named] /\ cleared \in [Users -> 0 .. clock']
    BY <1>2 DEF MarkerInv, TypeOK
<1>4. /\ marking \subseteq [user : Users, upto : Named]
      /\ clearing \subseteq [user : Users, at : 0 .. clock']
    BY <1>2 DEF MarkerInv, TypeOK
<1>5. TypeOK'
    BY <1>1, <1>3, <1>4 DEF TypeOK
<1>6. DraftIsNext'
    BY DEF DraftIsNext
<1>7. ReadIsKnown'
    <2>1. /\ lastSeq \in Int /\ lastSeq' \in Int /\ \A u \in Users : read[u] \in Int
        BY BoundsAssumption DEF MarkerInv, TypeOK, Position, Named
    <2>2. \A u \in Users : read[u] <= lastSeq \/ read[u] <= ahead[u]
        BY DEF MarkerInv, ReadIsKnown
    <2>3. \A u \in Users : read[u] <= lastSeq => read[u] <= lastSeq'
        BY <2>1
    <2> QED BY <1>1, <2>2, <2>3 DEF ReadIsKnown
<1> QED BY <1>5, <1>6, <1>7 DEF MarkerInv

(***************************************************************************)
(* A step of a writer: the rows, the counter, the clock and the draft.     *)
(***************************************************************************)
LEMMA WriterStep ==
    ASSUME MarkerInv,
           \/ \E author \in Users \cup {NoUser} : Create(author)
           \/ Commit \/ Abort
           \/ \E i \in DOMAIN rows, gone \in BOOLEAN : Revise(i, gone)
    PROVE  MarkerInv' /\ lastSeq <= lastSeq'
<1>0. /\ rows \in Seq(Message) /\ lastSeq \in Position /\ clock \in Instant
      /\ Position \subseteq Nat /\ Instant \subseteq Nat
      /\ draft = <<>> \/ \E m \in Message : draft = <<m>>
    BY BoundsAssumption DEF MarkerInv, TypeOK, Position, Instant
<1>1. CASE \E author \in Users \cup {NoUser} : Create(author)
    <2>1. PICK author \in Users \cup {NoUser} : Create(author) BY <1>1
    <2> DEFINE m == [seq |-> lastSeq + 1, at |-> clock + 1, author |-> author,
                     deleted |-> FALSE]
    <2>2. /\ UNCHANGED <<rows, lastSeq, markers, cleared, marking, clearing, ahead>>
          /\ clock' = clock + 1 /\ draft' = <<m>> /\ lastSeq < MaxSeq /\ clock < MaxClock
        BY <2>1 DEF Create, NextSeq
    <2>3. lastSeq + 1 \in Position /\ clock + 1 \in Instant
        BY BoundsAssumption, <1>0, <2>2 DEF Position, Instant
    <2>4. m \in Message /\ m.seq = lastSeq + 1 /\ ~m.deleted
        BY <2>3 DEF Message
    <2> HIDE DEF m
    <2>5. draft' \in {<<n>> : n \in Message} /\ draft'[1] = m
        BY <2>2, <2>4
    <2>6. lastSeq <= lastSeq' /\ clock <= clock'
        BY <1>0, <2>2
    <2> QED BY <1>0, <2>2, <2>3, <2>4, <2>5, <2>6, WritersKeepTheMarkers
<1>2. CASE Commit
    <2>1. PICK m \in Message : draft = <<m>> BY <1>0, <1>2 DEF Commit
    <2>2. /\ rows' = rows \o <<m>> /\ lastSeq' = lastSeq + 1 /\ draft' = <<>>
          /\ UNCHANGED <<clock, markers, cleared, marking, clearing, ahead>>
        BY <1>2, <2>1 DEF Commit
    <2>3. m.seq = lastSeq + 1
        BY <2>1 DEF MarkerInv, DraftIsNext
    <2>4. lastSeq' \in Position
        BY <2>2, <2>3 DEF Message
    <2>5. rows' \in Seq(Message)
        BY <1>0, <2>2
    <2>6. lastSeq <= lastSeq' /\ clock <= clock'
        BY <1>0, <2>2
    <2> QED BY <1>0, <2>2, <2>4, <2>5, <2>6, WritersKeepTheMarkers
<1>3. CASE Abort
    <2>1. UNCHANGED <<rows, lastSeq, clock, markers, cleared, marking, clearing, ahead>> /\ draft' = <<>>
        BY <1>3 DEF Abort
    <2>2. lastSeq <= lastSeq' /\ clock <= clock'
        BY <1>0, <2>1
    <2> QED BY <1>0, <2>1, <2>2, WritersKeepTheMarkers
<1>4. CASE \E i \in DOMAIN rows, gone \in BOOLEAN : Revise(i, gone)
    <2>1. PICK i \in DOMAIN rows, gone \in BOOLEAN : Revise(i, gone) BY <1>4
    <2>2. /\ rows' = [rows EXCEPT ![i] = RevisedRow(rows[i], gone)]
          /\ lastSeq < MaxSeq /\ lastSeq' = lastSeq + 1 /\ draft = <<>>
          /\ UNCHANGED <<clock, draft, markers, cleared, marking, clearing, ahead>>
        BY <2>1 DEF Revise
    <2>3. rows[i] \in Message
        BY <1>0
    <2>4. RevisedRow(rows[i], gone) \in Message
        BY <2>3 DEF RevisedRow, Message
    <2>5. rows' \in Seq(Message)
        BY <1>0, <2>2, <2>4
    <2>6. lastSeq' \in Position
        BY BoundsAssumption, <1>0, <2>2 DEF Position
    <2>7. lastSeq <= lastSeq' /\ clock <= clock'
        BY <1>0, <2>2
    <2> QED BY <1>0, <2>2, <2>5, <2>6, <2>7, WritersKeepTheMarkers
<1> QED BY <1>1, <1>2, <1>3, <1>4

\* What the calls of readers leave alone, and what they may write.
LEMMA CallsKeepTheJournal ==
    ASSUME MarkerInv, UNCHANGED journal,
           read' \in [Users -> Named], delivered' \in [Users -> Named],
           ahead' \in [Users -> Named],
           \A u \in Users : read'[u] <= lastSeq \/ read'[u] <= ahead'[u],
           cleared' \in [Users -> 0 .. clock],
           marking' \subseteq [user : Users, upto : Named],
           clearing' \subseteq [user : Users, at : 0 .. clock]
    PROVE  MarkerInv'
<1>1. rows' = rows /\ lastSeq' = lastSeq /\ clock' = clock /\ draft' = draft
    BY DEF journal
<1>2. TypeOK'
    BY <1>1 DEF MarkerInv, TypeOK
<1>3. DraftIsNext' /\ ReadIsKnown'
    BY <1>1 DEF MarkerInv, DraftIsNext, ReadIsKnown
<1> QED BY <1>2, <1>3 DEF MarkerInv

(***************************************************************************)
(* A step of a reader: no marker moves back, no mark is ahead of the clock.*)
(***************************************************************************)
LEMMA ReaderStep ==
    ASSUME MarkerInv,
           NEW u \in Users, NEW upto \in Named, NEW held \in Named,
           PostRead(u, upto, held) \/ FrameRead(u, upto) \/ FrameDelivered(u, upto)
    PROVE  /\ MarkerInv'
           /\ \A v \in Users : read[v] <= read'[v] /\ delivered[v] <= delivered'[v]
<1>0. /\ read \in [Users -> Named] /\ delivered \in [Users -> Named]
      /\ ahead \in [Users -> Named] /\ cleared \in [Users -> 0 .. clock]
      /\ marking \subseteq [user : Users, upto : Named]
      /\ clearing \subseteq [user : Users, at : 0 .. clock]
      /\ Named \subseteq Int
      /\ \A v \in Users : read[v] <= lastSeq \/ read[v] <= ahead[v]
      /\ \A v \in Users : read[v] <= read[v] /\ delivered[v] <= delivered[v]
    <2>1. Named \subseteq Int
        BY BoundsAssumption DEF Named
    <2> QED BY <2>1, MarkersStay DEF MarkerInv, TypeOK, ReadIsKnown
<1>1. /\ Advanced(read, u, upto) \in [Users -> Named]
      /\ \A v \in Users : read[v] <= Advanced(read, u, upto)[v]
    BY <1>0, AdvancedIsForward
<1>2. /\ Advanced(delivered, u, upto) \in [Users -> Named]
      /\ \A v \in Users : delivered[v] <= Advanced(delivered, u, upto)[v]
    BY <1>0, AdvancedIsForward
<1>3. DeliveredUpto(upto, held) \in Named
    <2>1. Max({upto, held}) \in {upto, held}
        BY <1>0, MaxOfTwo
    <2> QED
        BY <1>0, <2>1 DEF DeliveredUpto
<1>4. /\ AheadOf(u, upto) \in [Users -> Named]
      /\ \A v \in Users : \/ Advanced(read, u, upto)[v] <= lastSeq
                          \/ Advanced(read, u, upto)[v] <= AheadOf(u, upto)[v]
    BY ReadStaysKnown
<1>5. CASE PostRead(u, upto, held)
    <2>1. /\ UNCHANGED <<journal, delivered, cleared, clearing>>
          /\ read' = Advanced(read, u, upto) /\ ahead' = AheadOf(u, upto)
          /\ marking' = marking \cup {[user |-> u, upto |-> DeliveredUpto(upto, held)]}
        BY <1>5 DEF PostRead
    <2>2. [user |-> u, upto |-> DeliveredUpto(upto, held)] \in [user : Users, upto : Named]
        BY <1>3
    <2>3. marking' \subseteq [user : Users, upto : Named]
        BY <1>0, <2>1, <2>2
    <2>4. \A v \in Users : delivered[v] <= delivered'[v]
        BY <1>0, <2>1
    <2>5. MarkerInv'
        BY <1>0, <1>1, <1>4, <2>1, <2>3, CallsKeepTheJournal
    <2> QED BY <1>1, <2>1, <2>4, <2>5
<1>6. CASE FrameRead(u, upto)
    <2>1. /\ UNCHANGED <<journal, delivered, cleared, marking, clearing>>
          /\ read' = Advanced(read, u, upto) /\ ahead' = AheadOf(u, upto)
        BY <1>6 DEF FrameRead
    <2>2. \A v \in Users : delivered[v] <= delivered'[v]
        BY <1>0, <2>1
    <2>3. MarkerInv'
        BY <1>0, <1>1, <1>4, <2>1, CallsKeepTheJournal
    <2> QED BY <1>1, <2>1, <2>2, <2>3
<1>7. CASE FrameDelivered(u, upto)
    <2>1. /\ UNCHANGED <<journal, read, cleared, marking, clearing, ahead>>
          /\ delivered' = Advanced(delivered, u, upto)
        BY <1>7 DEF FrameDelivered
    <2>2. \A v \in Users : read[v] <= read'[v]
        BY <1>0, <2>1
    <2>3. MarkerInv'
        BY <1>0, <1>2, <2>1, CallsKeepTheJournal
    <2> QED BY <1>2, <2>1, <2>2, <2>3
<1> QED BY <1>5, <1>6, <1>7

LEMMA MarkerCallStep ==
    ASSUME MarkerInv,
           \/ \E c \in marking : FinishRead(c) \/ CrashRead(c)
           \/ \E u \in Readers : BeginClear(u)
           \/ \E c \in clearing : CommitClear(c) \/ CrashClear(c)
    PROVE  /\ MarkerInv'
           /\ \A v \in Users : read[v] <= read'[v] /\ delivered[v] <= delivered'[v]
<1>0. /\ clock \in Nat /\ Named \subseteq Int
      /\ read \in [Users -> Named] /\ delivered \in [Users -> Named]
      /\ ahead \in [Users -> Named] /\ cleared \in [Users -> 0 .. clock]
      /\ marking \subseteq [user : Users, upto : Named]
      /\ clearing \subseteq [user : Users, at : 0 .. clock]
      /\ \A v \in Users : read[v] <= lastSeq \/ read[v] <= ahead[v]
      /\ \A v \in Users : read[v] <= read[v] /\ delivered[v] <= delivered[v]
    <2>1. /\ clock \in Instant
          /\ read \in [Users -> Named] /\ delivered \in [Users -> Named]
          /\ ahead \in [Users -> Named] /\ cleared \in [Users -> 0 .. clock]
          /\ marking \subseteq [user : Users, upto : Named]
          /\ clearing \subseteq [user : Users, at : 0 .. clock]
          /\ \A v \in Users : read[v] <= lastSeq \/ read[v] <= ahead[v]
        BY ONLY MarkerInv DEF MarkerInv, TypeOK, ReadIsKnown
    <2>2. clock \in Nat /\ Named \subseteq Int
        BY ONLY <2>1, BoundsAssumption DEF Named, Instant
    <2> QED BY ONLY <2>1, <2>2, MarkerInv, MarkersStay
<1>1. ASSUME NEW c \in marking, FinishRead(c)
      PROVE  /\ MarkerInv'
             /\ \A v \in Users : read[v] <= read'[v] /\ delivered[v] <= delivered'[v]
    <2>1. c.user \in Users /\ c.upto \in Named
        BY <1>0
    <2>2. /\ Advanced(delivered, c.user, c.upto) \in [Users -> Named]
          /\ \A v \in Users : delivered[v] <= Advanced(delivered, c.user, c.upto)[v]
        BY ONLY <1>0, <2>1, AdvancedIsForward
    <2>3. /\ UNCHANGED <<journal, read, cleared, clearing, ahead>> /\ marking' \subseteq marking
          /\ delivered' = Advanced(delivered, c.user, c.upto)
        BY <1>1 DEF FinishRead
    <2>4. \A v \in Users : read[v] <= read'[v]
        BY <1>0, <2>3
    <2>5. MarkerInv'
        BY <1>0, <2>2, <2>3, CallsKeepTheJournal
    <2> QED BY <2>2, <2>3, <2>4, <2>5
<1>2. ASSUME UNCHANGED <<journal, markers, ahead>>,
             cleared' \in [Users -> 0 .. clock], marking' \subseteq marking,
             clearing' \subseteq [user : Users, at : 0 .. clock]
      PROVE  /\ MarkerInv'
             /\ \A v \in Users : read[v] <= read'[v] /\ delivered[v] <= delivered'[v]
    <2>1. read' = read /\ delivered' = delivered
        BY <1>2 DEF markers
    <2>2. \A v \in Users : read[v] <= read'[v] /\ delivered[v] <= delivered'[v]
        BY <1>0, <2>1
    <2>3. MarkerInv'
        BY <1>0, <1>2, <2>1, CallsKeepTheJournal
    <2> QED BY <2>2, <2>3
<1>3. CASE \E c \in marking : CrashRead(c)
    <2>1. UNCHANGED <<journal, markers, cleared, clearing, ahead>> /\ marking' \subseteq marking
        BY <1>3 DEF CrashRead
    <2> QED BY <1>0, <1>2, <2>1
<1>4. CASE \E u \in Readers : BeginClear(u)
    <2>1. PICK u \in Readers : BeginClear(u)
        BY <1>4
    <2>2. /\ UNCHANGED <<journal, markers, cleared, marking, ahead>>
          /\ clearing' = clearing \cup {[user |-> u, at |-> clock]}
        BY <2>1 DEF BeginClear
    <2>3. [user |-> u, at |-> clock] \in [user : Users, at : 0 .. clock]
        BY <1>0, UsersAssumption
    <2>4. clearing' \subseteq [user : Users, at : 0 .. clock]
        BY <1>0, <2>2, <2>3
    <2> QED BY <1>0, <1>2, <2>2, <2>4
<1>5. CASE \E c \in clearing : CommitClear(c)
    <2>1. PICK c \in clearing : CommitClear(c)
        BY <1>5
    <2>2. /\ UNCHANGED <<journal, markers, marking, ahead>> /\ clearing' \subseteq clearing
          /\ cleared' = [cleared EXCEPT ![c.user] = c.at]
        BY <2>1 DEF CommitClear
    <2>3. c.at \in 0 .. clock
        BY <1>0
    <2>4. cleared' \in [Users -> 0 .. clock]
        BY <1>0, <2>2, <2>3
    <2> QED BY <1>0, <1>2, <2>2, <2>4
<1>6. CASE \E c \in clearing : CrashClear(c)
    <2>1. UNCHANGED <<journal, markers, cleared, marking, ahead>> /\ clearing' \subseteq clearing
        BY <1>6 DEF CrashClear
    <2> QED BY <1>0, <1>2, <2>1
<1> QED BY <1>1, <1>3, <1>4, <1>5, <1>6

(***************************************************************************)
(* Every step keeps the invariant, and no step moves a marker back.        *)
(***************************************************************************)
LEMMA MarkerStep ==
    ASSUME MarkerInv, [Next]_vars
    PROVE  /\ MarkerInv'
           /\ \A v \in Users : read[v] <= read'[v] /\ delivered[v] <= delivered'[v]
<1>1. CASE UNCHANGED vars
    BY <1>1 DEF vars, MarkerInv, TypeOK, DraftIsNext, ReadIsKnown, Named
<1>2. CASE \/ \E author \in Users \cup {NoUser} : Create(author)
           \/ Commit \/ Abort
           \/ \E i \in DOMAIN rows, gone \in BOOLEAN : Revise(i, gone)
    <2>1. MarkerInv' BY <1>2, WriterStep
    <2>2. UNCHANGED markers BY <1>2 DEF Create, Commit, Abort, Revise
    <2>3. \A v \in Users : read[v] \in Int /\ delivered[v] \in Int
        BY BoundsAssumption DEF MarkerInv, TypeOK, Named
    <2> QED BY <2>1, <2>2, <2>3 DEF markers
<1>3. ASSUME NEW u \in Readers, NEW upto \in Named,
             \/ \E held \in Named : PostRead(u, upto, held)
             \/ FrameRead(u, upto) \/ FrameDelivered(u, upto)
      PROVE  /\ MarkerInv'
             /\ \A v \in Users : read[v] <= read'[v] /\ delivered[v] <= delivered'[v]
    <2>1. 0 \in Named /\ u \in Users
        BY UsersAssumption, BoundsAssumption DEF Named
    <2> QED BY <1>3, <2>1, ReaderStep
<1>4. CASE \/ \E c \in marking : FinishRead(c) \/ CrashRead(c)
           \/ \E u \in Readers : BeginClear(u)
           \/ \E c \in clearing : CommitClear(c) \/ CrashClear(c)
    BY <1>4, MarkerCallStep
<1> QED BY <1>1, <1>2, <1>3, <1>4 DEF Next

(***************************************************************************)
(* Every reachable state is well typed, whatever positions clients name: a *)
(* position the journal has issued, one a client named, an instant that has*)
(* come.  No more is promised of a marker: it may be ahead of the journal. *)
(***************************************************************************)
THEOREM MarkersWellTyped == Spec => []TypeOK
<1>1. MarkerInv /\ [Next]_vars => MarkerInv' BY MarkerStep
<1>2. MarkerInv => TypeOK BY DEF MarkerInv
<1> QED BY MarkerInit, <1>1, <1>2, PTL DEF Spec

(***************************************************************************)
(* However many clients name whatever positions, in any order, no marker   *)
(* ever moves back.                                                        *)
(***************************************************************************)
THEOREM MarkersNeverReturn == Spec => MarkersMoveForward
<1>1. MarkerInv /\ [Next]_vars => MarkerInv' BY MarkerStep
<1>2. MarkerInv /\ [Next]_vars =>
        [\A u \in Users : read[u] <= read'[u] /\ delivered[u] <= delivered'[u]]_vars
    BY MarkerStep
<1> QED BY MarkerInit, <1>1, <1>2, PTL DEF Spec, MarkersMoveForward

(***************************************************************************)
(* Only a commit adds a row, and it is the draft's.                        *)
(***************************************************************************)
LEMMA NewsStep ==
    ASSUME MarkerInv, [Next]_vars,
           NEW i \in DOMAIN rows' \ DOMAIN rows, NEW u \in Users,
           rows'[i].author \notin {u, NoUser}, rows'[i].at > cleared[u],
           rows'[i].seq > ahead[u]
    PROVE  i \in Unread(u)'
<1>1. CASE Commit
    <2>1. PICK m \in Message : draft = <<m>> BY <1>1 DEF Commit, MarkerInv, TypeOK
    <2>2. m.seq = lastSeq + 1 /\ ~m.deleted BY <2>1 DEF MarkerInv, DraftIsNext
    <2>3. rows' = rows \o <<m>> /\ UNCHANGED <<read, cleared>>
        BY <1>1, <2>1 DEF Commit, markers
    <2>4. rows' = Append(rows, m) /\ i = Len(rows) + 1 /\ rows'[i] = m
        BY <2>3 DEF MarkerInv, TypeOK
    <2>5. /\ read[u] \in Nat /\ ahead[u] \in Nat /\ lastSeq \in Nat
          /\ read[u] <= lastSeq \/ read[u] <= ahead[u]
        BY BoundsAssumption DEF MarkerInv, TypeOK, ReadIsKnown, Position, Named
    <2>6. m.seq > read[u] BY <2>2, <2>4, <2>5
    <2> QED BY <2>2, <2>3, <2>4, <2>6 DEF Unread, Visible
<1>2. CASE DOMAIN rows' = DOMAIN rows BY <1>2
<1>3. CASE ~Commit
    <2>1. \/ UNCHANGED rows
          \/ \E k \in DOMAIN rows, gone \in BOOLEAN : Revise(k, gone)
        BY <1>3 DEF Next, vars, journal, Create, Abort, PostRead, FrameRead, FrameDelivered,
                    FinishRead, CrashRead, BeginClear, CommitClear, CrashClear
    <2>2. DOMAIN rows' = DOMAIN rows
        BY <2>1 DEF Revise
    <2> QED BY <1>2, <2>2
<1> QED BY <1>1, <1>3

(***************************************************************************)
(* No message is born read, whatever positions of the journal clients      *)
(* named: a new message of somebody else is on the badge of everyone who   *)
(* had not asked to clear their history by the time it was created, and in *)
(* whose name no read had run ahead of the journal to its position.        *)
(***************************************************************************)
THEOREM NoMessageIsBornRead == Spec => NewsRaisesBadge
<1>1. MarkerInv /\ [Next]_vars => MarkerInv' BY MarkerStep
<1>2. MarkerInv /\ [Next]_vars =>
        [\A i \in DOMAIN rows' \ DOMAIN rows, u \in Users :
            (rows'[i].author \notin {u, NoUser} /\ rows'[i].at > cleared[u]
               /\ rows'[i].seq > ahead[u]) => i \in Unread(u)']_vars
    BY NewsStep
<1> QED BY MarkerInit, <1>1, <1>2, PTL DEF Spec, NewsRaisesBadge

(***************************************************************************)
(* A committed row keeps its place, its author and its instant, and is not *)
(* restored.                                                               *)
(***************************************************************************)
LEMMA RowsOnlyAge ==
    ASSUME MarkerInv, [Next]_vars, NEW i \in DOMAIN rows
    PROVE  /\ rows'[i].seq = rows[i].seq /\ rows'[i].at = rows[i].at
           /\ rows'[i].author = rows[i].author
           /\ rows[i].deleted => rows'[i].deleted
<1>1. CASE UNCHANGED rows BY <1>1
<1>2. CASE Commit
    <2>1. PICK m \in Message : draft = <<m>> BY <1>2 DEF Commit, MarkerInv, TypeOK
    <2>2. rows' = Append(rows, m) BY <1>2, <2>1 DEF Commit, MarkerInv, TypeOK
    <2>3. rows'[i] = rows[i] BY <2>2 DEF MarkerInv, TypeOK
    <2> QED BY <2>3
<1>3. ASSUME NEW k \in DOMAIN rows, NEW gone \in BOOLEAN, Revise(k, gone)
      PROVE  /\ rows'[i].seq = rows[i].seq /\ rows'[i].at = rows[i].at
             /\ rows'[i].author = rows[i].author
             /\ rows[i].deleted => rows'[i].deleted
    <2>1. rows' = [rows EXCEPT ![k] = RevisedRow(rows[k], gone)]
        BY <1>3 DEF Revise
    <2>2. CASE i # k BY <2>1, <2>2
    <2>3. CASE i = k
        <3>1. rows'[k] = RevisedRow(rows[k], gone) BY <2>1
        <3>2. rows[k] \in Message BY DEF MarkerInv, TypeOK
        <3> QED BY <2>1, <2>3, <3>1, <3>2 DEF RevisedRow, Message
    <2> QED BY <2>2, <2>3
<1>4. \/ UNCHANGED rows \/ Commit
      \/ \E k \in DOMAIN rows, gone \in BOOLEAN : Revise(k, gone)
    BY DEF Next, vars, journal, Create, Abort, PostRead, FrameRead, FrameDelivered,
           FinishRead, CrashRead, BeginClear, CommitClear, CrashClear
<1> QED BY <1>1, <1>2, <1>3, <1>4

(***************************************************************************)
(* What left a badge does not come back: of the four things that take a    *)
(* message off, only a clearing asked for earlier can be undone.           *)
(***************************************************************************)
THEOREM TheRetiredStayRetired == Spec => RetiredStaysRetired
<1>1. MarkerInv /\ [Next]_vars => MarkerInv' BY MarkerStep
<1>2. ASSUME MarkerInv, [Next]_vars, NEW u \in Users, NEW i \in DOMAIN rows,
             i \in Unread(u)', ~(cleared'[u] < cleared[u])
      PROVE  i \in Unread(u)
    <2>1. /\ rows'[i].seq = rows[i].seq /\ rows'[i].at = rows[i].at
          /\ rows'[i].author = rows[i].author
          /\ rows[i].deleted => rows'[i].deleted
        BY <1>2, RowsOnlyAge
    <2>2. /\ MarkerInv' /\ read[u] <= read'[u]
        BY <1>2, MarkerStep
    <2>3. /\ rows[i] \in Message /\ read[u] \in Nat /\ read'[u] \in Nat
          /\ cleared[u] \in Nat /\ cleared'[u] \in Nat /\ rows[i].seq \in Nat /\ rows[i].at \in Nat
        <3>1. rows[i] \in Message BY <1>2 DEF MarkerInv, TypeOK
        <3>2. read[u] \in Named /\ cleared[u] \in 0 .. clock
            BY <1>2 DEF MarkerInv, TypeOK
        <3>3. read'[u] \in Named /\ cleared'[u] \in 0 .. clock'
            BY <2>2 DEF MarkerInv, TypeOK
        <3> QED BY <3>1, <3>2, <3>3 DEF Message, Position, Instant, Named
    <2>4. /\ rows'[i].at > cleared'[u] /\ rows'[i].seq > read'[u]
          /\ rows'[i].author \notin {u, NoUser} /\ ~rows'[i].deleted
        BY <1>2 DEF Unread, Visible
    <2>5. rows[i].at > cleared[u] /\ rows[i].seq > read[u]
        BY <1>2, <2>1, <2>2, <2>3, <2>4
    <2> QED BY <1>2, <2>1, <2>4, <2>5 DEF Unread, Visible
<1>3. MarkerInv /\ [Next]_vars =>
        [\A u \in Users : \A i \in DOMAIN rows :
            i \in Unread(u)' => i \in Unread(u) \/ cleared'[u] < cleared[u]]_vars
    BY <1>2
<1> QED BY MarkerInit, <1>1, <1>3, PTL DEF Spec, RetiredStaysRetired
================================================================================
