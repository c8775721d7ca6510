-------------------------------- MODULE Accounts --------------------------------
(***************************************************************************)
(* What the chat does when the account service tells of an account: a      *)
(* guest who was merged into a survivor (user.merged), an account that was *)
(* deleted (user.deleted).  Both events are delivered at least once and a  *)
(* worker may die anywhere, while people go on opening threads, writing    *)
(* and reading.                                                            *)
(*                                                                         *)
(* The merge is one transaction.  It is three steps here: what it reads    *)
(* first, what it reads on its way, and its writes with the commit; other  *)
(* transactions commit between them, but for the locks it holds.  The      *)
(* deletion is one step per transaction.                                   *)
(***************************************************************************)
EXTENDS Integers, FiniteSets, FiniteSetsExt

CONSTANTS
    Users,          \* accounts
    Guest,          \* the account of user.merged that is absorbed
    Survivor,       \* the account that survives
    Leavers,        \* the accounts a user.deleted is sent for
    NoUser,         \* sender of an erased message, operator of an unassigned thread
    Rooms,          \* bound: the group and support threads convened, [people, operator]
    Cids,           \* client_msg_id values
    NoCid,          \* a send without one
    Histories,      \* bound: what was said before, [threads, rows]
    MaxNews,        \* bound: threads opened, messages posted and threads read since
    MaxCrashes,     \* bound: workers that die while they handle an event
    MaxRepeats      \* bound: deliveries of an event that was already acknowledged

ASSUME UsersAssumption ==
    /\ {Guest, Survivor} \cup Leavers \subseteq Users
    /\ Guest # Survivor /\ Guest \notin Leavers
    /\ NoUser \notin Users /\ NoCid \notin Cids
    /\ Rooms \subseteq [people : SUBSET Users, operator : Users \cup {NoUser}]
ASSUME BoundsAssumption == {MaxNews, MaxCrashes, MaxRepeats} \subseteq Nat

\* Rows of the two tables, and who may share a direct thread.
Thread(people) == [kind : {"direct", "room"}, key : SUBSET Users, operator : Users \cup {NoUser},
                   seats : [people -> Nat], last : Nat]
Message == [thread : Nat, seq : Nat, rev : Nat, author : Users \cup {NoUser},
            cid : Cids \cup {NoCid}, life : {"live", "gone", "back"}]
Pairs   == {{p[1], p[2]} : p \in {p \in Users \X Users : p[1] # p[2]}}
Newest(S) == Max(S \cup {0})

\* What is there keeps the database's constraints (on direct_key, on the place of a
\* message, on its conversation; both tables are numbered from one), and nobody but
\* the pair it was opened for sits in a direct thread.
ASSUME HistoriesAssumption ==
    \A h \in Histories :
       /\ h.threads = [t \in DOMAIN h.threads |-> h.threads[t]]
       /\ \A t \in DOMAIN h.threads : \E people \in SUBSET Users : h.threads[t] \in Thread(people)
       /\ h.rows \in [DOMAIN h.rows -> Message]
       /\ \A S \in {DOMAIN h.threads, DOMAIN h.rows} : Newest(S) \in Nat /\ S \subseteq 1 .. Newest(S)
       /\ \A t \in DOMAIN h.threads :
             h.threads[t].kind = "direct" =>
                /\ h.threads[t].key \in Pairs /\ DOMAIN h.threads[t].seats \subseteq h.threads[t].key
                /\ \A w \in DOMAIN h.threads \ {t} :
                      h.threads[w].kind = "direct" => h.threads[w].key # h.threads[t].key
       /\ \A m \in DOMAIN h.rows :
             /\ h.rows[m].thread \in DOMAIN h.threads
             /\ h.rows[m].seq <= h.threads[h.rows[m].thread].last
             /\ \A k \in DOMAIN h.rows \ {m} :
                   h.rows[k].thread = h.rows[m].thread => h.rows[k].seq # h.rows[m].seq

VARIABLES
    exists,     \* the accounts that have a user row here
    threads,    \* live conversations: [kind, key, seats, operator, last]
    opened,     \* threads opened so far
    rows,       \* messages: [thread, seq, rev, author, cid, life]; of life, whether it is a
                \* tombstone, and one over which an edit wrote text back (deleted_at stays)
    posted,     \* messages posted so far
    news,       \* what people have done since the beginning
    merge,      \* the delivery of user.merged
    erase,      \* the delivery of user.deleted to each leaver
    crashes,    \* workers that died
    repeats,    \* deliveries repeated
    stray       \* history: threads the guest came into while a merge was being read

database   == <<exists, threads, opened, rows, posted, news>>
deliveries == <<merge, erase>>
faults     == <<crashes, repeats>>
vars == <<exists, threads, opened, rows, posted, news, merge, erase, crashes, repeats, stray>>

Live     == DOMAIN threads
Sitting(t) == DOMAIN threads[t].seats
Direct   == {t \in Live : threads[t].kind = "direct"}
Said(t)  == {m \in DOMAIN rows : rows[m].thread = t}
By(u)    == {m \in DOMAIN rows : rows[m].author = u}
\* What the erasure looks for: deleted_at__isnull.
Standing(u) == {m \in By(u) : rows[m].life = "live"}

\* Django's collector takes what hangs on the deleted conversation with it.
Kept(f, S) == [x \in DOMAIN f \ S |-> f[x]]

(***************************************************************************)
(* Mistakes the properties at the end must notice.                         *)
(***************************************************************************)
\* Only memberships are looked for.
SeatsAlone == \E t \in Live : Guest \in Sitting(t)
\* The loser's messages keep their places, among the winner's.
FoldedInPlace(m, w) == rows[m].seq
\* A folded message keeps its client_msg_id.
FoldedCidKept(m, w) == rows[m].cid
\* The key of the pair stays.
KeyKept(t) == threads[t].key
\* A thread whose key is taken is dropped, messages and all.
LoserIsDropped(p) == {}
\* Only the threads the user still sits in are erased.
SatInOnly(u) == {t \in Live : u \in Sitting(t)}

(***************************************************************************)
(* People.                                                                 *)
(***************************************************************************)
\* The survivor's user projection lands.
Provision ==
    /\ Survivor \notin exists
    /\ exists' = exists \cup {Survivor}
    /\ UNCHANGED <<threads, opened, rows, posted, news, deliveries, faults, stray>>

\* The merge has locked the winners of its folds, and the seats it moved.
Locked(t) == merge.phase = "looked" /\ \E p \in merge.folds : p[2] = t
Seated(t) == merge.phase = "looked" /\ t \in merge.seated

NewThread(kind, key, ms, op) ==
    [kind |-> kind, key |-> key, seats |-> [u \in ms |-> 0], operator |-> op, last |-> 0]

Add(thread) ==
    /\ news < MaxNews /\ news' = news + 1
    /\ opened' = opened + 1
    /\ threads' = [t \in Live \cup {opened + 1} |-> IF t \in Live THEN threads[t] ELSE thread]
    /\ stray' = IF Guest \in DOMAIN thread.seats /\ merge.phase = "begun"
                THEN stray \cup {opened + 1} ELSE stray
    /\ UNCHANGED <<exists, rows, posted, deliveries, faults>>

\* create_direct; a pair that has a thread is answered with it.
OpenDirect(u, v) ==
    /\ {u, v} \subseteq exists /\ u # v
    /\ \A t \in Direct : threads[t].key # {u, v}
    /\ Add(NewThread("direct", {u, v}, {u, v}, NoUser))

\* create_group, or a support thread with the operator assigned to it.
Convene(room) ==
    /\ room.people \subseteq exists
    /\ Add(NewThread("room", {}, room.people, room.operator))

Post(u, t, c) ==
    /\ u \in exists /\ u \in Sitting(t) /\ ~Locked(t)
    /\ news < MaxNews /\ news' = news + 1
    /\ c = NoCid \/ \A m \in Said(t) : rows[m].cid # c
    /\ posted' = posted + 1
    /\ rows' = [m \in DOMAIN rows \cup {posted + 1} |->
                   IF m \in DOMAIN rows THEN rows[m]
                   ELSE [thread |-> t, seq |-> threads[t].last + 1, rev |-> threads[t].last + 1,
                         author |-> u, cid |-> c, life |-> "live"]]
    /\ threads' = [threads EXCEPT ![t].last = @ + 1]
    /\ UNCHANGED <<exists, opened, deliveries, faults, stray>>

\* The author's row is judged as it was when it was loaded, before the lock; a system
\* line, which nobody may revise, has no author and stands.
Revise(m, life) ==
    LET t == rows[m].thread
    IN  /\ rows[m].author # NoUser \/ rows[m].life # "live"
        /\ ~Locked(t)
        /\ news < MaxNews /\ news' = news + 1
        /\ rows' = [rows EXCEPT ![m].life = life, ![m].rev = threads[t].last + 1]
        /\ threads' = [threads EXCEPT ![t].last = @ + 1]
        /\ UNCHANGED <<exists, opened, posted, deliveries, faults, stray>>

\* The author's tombstone keeps its sender.
Delete(m) == Revise(m, "gone")

\* An edit saves the body and leaves deleted_at to whoever has set it since.
Edit(m) == Revise(m, IF rows[m].life = "live" THEN "live" ELSE "back")

Read(u, t) ==
    /\ u \in Sitting(t)
    /\ news < MaxNews /\ news' = news + 1
    /\ threads[t].seats[u] < threads[t].last
    /\ threads' = [threads EXCEPT ![t].seats[u] = threads[t].last]
    /\ UNCHANGED <<exists, opened, rows, posted, deliveries, faults, stray>>

(***************************************************************************)
(* user.merged.                                                            *)
(***************************************************************************)
Empty == <<>>
NoMerge(phase) ==
    [phase |-> phase, touched |-> {}, held |-> {}, desks |-> {}, dead |-> {},
     keys |-> Empty, folds |-> {}, seen |-> {}, upto |-> 0,
     seated |-> {}, marks |-> Empty]

Touched == {t \in Live : Guest \in Sitting(t)}
Desks   == {t \in Live : threads[t].operator = Guest}
GuestOwnsSomething == Touched # {} \/ By(Guest) # {} \/ Desks # {}
WhatGuestOwns(phase) ==
    [NoMerge(phase) EXCEPT !.touched = Touched, !.held = By(Guest), !.desks = Desks]

\* Nothing to carry: never chatted here, or carried by an earlier delivery.
MergeIsQuiet ==
    /\ merge.phase = "waiting"
    /\ ~GuestOwnsSomething
    /\ merge' = WhatGuestOwns("done")
    /\ UNCHANGED <<database, erase, faults, stray>>

\* MergeTargetNotReady: the outbox will deliver again.
MergeNotReady ==
    /\ merge.phase = "waiting"
    /\ GuestOwnsSomething /\ Survivor \notin exists
    /\ merge' = NoMerge("failed")
    /\ UNCHANGED <<database, erase, faults, stray>>

BeginMerge ==
    /\ merge.phase = "waiting"
    /\ GuestOwnsSomething /\ Survivor \in exists
    /\ merge' = WhatGuestOwns("begun")
    /\ UNCHANGED <<database, erase, faults, stray>>

\* _merge_participations: a seat moves, or is folded into the survivor's by max.
Carried(people) == {IF u = Guest THEN Survivor ELSE u : u \in people}
FoldedMark(m) == Max({m.own, m.guest})
MarkIsSaved(t) == t \in DOMAIN merge.marks /\ FoldedMark(merge.marks[t]) # merge.marks[t].own

\* _requalify_direct_key, when the seats have moved.
NewKey(t)  == Carried(Sitting(t))
Winners(t) == {w \in Direct \ {t} : threads[w].key = NewKey(t)}

\* _fold_conversation reads the loser's messages when it has locked the winner.
SeenBy(p) == Said(p[1])

LookMerge ==
    /\ merge.phase = "begun"
    /\ LET stale   == merge.touched \cap Direct
           dead    == {t \in stale : Cardinality(Carried(Sitting(t))) < 2}
           renamed == {t \in stale \ dead : NewKey(t) # threads[t].key}
           folds   == {p \in renamed \X Direct : p[2] \in Winners(p[1])}
           both    == {t \in Live : {Guest, Survivor} \subseteq Sitting(t)}
       IN  merge' = [merge EXCEPT
              !.phase = "looked", !.dead = dead, !.folds = folds,
              !.keys  = [t \in {r \in renamed : Winners(r) = {}} |-> NewKey(t)],
              !.seen  = UNION {SeenBy(p) : p \in folds}, !.upto = posted,
              !.seated = Touched,
              !.marks = [t \in both |-> [own |-> threads[t].seats[Survivor],
                                        guest |-> threads[t].seats[Guest]]]]
    /\ UNCHANGED <<database, erase, faults, stray>>

Losers == {p[1] : p \in merge.folds}
WinnerOf(l) == CHOOSE w \in Live : <<l, w>> \in merge.folds

\* Folded messages are appended, in their order.
FoldedSeq(m, w) ==
    threads[w].last
        + Cardinality({k \in Said(rows[m].thread) \cap merge.seen : rows[k].seq <= rows[m].seq})

FoldedCid(m, w) ==
    IF \E k \in Said(w) : rows[k].cid = rows[m].cid THEN NoCid ELSE rows[m].cid

MergedRow(m) ==
    LET r == [rows[m] EXCEPT !.author = IF m \in merge.held THEN Survivor ELSE @]
        w == WinnerOf(r.thread)
    IN  IF r.thread \notin Losers THEN r
        ELSE [r EXCEPT !.thread = w, !.seq = FoldedSeq(m, w), !.rev = FoldedSeq(m, w),
                       !.cid = FoldedCid(m, w)]

SeatsAfter(t) ==
    LET seats == threads[t].seats
        after == IF t \in DOMAIN merge.marks THEN Sitting(t) \ {Guest}
                 ELSE IF t \in merge.seated THEN Carried(Sitting(t)) ELSE Sitting(t)
    IN  [u \in after |->
            IF u = Survivor /\ MarkIsSaved(t) THEN FoldedMark(merge.marks[t])
            ELSE IF u \in Sitting(t) THEN seats[u] ELSE seats[Guest]]

\* The winner takes the messages, and the seats it has not; markers are not folded.
MergedThread(t) ==
    LET losers == {l \in Losers : WinnerOf(l) = t}
        seats  == SeatsAfter(t)
        joiners == (UNION {DOMAIN SeatsAfter(l) : l \in losers}) \ DOMAIN seats
    IN  [threads[t] EXCEPT
           !.operator = IF t \in merge.desks THEN Survivor ELSE @,
           !.key   = IF t \in DOMAIN merge.keys THEN merge.keys[t] ELSE @,
           !.last  = @ + Cardinality(merge.seen \cap UNION {Said(l) : l \in losers}),
           !.seats = [u \in DOMAIN seats \cup joiners |->
                         IF u \in DOMAIN seats THEN seats[u]
                         ELSE SeatsAfter(CHOOSE l \in losers : u \in DOMAIN SeatsAfter(l))[u]]]

\* What the commit leaves of the rows: what was posted into a loser after its
\* messages were read is deleted with it.
Remaining ==
    {m \in DOMAIN rows : /\ rows[m].thread \notin merge.dead
                         /\ rows[m].thread \in Losers => m \in merge.seen}

\* A key that was taken since, a seat or a thread that is gone, a client_msg_id
\* that is used twice: the statement fails.
MergeCollides ==
    \/ \E t \in DOMAIN merge.keys : \E w \in Direct \ {t} : threads[w].key = merge.keys[t]
    \/ ~(DOMAIN merge.keys \cup {p[2] : p \in merge.folds} \subseteq Live)
    \/ \E t \in DOMAIN merge.marks : MarkIsSaved(t) /\ (t \notin Live \/ Survivor \notin Sitting(t))
    \/ \E m, k \in Remaining :
          /\ m # k /\ rows[m].thread \in Losers
          /\ MergedRow(m).thread = MergedRow(k).thread
          /\ MergedRow(m).cid = MergedRow(k).cid /\ MergedRow(m).cid # NoCid

CommitMerge ==
    /\ merge.phase = "looked"
    /\ ~MergeCollides
    /\ threads' = [t \in Live \ (merge.dead \cup Losers) |-> MergedThread(t)]
    /\ rows' = [m \in Remaining |-> MergedRow(m)]
    /\ merge' = [NoMerge("done") EXCEPT !.touched = merge.touched, !.held = merge.held,
                                      !.desks = merge.desks]
    /\ UNCHANGED <<exists, opened, posted, news, erase, faults, stray>>

\* The transaction is rolled back and the event delivered again.
RollBackMerge ==
    /\ merge.phase = "looked"
    /\ MergeCollides
    /\ merge' = NoMerge("failed")
    /\ UNCHANGED <<database, erase, faults, stray>>

CrashMerge ==
    /\ crashes < MaxCrashes
    /\ merge.phase \in {"begun", "looked"}
    /\ merge' = NoMerge("failed")
    /\ crashes' = crashes + 1
    /\ UNCHANGED <<database, erase, repeats, stray>>

RetryMerge ==
    /\ merge.phase = "failed"
    /\ merge' = NoMerge("waiting")
    /\ UNCHANGED <<database, erase, faults, stray>>

\* Delivered again although it was acknowledged.
RepeatMerge ==
    /\ repeats < MaxRepeats
    /\ merge.phase = "done"
    /\ merge' = NoMerge("waiting")
    /\ repeats' = repeats + 1
    /\ UNCHANGED <<database, erase, crashes, stray>>

(***************************************************************************)
(* user.deleted: ChatGDPRProvider.delete, one transaction after another.   *)
(***************************************************************************)
NoErase(phase) == [phase |-> phase, convs |-> {}, todo |-> {}, held |-> {}]

\* Conversations with something to erase: what is a tombstone is passed over.
ToErase(u) == {rows[m].thread : m \in Standing(u)}

BeginErase(u) ==
    /\ erase[u].phase = "waiting"
    /\ erase' = [erase EXCEPT ![u] = [phase |-> "erasing", todo |-> ToErase(u), held |-> By(u),
                                      convs |-> {t \in Live : u \in Sitting(t)}]]
    /\ UNCHANGED <<database, merge, faults, stray>>

\* One conversation: its block of positions is reserved, its rows are erased.
EraseThread(u, t) ==
    /\ erase[u].phase = "erasing" /\ t \in erase[u].todo
    /\ t \in Live /\ ~Locked(t)
    /\ LET mine == Said(t) \cap Standing(u)
       IN  /\ rows' = [m \in DOMAIN rows |->
                 IF m \notin mine THEN rows[m]
                 ELSE [rows[m] EXCEPT !.author = NoUser, !.life = "gone",
                         !.rev = threads[t].last
                                   + Cardinality({k \in mine : rows[k].seq <= rows[m].seq})]]
           /\ threads' = [threads EXCEPT ![t].last = @ + Cardinality(mine)]
    /\ erase' = [erase EXCEPT ![u].todo = @ \ {t}]
    /\ UNCHANGED <<exists, opened, posted, news, merge, faults, stray>>

\* The conversation was deleted in the meantime: DoesNotExist.
EraseFails(u) ==
    /\ erase[u].phase = "erasing" /\ ~(erase[u].todo \subseteq Live)
    /\ erase' = [erase EXCEPT ![u] = NoErase("failed")]
    /\ UNCHANGED <<database, merge, faults, stray>>

\* Sockets are revoked, memberships deleted, and direct threads listed.
RemoveMembership(u) ==
    /\ erase[u].phase = "erasing" /\ erase[u].todo = {}
    /\ threads' = [t \in Live |-> [threads[t] EXCEPT !.seats = Kept(@, {u})]]
    /\ erase' = [erase EXCEPT ![u].phase = "cleaning", ![u].todo = erase[u].convs \cap Direct]
    /\ UNCHANGED <<exists, opened, rows, posted, news, merge, faults, stray>>

\* _delete_conversation_row, for a thread with fewer than two people.
Clean(u, t) ==
    /\ erase[u].phase = "cleaning" /\ t \in erase[u].todo
    /\ ~Locked(t) /\ ~Seated(t)
    /\ LET dead == t \in Live /\ Cardinality(Sitting(t)) < 2
       IN  /\ threads' = IF dead THEN Kept(threads, {t}) ELSE threads
           /\ rows' = IF dead THEN Kept(rows, Said(t)) ELSE rows
    /\ erase' = [erase EXCEPT ![u].todo = @ \ {t}]
    /\ UNCHANGED <<exists, opened, posted, news, merge, faults, stray>>

FinishErase(u) ==
    /\ erase[u].phase = "cleaning" /\ erase[u].todo = {}
    /\ erase' = [erase EXCEPT ![u] = [NoErase("done") EXCEPT !.held = erase[u].held]]
    /\ UNCHANGED <<database, merge, faults, stray>>

CrashErase(u) ==
    /\ crashes < MaxCrashes
    /\ erase[u].phase \in {"erasing", "cleaning"}
    /\ erase' = [erase EXCEPT ![u] = NoErase("failed")]
    /\ crashes' = crashes + 1
    /\ UNCHANGED <<database, merge, repeats, stray>>

RetryErase(u) ==
    /\ erase[u].phase = "failed"
    /\ erase' = [erase EXCEPT ![u] = NoErase("waiting")]
    /\ UNCHANGED <<database, merge, faults, stray>>

RepeatErase(u) ==
    /\ repeats < MaxRepeats
    /\ erase[u].phase = "done"
    /\ erase' = [erase EXCEPT ![u] = NoErase("waiting")]
    /\ repeats' = repeats + 1
    /\ UNCHANGED <<database, merge, crashes, stray>>

(***************************************************************************)
(* The specification.                                                      *)
(***************************************************************************)
Init ==
    /\ \E h \in Histories :
          /\ threads = h.threads /\ opened = Newest(DOMAIN h.threads)
          /\ rows = h.rows /\ posted = Newest(DOMAIN h.rows)
    /\ news = 0
    /\ exists \in {Users, Users \ {Survivor}}
    /\ \A t \in Live : Sitting(t) \subseteq exists
    /\ merge = NoMerge("waiting")
    /\ erase = [u \in Leavers |-> NoErase("waiting")]
    /\ crashes = 0 /\ repeats = 0 /\ stray = {}

People ==
    \/ Provision
    \/ \E u, v \in Users : OpenDirect(u, v)
    \/ \E room \in Rooms : Convene(room)
    \/ \E u \in Users, t \in Live : Read(u, t) \/ \E c \in Cids \cup {NoCid} : Post(u, t, c)
    \/ \E m \in DOMAIN rows : Delete(m) \/ Edit(m)

\* What the worker that handles user.merged does of itself, and the outbox for it.
MergeMoves ==
    \/ MergeIsQuiet \/ MergeNotReady \/ BeginMerge \/ LookMerge
    \/ CommitMerge \/ RollBackMerge \/ RetryMerge

EraseMoves(u) ==
    \/ BeginErase(u) \/ EraseFails(u) \/ RemoveMembership(u) \/ FinishErase(u) \/ RetryErase(u)
    \/ \E t \in erase[u].todo : EraseThread(u, t) \/ Clean(u, t)

Next ==
    \/ People
    \/ MergeMoves \/ CrashMerge \/ RepeatMerge
    \/ \E u \in Leavers : EraseMoves(u) \/ CrashErase(u) \/ RepeatErase(u)

Fairness == WF_vars(MergeMoves) /\ \A u \in Leavers : WF_vars(EraseMoves(u))

Spec     == Init /\ [][Next]_vars
FairSpec == Spec /\ Fairness

(***************************************************************************)
(* Properties.                                                             *)
(***************************************************************************)
(***************************************************************************)
(* An acknowledged merge left nothing behind: of what the guest had when   *)
(* the delivery that was acknowledged began, no message, no seat and no    *)
(* desk is the guest's any more, whatever crashed, failed or came twice.   *)
(***************************************************************************)
NothingStaysBehind ==
    merge.phase = "done" =>
        /\ merge.held \cap By(Guest) = {}
        /\ merge.touched \cap Touched = {}
        /\ merge.desks \cap Desks = {}

(***************************************************************************)
(* Whoever sits in a direct thread is who its key says, and two people     *)
(* have one thread: the merge recomputes keys and folds what would be a    *)
(* second one.  Threads the guest came into while the merge was reading    *)
(* are beyond it.                                                          *)
(***************************************************************************)
OneThreadPerPair ==
    \A t \in Direct \ stray :
        /\ Sitting(t) \subseteq threads[t].key
        /\ \A w \in Direct \ (stray \cup {t}) :
              Cardinality(Sitting(t)) = 2 => Sitting(w) # Sitting(t)

(***************************************************************************)
(* Threads keep their order.  Messages of one thread stay in one thread,   *)
(* in the order they were in, no two of them in one place; and a message   *)
(* that is moved lands above every position of the thread it comes into,   *)
(* which is where the clients of that thread resume.                       *)
(***************************************************************************)
ThreadsKeepTheirOrder ==
    [][\A m \in DOMAIN rows \cap DOMAIN rows' :
          /\ \A k \in DOMAIN rows \cap DOMAIN rows' :
                rows[m].thread = rows[k].thread /\ rows[m].seq < rows[k].seq =>
                    rows'[m].thread = rows'[k].thread /\ rows'[m].seq < rows'[k].seq
          /\ rows'[m].thread # rows[m].thread =>
                /\ rows'[m].rev > threads[rows'[m].thread].last
                /\ \A k \in DOMAIN rows' \ {m} :
                      rows'[k].thread = rows'[m].thread => rows'[k].seq # rows'[m].seq]_vars

(***************************************************************************)
(* Nothing is lost.  A message is deleted only with a direct thread that   *)
(* has fewer than two people, or with a thread that is folded after its    *)
(* messages were read; and no read marker moves back, also where two seats *)
(* become one, but for one its reader moved between the merge's read and   *)
(* its save.                                                               *)
(***************************************************************************)
NothingIsLost ==
    [][/\ \A m \in DOMAIN rows \ DOMAIN rows' :
             LET t == rows[m].thread
             IN  \/ Cardinality(Sitting(t)) < 2 \/ Sitting(t) = {Guest, Survivor}
                 \/ m > merge.upto /\ t \in Losers
       /\ \A t \in Live \cap DOMAIN threads' :
             \A u \in Sitting(t) \cap DOMAIN threads'[t].seats :
                \/ threads'[t].seats[u] >= threads[t].seats[u]
                \/ /\ u = Survivor /\ merge.phase = "looked" /\ t \in DOMAIN merge.marks
                   /\ merge.marks[t].own < threads[t].seats[u]]_vars

(***************************************************************************)
(* An acknowledged deletion left nothing standing of what its account had  *)
(* said when the delivery began: every such message is a tombstone, in     *)
(* whatever thread a merge has put it since and whoever wrote, deleted or  *)
(* edited meanwhile.  It is no more than that: what its author had deleted *)
(* keeps its sender, and what an edit wrote over a tombstone is kept.      *)
(***************************************************************************)
ErasureReaches ==
    \A u \in Leavers : erase[u].phase = "done" =>
        \A m \in erase[u].held \cap DOMAIN rows : rows[m].life # "live"

(***************************************************************************)
(* Redelivery brings the work to its end: the merge, once the survivor is  *)
(* known here, and a deletion always, whatever crashed, collided or was    *)
(* opened meanwhile.                                                       *)
(***************************************************************************)
DeliveriesComplete ==
    /\ Survivor \in exists ~> merge.phase = "done"
    /\ \A u \in Leavers : <>[](erase[u].phase = "done")

(***************************************************************************)
(* What the code's own documentation says and the code does not do.        *)
(***************************************************************************)
(***************************************************************************)
(* gdpr.py: a direct conversation that is left with fewer than two         *)
(* participants after the erasure is deleted.                              *)
(***************************************************************************)
DeadThreadsGo ==
    (\A u \in Leavers : erase[u].phase = "done") /\ merge.phase = "done" =>
        \A t \in Direct : Cardinality(Sitting(t)) >= 2
=============================================================================
