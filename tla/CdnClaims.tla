------------------------------- MODULE CdnClaims -------------------------------
(***************************************************************************)
(* The media that messages carry, and the claims that keep it.             *)
(*                                                                         *)
(* The CDN counts references and reaps what nobody claims.  A send claims  *)
(* what its message carries and a deletion releases it, each by an event   *)
(* that its worker publishes after the commit, best effort; a backfill     *)
(* claims for the messages sent before there were claims.  Attachments are *)
(* normalized before they are stored; what the CDN describes of them, its  *)
(* measures and its nulls, changes no reference and is left out.  The CDN  *)
(* and its bus are other services: events are applied in the order they    *)
(* are published.                                                          *)
(***************************************************************************)
EXTENDS Integers, Sequences, FiniteSets, Functions

CONSTANTS
    Senders, Workers,
    Media,          \* references to uploaded media
    Types,          \* registered types of attachments
    Offers,         \* lists of attachments that clients send
    Legacy,         \* lists that messages of older releases may carry
    Words,          \* what clients say of a type
    NoKey,
    MaxAttachments, \* MAX_ATTACHMENTS
    MaxRows,        \* bound: messages that are ever stored
    MaxLost,        \* bound: workers that die and publications that fail
    MaxPasses       \* bound: backfills that are run

ASSUME BoundsAssumption ==
    {MaxAttachments, MaxRows, MaxLost, MaxPasses} \subseteq Nat
ASSUME MediaAssumption == NoKey \notin Media /\ "bare" \notin Types

Attachment == [key : Media \cup {NoKey}, type : Words]

ASSUME OffersAssumption == Offers \subseteq Seq(Attachment)
ASSUME LegacyAssumption ==
    /\ Legacy \subseteq Seq(Attachment)
    /\ \A atts \in Legacy : \A i \in DOMAIN atts : atts[i].key # NoKey

VARIABLES
    rows,       \* messages: [sender, atts, state]
    bus,        \* ref-sync events that are published and not applied
    claims,     \* the CDN's counter: <<message, reference>>
    reaped,     \* media the CDN's sweeper took
    pc,         \* where each worker is
    job,        \* what it is about: a prepared draft, or the messages it read
    due,        \* the callbacks and publications it has yet to make
    faults,     \* deaths and failures so far
    passes,     \* backfills so far
    released,   \* history: messages whose release is published
    unclaimed,  \* history: <<message, reference>> no claim of which came in time
    stuck       \* history: messages whose release was lost, overtaken or never due

cdn   == <<bus, claims, reaped>>
work  == <<pc, job, due>>
vars  == <<rows, bus, claims, reaped, pc, job, due, faults, passes, released, unclaimed, stuck>>

Live(m) == rows[m].state = "live"

\* The conversation and its rows are deleted.
Gone == \E m \in DOMAIN rows : rows[m].state = "removed"

(***************************************************************************)
(* Mistakes the properties at the end must notice.                         *)
(***************************************************************************)
\* The attachments of older releases are overlooked.
ObjectsOnly(atts) == {atts[i].key : i \in {i \in DOMAIN atts : atts[i].type # "bare"}}
\* The refs are read from the emptied row.
ReadTooLate(m) == {}
\* The releases of a deleted conversation do not wait for the deletion.
ReleasedAnyway(done, list) == list

(***************************************************************************)
(* Attachments: prepare_attachments.                                       *)
(***************************************************************************)
\* The whole list is refused for its length or for one member.
Accepted(raws) ==
    /\ Len(raws) <= MaxAttachments
    /\ \A i \in DOMAIN raws : raws[i].key # NoKey /\ raws[i].type \in Types \cup {"bare"}

\* The bare reference of an old client is a file.
Normalized(a) == [a EXCEPT !.type = IF @ = "bare" THEN "file" ELSE @]

\* The description, answered or not, adds to each attachment what the CDN
\* measured, or marks it unknown: it keeps its reference and its type.
Prepared(raws) == [i \in DOMAIN raws |-> Normalized(raws[i])]

\* _message_cdn_refs.
Refs(atts) == {atts[i].key : i \in DOMAIN atts}

(***************************************************************************)
(* Events: what a message held and what it holds.                          *)
(***************************************************************************)
Event(m, old, new) == [msg |-> m, old |-> old, new |-> new]

Claim(m, refs)   == IF refs = {} THEN <<>> ELSE <<Event(m, {}, refs)>>
Release(m, refs) == IF refs = {} THEN <<>> ELSE <<Event(m, refs, {})>>

\* A set of messages in the order of their positions.
Rank(S, m) == Cardinality({n \in S : n <= m})
InOrder(S) == [k \in 1 .. Cardinality(S) |-> CHOOSE m \in S : Rank(S, m) = k]

(***************************************************************************)
(* Workers.                                                                *)
(***************************************************************************)
Nothing   == [draft |-> <<>>, msgs |-> <<>>]
Draft(d)  == [Nothing EXCEPT !.draft = <<d>>]
About(ms) == [Nothing EXCEPT !.msgs = ms]

Goto(w, place, what, list) ==
    /\ pc' = [pc EXCEPT ![w] = place]
    /\ job' = [job EXCEPT ![w] = what]
    /\ due' = [due EXCEPT ![w] = list]

\* After a commit: its callbacks, if it left any.
After(w, list) == Goto(w, IF list = <<>> THEN "idle" ELSE "publish", Nothing, list)

(***************************************************************************)
(* Sending: prepared before the transaction, claimed after it.             *)
(***************************************************************************)
Prepare(w, sender, raws) ==
    /\ pc[w] = "idle" /\ Len(rows) < MaxRows /\ ~Gone
    /\ Accepted(raws)
    /\ Goto(w, "post", Draft([sender |-> sender, atts |-> Prepared(raws)]), <<>>)
    /\ UNCHANGED <<rows, cdn, faults, passes, unclaimed, stuck, released>>

Message(sender, atts) == [sender |-> sender, atts |-> atts, state |-> "live"]

Post(w) ==
    LET draft == job[w].draft[1] IN
    /\ pc[w] = "post" /\ Len(rows) < MaxRows /\ ~Gone
    /\ rows' = Append(rows, Message(draft.sender, draft.atts))
    /\ unclaimed' = unclaimed \cup ({Len(rows) + 1} \X reaped)
    /\ After(w, Claim(Len(rows) + 1, Refs(draft.atts)))
    /\ UNCHANGED <<cdn, faults, passes, stuck, released>>

\* The transaction of a send or a deletion fails: nothing was scheduled that could run.
RollBack(w) ==
    /\ pc[w] \in {"post", "delete"}
    /\ Goto(w, "idle", Nothing, <<>>)
    /\ UNCHANGED <<rows, cdn, faults, passes, unclaimed, stuck, released>>

(***************************************************************************)
(* Deleting one message: the view loads it, the transaction empties it.    *)
(***************************************************************************)
\* The refs of message m as its loaded instance has them.
Released(m) == Refs(rows[m].atts)

\* The releases of several messages, in their order: of those that hold a claim.
Releases(S) ==
    LET ms == InOrder({m \in S : Released(m) # {}})
    IN [i \in DOMAIN ms |-> Event(ms[i], Released(ms[i]), {})]

BeginDelete(w, m) ==
    /\ pc[w] = "idle" /\ Live(m)
    /\ Goto(w, "delete", About(<<m>>), Release(m, Released(m)))
    /\ UNCHANGED <<rows, cdn, faults, passes, unclaimed, stuck, released>>

Emptied(r) == [r EXCEPT !.atts = <<>>, !.state = "tombstone"]

Delete(w) ==
    LET m == job[w].msgs[1] IN
    /\ pc[w] = "delete"
    /\ ~Gone
    /\ rows' = [rows EXCEPT ![m] = Emptied(@)]
    /\ After(w, due[w])
    /\ UNCHANGED <<cdn, faults, passes, unclaimed, stuck, released>>

\* erase_user_messages: the sender's rows under the lock, their releases after it.
Erase(w, sender) ==
    LET ms == {m \in DOMAIN rows : Live(m) /\ rows[m].sender = sender} IN
    /\ pc[w] = "idle" /\ ms # {}
    /\ rows' = [m \in DOMAIN rows |-> IF m \in ms THEN Emptied(rows[m]) ELSE rows[m]]
    /\ After(w, Releases(ms))
    /\ UNCHANGED <<cdn, faults, passes, unclaimed, stuck, released>>

(***************************************************************************)
(* _delete_conversation_row: the claims are read, the rows go with their   *)
(* conversation, and only then are the releases published.                 *)
(***************************************************************************)
Present == {m \in DOMAIN rows : rows[m].state # "removed"}

BeginDrop(w) ==
    /\ pc[w] = "idle" /\ Present # {}
    /\ Goto(w, "remove", About(InOrder(Present)), Releases(Present))
    /\ UNCHANGED <<rows, cdn, faults, passes, unclaimed, stuck, released>>

\* What is published when the deletion is done, or has failed.
Published(done, list) == IF done THEN list ELSE <<>>

DropConversation(w, done) ==
    /\ pc[w] = "remove"
    /\ IF done
       THEN /\ rows' = [m \in DOMAIN rows |-> [rows[m] EXCEPT !.atts = <<>>, !.state = "removed"]]
            /\ stuck' = stuck \cup (Present \ Range(job[w].msgs))
       ELSE UNCHANGED <<rows, stuck>>
    /\ After(w, Published(done, due[w]))
    /\ UNCHANGED <<cdn, faults, passes, unclaimed, released>>

(***************************************************************************)
(* Publishing: one event after the other, each once.                       *)
(***************************************************************************)
\* A claim that is published after its message's release stays for good.
Overtaken(e) == {e.msg} \cap (IF e.new # {} THEN released ELSE {})

\* What is not published leaves a message unclaimed, or a claim stuck.
Lost(es) ==
    /\ unclaimed' = unclaimed \cup UNION {{e.msg} \X e.new : e \in es}
    /\ stuck' = stuck \cup {e.msg : e \in {e \in es : e.new = {}}}

Publish(w) ==
    LET e == Head(due[w]) IN
    /\ pc[w] = "publish"
    /\ bus' = Append(bus, e)
    /\ released' = IF e.new = {} THEN released \cup {e.msg} ELSE released
    /\ stuck' = stuck \cup Overtaken(e)
    /\ After(w, Tail(due[w]))
    /\ UNCHANGED <<rows, claims, reaped, faults, passes, unclaimed>>

\* _sync_message_cdn_refs never raises: the warning is all that is left.
PublishFails(w) ==
    /\ pc[w] = "publish" /\ faults < MaxLost
    /\ faults' = faults + 1
    /\ Lost({Head(due[w])})
    /\ After(w, Tail(due[w]))
    /\ UNCHANGED <<rows, cdn, passes, released>>

\* The worker dies between its commit and the last of its callbacks.
Crash(w) ==
    /\ pc[w] # "idle" /\ faults < MaxLost
    /\ faults' = faults + 1
    /\ Lost(IF pc[w] = "publish" THEN Range(due[w]) ELSE {})
    /\ Goto(w, "idle", Nothing, <<>>)
    /\ UNCHANGED <<rows, cdn, passes, released>>

(***************************************************************************)
(* backfill_cdn_refs: the live rows that carry references, read once, and  *)
(* an additive claim for each; what fails is counted and passed over.      *)
(***************************************************************************)
Candidates == {m \in DOMAIN rows : Live(m) /\ Refs(rows[m].atts) # {}}

\* The first of the candidates by their keys, which tell nothing of their order.
Slices(limit) == {slice \in [1 .. limit -> Candidates] : IsInjective(slice)}

BeginBackfill(w, limit) ==
    /\ pc[w] = "idle" /\ passes < MaxPasses
    /\ limit \in 1 .. Cardinality(Candidates)
    /\ passes' = passes + 1
    /\ \E slice \in Slices(limit) :
          Goto(w, "backfill", Nothing,
               [i \in 1 .. limit |-> Event(slice[i], {}, Refs(rows[slice[i]].atts))])
    /\ UNCHANGED <<rows, cdn, faults, unclaimed, stuck, released>>

\* What it goes over without a failure is claimed from then on.
Backfill(w, ok) ==
    LET e == Head(due[w]) IN
    /\ pc[w] = "backfill"
    /\ ok \/ faults < MaxLost
    /\ faults' = IF ok THEN faults ELSE faults + 1
    /\ bus' = IF ok THEN Append(bus, e) ELSE bus
    /\ stuck' = IF ok THEN stuck \cup Overtaken(e) ELSE stuck
    /\ unclaimed' = IF ok THEN unclaimed \ ({e.msg} \X (Media \ reaped)) ELSE unclaimed
    /\ IF Tail(due[w]) = <<>> THEN Goto(w, "idle", Nothing, <<>>)
       ELSE Goto(w, "backfill", Nothing, Tail(due[w]))
    /\ UNCHANGED <<rows, claims, reaped, passes, released>>

(***************************************************************************)
(* The CDN: apply_ref_sync and sweep_unclaimed.                            *)
(***************************************************************************)
Apply ==
    LET e == Head(bus) IN
    /\ bus # <<>>
    /\ bus' = Tail(bus)
    /\ claims' = (claims \ ({e.msg} \X (e.old \ e.new))) \cup ({e.msg} \X (e.new \ e.old))
    /\ UNCHANGED <<rows, reaped, work, faults, passes, unclaimed, stuck, released>>

\* UNCLAIMED_TTL_HOURS outlast whatever is under way about the media.
UnderWay(r) ==
    \/ \E i \in DOMAIN bus : r \in bus[i].new
    \/ \E w \in Workers :
          \/ \E i \in DOMAIN due[w] : r \in due[w][i].new
          \/ pc[w] = "post" /\ r \in Refs(job[w].draft[1].atts)

Sweep(r) ==
    /\ r \notin reaped /\ ~UnderWay(r)
    /\ \A m \in DOMAIN rows : <<m, r>> \notin claims
    /\ reaped' = reaped \cup {r}
    /\ UNCHANGED <<rows, bus, claims, work, faults, passes, unclaimed, stuck, released>>

(***************************************************************************)
(* Specification: it starts with a conversation of an older release.       *)
(***************************************************************************)
Init ==
    /\ \E sender \in Senders, atts \in Legacy : rows = <<Message(sender, atts)>>
    /\ bus = <<>> /\ claims = {} /\ reaped = {}
    /\ pc = [w \in Workers |-> "idle"]
    /\ job = [w \in Workers |-> Nothing]
    /\ due = [w \in Workers |-> <<>>]
    /\ faults = 0 /\ passes = 0
    /\ released = {} /\ unclaimed = {1} \X Media /\ stuck = {}

Work(w) ==
    \/ \E sender \in Senders, raws \in Offers : Prepare(w, sender, raws)
    \/ Post(w)
    \/ RollBack(w)
    \/ \E m \in DOMAIN rows : BeginDelete(w, m)
    \/ Delete(w)
    \/ \E sender \in Senders : Erase(w, sender)
    \/ BeginDrop(w)
    \/ \E done \in BOOLEAN : DropConversation(w, done)
    \/ Publish(w)
    \/ PublishFails(w)
    \/ Crash(w)
    \/ \E limit \in 1 .. MaxRows : BeginBackfill(w, limit)
    \/ \E ok \in BOOLEAN : Backfill(w, ok)

Next ==
    \/ \E w \in Workers : Work(w)
    \/ Apply
    \/ \E r \in Media : Sweep(r)

Spec == Init /\ [][Next]_vars

(***************************************************************************)
(* Properties.                                                             *)
(***************************************************************************)
Keys(m) == {rows[m].atts[i].key : i \in DOMAIN rows[m].atts}

\* The sweeper never takes what a live message carries and could have been
\* saved: not after its claim was published, and not after a backfill went
\* over a message that is older than the claims, or that had lost its own.
LiveMediaIsKept ==
    \A m \in DOMAIN rows :
       Live(m) => \A r \in Keys(m) \cap reaped : <<m, r>> \in unclaimed

\* With nothing under way, what is deleted or erased, or went with its
\* conversation, claims nothing: no media is kept for a message that is not
\* there.  Excepted are the releases that were lost and the claims that came
\* after them, and a message that was posted while its conversation went.
DeadMediaIsReleased ==
    (bus = <<>> /\ \A w \in Workers : pc[w] = "idle")
        => \A c \in claims : Live(c[1]) \/ c[1] \in stuck

\* No order of sends, deletions, backfills and failures releases the media of
\* a message that is still there.
OnlyTheDeadAreReleased ==
    [][\A c \in claims \ claims' : ~Live(c[1])]_vars
================================================================================
