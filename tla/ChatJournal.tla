----------------------------- MODULE ChatJournal -----------------------------
(***************************************************************************)
(* One conversation of stapel-chat: its counter Conversation.last_seq, its *)
(* message rows, the left_at marks of its participants, the outbox that    *)
(* commits with them, and the request workers that run the service layer.  *)
(*                                                                         *)
(* A worker first loads what its handler reads before any transaction (the *)
(* Begin actions), and later runs its transaction (the Commit actions).    *)
(* Every transaction that moves the journal takes the conversation row     *)
(* with SELECT ... FOR UPDATE first and holds it to its commit, so a       *)
(* transaction is one step; what lies between the load and the lock is     *)
(* not.  After the commit the worker runs its on_commit callbacks, one     *)
(* Deliver step each, and it may be killed at any point (Crash).           *)
(*                                                                         *)
(* The conversation is a group or support thread: _refuse_if_blocked asks  *)
(* nobody about those.  A message's primary key is its index in rows.      *)
(***************************************************************************)
EXTENDS Naturals, Sequences, FiniteSets

CONSTANTS
    Users,      \* the participants of the conversation
    NoUser,     \* a null sender
    Cids,       \* client_msg_id values a client may send
    NoCid,      \* the blank client_msg_id
    Texts,      \* message bodies
    NoText,     \* the empty body
    Workers,    \* request workers
    MaxSeq      \* bound: transactions stop once last_seq would pass it

ASSUME NoUserAssumption == NoUser \notin Users
ASSUME NoCidAssumption  == NoCid \notin Cids
ASSUME NoTextAssumption == NoText \notin Texts
ASSUME MaxSeqAssumption == MaxSeq \in Nat

VARIABLES
    lastSeq,    \* Conversation.last_seq
    rows,       \* rows[id]: the message rows, in the order of their creation
    left,       \* the participants whose left_at is set
    outbox,     \* the events committed by mutate_and_emit, in commit order
    pc,         \* pc[w]: what worker w is doing
    req,        \* req[w]: the arguments of the request w serves
    pushes,     \* pushes[w]: the on_commit callbacks w has still to run
    replies     \* history: <<client_msg_id, id>> of every answered send

vars == <<lastSeq, rows, left, outbox, pc, req, pushes, replies>>

(***************************************************************************)
(* Data.                                                                   *)
(***************************************************************************)
\* The body of the system line a departure posts.
LeftLine(u) == <<"chat.participant.left", u>>

Bodies == Texts \cup {NoText} \cup {LeftLine(u) : u \in Users}

Row == [seq : Nat, rev : Nat, sender : Users \cup {NoUser},
        kind : {"text", "system"}, body : Bodies, deleted : BOOLEAN,
        cid : Cids \cup {NoCid}]

Event == [type : {"message", "edited", "deleted"}, id : Nat, rev : Nat,
          body : Bodies]

\* An on_commit callback: a frame for the conversation stream and the inbox
\* streams of `to', or the revocation of `user''s subscription.
Push == [type : {"frame", "revoke"}, id : Nat, rev : Nat, body : Bodies,
         deleted : BOOLEAN, user : Users \cup {NoUser}, to : SUBSET Users]

Request == [user : Users \cup {NoUser}, id : Nat, cid : Cids \cup {NoCid},
            body : Bodies]

Idle == [user |-> NoUser, id |-> 0, cid |-> NoCid, body |-> NoText]

Working == {"idle", "send", "edit", "delete", "erase", "leave", "push"}

Revoke(u) ==
    [type |-> "revoke", id |-> 0, rev |-> 0, body |-> NoText,
     deleted |-> FALSE, user |-> u, to |-> {}]

\* The rows an erasure of u unmakes.
Authored(u) == {id \in DOMAIN rows : rows[id].sender = u /\ ~rows[id].deleted}

(***************************************************************************)
(* Mistakes the properties at the end must notice: each is a body one of   *)
(* the definitions below could have had by a plausible slip.               *)
(***************************************************************************)
\* The whole block of an erasure takes one position.
ErasedFlat(S) ==
    [id \in DOMAIN rows |->
        IF id \in S
        THEN [rows[id] EXCEPT !.body = NoText, !.sender = NoUser,
                              !.deleted = TRUE, !.rev = lastSeq + 1]
        ELSE rows[id]]
\* The look-up and the unique constraint on client_msg_id are missing.
NeverTwin(cid) == {}
\* A new message leaves the departed where they are.
NobodyResurfaced(sender) == left
\* An edit keeps the position the message had.
EditInPlace(m, body) == [m EXCEPT !.body = body]
\* An edit saves the whole stale instance, deleted_at included.
EditWholeRow(m, body) ==
    [m EXCEPT !.body = body, !.rev = lastSeq + 1, !.deleted = FALSE]
\* A deletion forgets to take a position for its event.
DeleteAtSeq(m) == [m EXCEPT !.body = NoText, !.deleted = TRUE]
\* The arguments of Message.objects.create are swapped.
SwappedRow(sender, kind, body, cid) ==
    [seq |-> lastSeq + 1, rev |-> lastSeq + 1, sender |-> cid, kind |-> kind,
     body |-> body, deleted |-> FALSE, cid |-> sender]

(***************************************************************************)
(* The steps transactions are made of.                                     *)
(***************************************************************************)
\* broadcast_message for a message in the shape the transaction left it in:
\* message_payload hides the body of a tombstone.
Frame(id, m, to) ==
    [type |-> "frame", id |-> id, rev |-> m.rev,
     body |-> IF m.deleted THEN NoText ELSE m.body,
     deleted |-> m.deleted, user |-> m.sender, to |-> to]

\* The rows a client_msg_id names; the blank one names none.
WithCid(cid) == {id \in DOMAIN rows : cid # NoCid /\ rows[id].cid = cid}

\* The position of id in S in ascending order, from 1.
Rank(S, id) == Cardinality({j \in S : j <= id})

\* The row an edit leaves behind, and the one a deletion leaves behind.
EditedRow(m, body) == [m EXCEPT !.body = body, !.rev = lastSeq + 1]

Tombstone(m) == [m EXCEPT !.body = NoText, !.deleted = TRUE, !.rev = lastSeq + 1]

\* _allocate_seq: the next value of the one counter.
NextSeq == lastSeq + 1

\* _resurface_participants: an authored message un-hides the thread for all.
Resurfaced(sender) == IF sender = NoUser THEN left ELSE {}

\* Message.objects.create of _post_once.
NewRow(sender, kind, body, cid) ==
    [seq |-> NextSeq, rev |-> NextSeq, sender |-> sender, kind |-> kind,
     body |-> body, deleted |-> FALSE, cid |-> cid]

Load(w, state, r) ==
    /\ pc[w] = "idle"
    /\ pc'  = [pc EXCEPT ![w] = state]
    /\ req' = [req EXCEPT ![w] = r]
    /\ UNCHANGED <<lastSeq, rows, left, outbox, pushes, replies>>

\* The worker's transaction has committed; ps are its on_commit callbacks.
Committed(w, ps) ==
    /\ pc'     = [pc EXCEPT ![w] = "push"]
    /\ req'    = [req EXCEPT ![w] = Idle]
    /\ pushes' = [pushes EXCEPT ![w] = ps]

\* The worker is done without having committed anything.
Returned(w) ==
    /\ pc'  = [pc EXCEPT ![w] = "idle"]
    /\ req' = [req EXCEPT ![w] = Idle]

\* One attempt of _post_once: the row, its event and its fan-out.
Insert(w, m, hidden, extra) ==
    LET id == Len(rows) + 1 IN
    /\ NextSeq <= MaxSeq
    /\ lastSeq' = NextSeq
    /\ rows'    = Append(rows, m)
    /\ outbox'  = Append(outbox, [type |-> "message", id |-> id, rev |-> m.rev,
                                  body |-> m.body])
    /\ left'    = hidden
    /\ Committed(w, <<Frame(id, m, Users \ hidden)>> \o extra)

(***************************************************************************)
(* post_message and post_system_message.  The service first looks for a    *)
(* row with the same client_msg_id; the unique constraint on the pair      *)
(* (conversation, client_msg_id) stands behind that look-up, and a         *)
(* collision rolls the transaction back and answers with the twin.         *)
(***************************************************************************)
BeginSend(w, u, cid, text) ==
    /\ WithCid(cid) = {}
    /\ Load(w, "send", [user |-> u, id |-> 0, cid |-> cid, body |-> text])

SendAgain(w, cid) ==
    /\ pc[w] = "idle"
    /\ \E id \in WithCid(cid) : replies' = replies \cup {<<cid, id>>}
    /\ UNCHANGED <<lastSeq, rows, left, outbox, pc, req, pushes>>

CommitSend(w) ==
    LET r    == req[w]
        kind == IF r.user = NoUser THEN "system" ELSE "text"
    IN
    /\ pc[w] = "send"
    /\ WithCid(r.cid) = {}
    /\ Insert(w, NewRow(r.user, kind, r.body, r.cid), Resurfaced(r.user), <<>>)
    /\ replies' = replies \cup {<<r.cid, Len(rows) + 1>>}

SendCollides(w) ==
    /\ pc[w] = "send"
    /\ \E id \in WithCid(req[w].cid) :
          replies' = replies \cup {<<req[w].cid, id>>}
    /\ Returned(w)
    /\ UNCHANGED <<lastSeq, rows, left, outbox, pushes>>

(***************************************************************************)
(* edit_message and delete_message.  Their checks read the instance the    *)
(* view or the consumer loaded before the lock was taken; the transaction  *)
(* reads none of them again.  The frame is built from that same instance,  *)
(* whose deleted_at the check found null.                                  *)
(***************************************************************************)
BeginEdit(w, u, id, text) ==
    /\ id \in DOMAIN rows
    /\ ~rows[id].deleted
    /\ rows[id].kind = "text"
    /\ rows[id].sender = u
    /\ Load(w, "edit", [user |-> u, id |-> id, cid |-> NoCid, body |-> text])

CommitEdit(w) ==
    LET r == req[w]
        m == EditedRow(rows[r.id], r.body)
    IN
    /\ pc[w] = "edit"
    /\ NextSeq <= MaxSeq
    /\ lastSeq' = NextSeq
    /\ rows'    = [rows EXCEPT ![r.id] = m]
    /\ outbox'  = Append(outbox, [type |-> "edited", id |-> r.id, rev |-> m.rev,
                                  body |-> r.body])
    /\ Committed(w, <<Frame(r.id, [m EXCEPT !.deleted = FALSE, !.sender = r.user],
                            Users \ left)>>)
    /\ UNCHANGED <<left, replies>>

BeginDelete(w, u, id) ==
    /\ id \in DOMAIN rows
    /\ rows[id].sender = u
    /\ ~rows[id].deleted
    /\ Load(w, "delete", [user |-> u, id |-> id, cid |-> NoCid, body |-> NoText])

CommitDelete(w) ==
    LET r == req[w]
        m == Tombstone(rows[r.id])
    IN
    /\ pc[w] = "delete"
    /\ NextSeq <= MaxSeq
    /\ lastSeq' = NextSeq
    /\ rows'    = [rows EXCEPT ![r.id] = m]
    /\ outbox'  = Append(outbox, [type |-> "deleted", id |-> r.id, rev |-> m.rev,
                                  body |-> NoText])
    /\ Committed(w, <<Frame(r.id, [m EXCEPT !.sender = r.user], Users \ left)>>)
    /\ UNCHANGED <<left, replies>>

(***************************************************************************)
(* erase_user_messages, on this conversation: the list of conversations is *)
(* read first, the rows are read again under the lock, and one block of    *)
(* positions is reserved for all of them.  It writes no outbox event.      *)
(***************************************************************************)
BeginErase(w, u) ==
    /\ Authored(u) # {}
    /\ Load(w, "erase", [user |-> u, id |-> 0, cid |-> NoCid, body |-> NoText])

Erased(S) ==
    [id \in DOMAIN rows |->
        IF id \in S
        THEN [rows[id] EXCEPT !.body = NoText, !.sender = NoUser,
                              !.deleted = TRUE, !.rev = lastSeq + Rank(S, id)]
        ELSE rows[id]]

CommitErase(w) ==
    LET S     == Authored(req[w].user)
        At(k) == CHOOSE id \in S : Rank(S, id) = k
    IN
    /\ pc[w] = "erase"
    /\ S # {}
    /\ lastSeq + Cardinality(S) <= MaxSeq
    /\ lastSeq' = lastSeq + Cardinality(S)
    /\ rows'    = Erased(S)
    /\ Committed(w, [k \in 1 .. Cardinality(S) |->
                        Frame(At(k), Erased(S)[At(k)], Users)])
    /\ UNCHANGED <<left, outbox, replies>>

\* Nothing was left to erase once the lock was held.
EraseNothing(w) ==
    /\ pc[w] = "erase"
    /\ Authored(req[w].user) = {}
    /\ Returned(w)
    /\ UNCHANGED <<lastSeq, rows, left, outbox, pushes, replies>>

(***************************************************************************)
(* leave_conversation and rejoin_conversation.  Leaving writes left_at     *)
(* first, which locks the participant row until the system line, posted in *)
(* the same transaction, has committed; a second departure of the same     *)
(* participant waits for it.                                               *)
(***************************************************************************)
BeginLeave(w, u) ==
    /\ u \notin left
    /\ \A v \in Workers : ~(pc[v] = "leave" /\ req[v].user = u)
    /\ Load(w, "leave", [user |-> u, id |-> 0, cid |-> NoCid, body |-> NoText])

CommitLeave(w) ==
    LET u == req[w].user IN
    /\ pc[w] = "leave"
    /\ Insert(w, NewRow(NoUser, "system", LeftLine(u), NoCid), left \cup {u},
              <<Revoke(u)>>)
    /\ UNCHANGED replies

Rejoin(u) ==
    /\ u \in left
    /\ left' = left \ {u}
    /\ UNCHANGED <<lastSeq, rows, outbox, pc, req, pushes, replies>>

(***************************************************************************)
(* The on_commit callbacks, and the death of a worker.                     *)
(***************************************************************************)
Deliver(w) ==
    /\ pc[w] = "push"
    /\ pushes[w] # <<>>
    /\ pushes' = [pushes EXCEPT ![w] = Tail(@)]
    /\ UNCHANGED <<lastSeq, rows, left, outbox, pc, req, replies>>

Finish(w) ==
    /\ pc[w] = "push"
    /\ pushes[w] = <<>>
    /\ Returned(w)
    /\ UNCHANGED <<lastSeq, rows, left, outbox, pushes, replies>>

Crash(w) ==
    /\ pc[w] # "idle"
    /\ Returned(w)
    /\ pushes' = [pushes EXCEPT ![w] = <<>>]
    /\ UNCHANGED <<lastSeq, rows, left, outbox, replies>>

(***************************************************************************)
(* The specification.                                                      *)
(***************************************************************************)
Init ==
    /\ lastSeq = 0
    /\ rows    = <<>>
    /\ left    = {}
    /\ outbox  = <<>>
    /\ pc      = [w \in Workers |-> "idle"]
    /\ req     = [w \in Workers |-> Idle]
    /\ pushes  = [w \in Workers |-> <<>>]
    /\ replies = {}

Begin(w) ==
    \/ \E u \in Users \cup {NoUser}, cid \in Cids \cup {NoCid}, text \in Texts :
          BeginSend(w, u, cid, text)
    \/ \E u \in Users, id \in DOMAIN rows, text \in Texts : BeginEdit(w, u, id, text)
    \/ \E u \in Users, id \in DOMAIN rows : BeginDelete(w, u, id)
    \/ \E u \in Users : BeginErase(w, u)
    \/ \E u \in Users : BeginLeave(w, u)

Commit(w) ==
    \/ CommitSend(w)
    \/ CommitEdit(w)
    \/ CommitDelete(w)
    \/ CommitErase(w)
    \/ CommitLeave(w)

Next ==
    \/ \E w \in Workers :
          \/ Begin(w)
          \/ Commit(w)
          \/ \E cid \in Cids : SendAgain(w, cid)
          \/ SendCollides(w)
          \/ EraseNothing(w)
          \/ Deliver(w)
          \/ Finish(w)
          \/ Crash(w)
    \/ \E u \in Users : Rejoin(u)

Spec == Init /\ [][Next]_vars

(***************************************************************************)
(* Properties.                                                             *)
(***************************************************************************)
TypeOK ==
    /\ lastSeq \in 0 .. MaxSeq
    /\ rows \in Seq(Row)
    /\ left \subseteq Users
    /\ outbox \in Seq(Event)
    /\ pc \in [Workers -> Working]
    /\ req \in [Workers -> Request]
    /\ pushes \in [Workers -> Seq(Push)]
    /\ replies \subseteq (Cids \cup {NoCid}) \X Nat

(***************************************************************************)
(* Journal positions.  One counter places a row in the thread (seq) and in *)
(* the journal of revisions (rev_seq): threads are ordered as they were    *)
(* written, no position is beyond the counter, and two rows never stand at *)
(* the same rev_seq, which is what the socket deduplicates frames by.      *)
(***************************************************************************)
JournalPositions ==
    /\ \A i, j \in DOMAIN rows : i < j => rows[i].seq < rows[j].seq
    /\ \A i, j \in DOMAIN rows : i # j => rows[i].rev # rows[j].rev
    /\ \A i \in DOMAIN rows : rows[i].seq <= rows[i].rev /\ rows[i].rev <= lastSeq

(***************************************************************************)
(* Idempotent sends.  However many workers serve retries of one send, the  *)
(* thread holds one message with its client_msg_id and every retry is      *)
(* answered with that message.                                             *)
(***************************************************************************)
SendOnce ==
    /\ \A i, j \in DOMAIN rows :
          rows[i].cid = rows[j].cid /\ rows[i].cid # NoCid => i = j
    /\ \A p, q \in replies : p[1] = q[1] /\ p[1] # NoCid => p[2] = q[2]

(***************************************************************************)
(* The outbox tells the journal.  Events leave in the order of the         *)
(* positions they name, every message has exactly one chat.message event,  *)
(* and the newest revision of every row that was not erased has its event: *)
(* no revision commits without one.                                        *)
(***************************************************************************)
OutboxTellsJournal ==
    /\ \A i, j \in DOMAIN outbox : i < j => outbox[i].rev < outbox[j].rev
    /\ \A id \in DOMAIN rows :
          \E i \in DOMAIN outbox :
             /\ outbox[i].type = "message" /\ outbox[i].id = id
             /\ outbox[i].rev = rows[id].seq
             /\ \A j \in DOMAIN outbox :
                   outbox[j].type = "message" /\ outbox[j].id = id => i = j
    /\ \A id \in DOMAIN rows :
          rows[id].sender # NoUser =>
             \E i \in DOMAIN outbox :
                outbox[i].id = id /\ outbox[i].rev = rows[id].rev

(***************************************************************************)
(* Nobody is talked to in a thread that is hidden from them.  While left_at*)
(* of u is set, the thread holds the line that says u left and nothing     *)
(* anybody wrote after it, whatever sends were in flight around it.        *)
(***************************************************************************)
QuietAfterLeaving ==
    \A u \in left :
       \E id \in DOMAIN rows :
          /\ rows[id].body = LeftLine(u)
          /\ \A j \in DOMAIN rows : j > id => rows[j].kind = "system"

(***************************************************************************)
(* Store first, tell the socket second.  A frame waiting to be pushed is   *)
(* about a committed row, is no newer than it, tells a client to purge only*)
(* what is deleted, and carries the row's own body when the row is live and*)
(* has not moved on.                                                       *)
(***************************************************************************)
FramesFollowRows ==
    \A w \in Workers : \A k \in DOMAIN pushes[w] :
       LET f == pushes[w][k] IN
       f.type = "frame" =>
          /\ f.id \in DOMAIN rows
          /\ f.rev <= rows[f.id].rev
          /\ f.deleted => rows[f.id].deleted
          /\ f.rev = rows[f.id].rev /\ ~rows[f.id].deleted
                => f.body = rows[f.id].body

(***************************************************************************)
(* Every change is replayable.  A step that changes a row in any way moves *)
(* it above every position the counter had reached, so above every cursor  *)
(* a client can hold; and the row keeps its place in the thread.           *)
(***************************************************************************)
PassesEveryCursor ==
    /\ lastSeq <= lastSeq'
    /\ \A id \in DOMAIN rows :
          /\ rows'[id].seq = rows[id].seq
          /\ rows'[id] # rows[id] => rows'[id].rev > lastSeq

ChangesPassEveryCursor == [][PassesEveryCursor]_vars

(***************************************************************************)
(* A tombstone stays one.  No later edit, deletion or erasure, however     *)
(* stale what it read, clears deleted_at or gives an anonymous row a       *)
(* sender.                                                                 *)
(***************************************************************************)
KeepsTombstones ==
    \A id \in DOMAIN rows :
       /\ rows[id].deleted => rows'[id].deleted
       /\ rows[id].sender = NoUser => rows'[id].sender = NoUser

TombstonesStay == [][KeepsTombstones]_vars

\* The conversation implements the journal its sockets resume from.
Journal == INSTANCE RevisionJournal
           WITH head <- lastSeq, pos <- [id \in DOMAIN rows |-> rows[id].rev]

(***************************************************************************)
(* Every step of every worker is a step of the abstract journal or leaves  *)
(* it alone.                                                               *)
(***************************************************************************)
ImplementsJournal == Journal!JSpec

(***************************************************************************)
(* What the code's own documentation says and the code does not do.        *)
(***************************************************************************)
(***************************************************************************)
(* Class docstring of Message: deleted_at is stamped and body is emptied.  *)
(***************************************************************************)
TombstonesAreEmpty ==
    \A id \in DOMAIN rows : rows[id].deleted => rows[id].body = NoText
=============================================================================
