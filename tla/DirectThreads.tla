----------------------------- MODULE DirectThreads -----------------------------
(***************************************************************************)
(* How threads come to be, and the block store that stands at both doors:  *)
(* create_direct, create_group, create_support and the sends into what they*)
(* open, by request workers that interleave and may die.                   *)
(*                                                                         *)
(* A request reads and asks without a lock; only its one transaction is a  *)
(* single step.  The block store belongs to another service: people block  *)
(* and unblock each other at any moment, and a question to it may fail.    *)
(***************************************************************************)
EXTENDS Integers, Sequences, FiniteSets

CONSTANTS
    Users, Scopes,
    Workers,        \* request workers, each of one request
    Kinds,          \* CHAT_KINDS: the kinds this deployment opens
    Registered,     \* registered subjects
    Unregistered,   \* subjects that are refused: half of one, or of an unknown type
    Cids,           \* client_msg_id values; NoCid is a send without one
    NoUser, NoCid, NoSubject, NoKey,
    Deployments,    \* the settings under which the package may run
    Offers,         \* the openings that are asked for: [user, kind, ids, scope, subject]
    Prior,          \* the threads one of which may have been opened before
    MayFail,        \* whether questions to the block store may fail
    MaxThreads,     \* bound: threads that are ever opened
    MaxMessages,    \* bound: messages that are ever stored
    MaxRemoved      \* bound: threads that are ever removed

Subjects == Registered \cup {NoSubject}

ASSUME UsersAssumption == IsFiniteSet(Users)
ASSUME SentinelsAssumption ==
    /\ NoUser \notin Users /\ NoSubject \notin Registered
    /\ NoKey \notin Scopes \X (SUBSET Users) \X (Subjects \cup Unregistered)
ASSUME DeploymentsAssumption ==
    Deployments \subseteq [mode : {"auto", "required", "off"}, reachable : BOOLEAN]
ASSUME OffersAssumption ==
    \A o \in Offers :
       /\ o.user \in Users /\ o.ids \subseteq Users /\ o.scope \in Scopes
       /\ o.subject \in Subjects \cup Unregistered
\* What is in the database keeps the database's own constraint on direct_key.
ASSUME PriorAssumption ==
    /\ Prior \subseteq [kind : Kinds, scope : Scopes, subject : Subjects,
                        members : (SUBSET Users) \ {{}},
                        key : (Scopes \X (SUBSET Users) \X Subjects) \cup {NoKey}]
    /\ \A t \in Prior :
          t.kind = "direct" => Cardinality(t.members) = 2 /\ t.key = <<t.scope, t.members, t.subject>>
ASSUME BoundsAssumption ==
    MaxThreads \in Nat \ {0} /\ {MaxMessages, MaxRemoved} \subseteq Nat

VARIABLES
    threads,    \* every thread ever committed, in order
    live,       \* those that have not been removed since
    outbox,     \* chat.conversation.created events
    messages,   \* every message ever committed
    blocks,     \* the block store: <<a, b>> when a blocks b
    deployment, \* [mode, reachable]: BLOCK_ENFORCEMENT and BLOCK_FUNCTION
    pc, req,    \* the workers
    saw         \* history: what was so at some moment of each request

db   == <<threads, live, outbox, messages>>
vars == <<threads, live, outbox, messages, blocks, deployment, pc, req, saw>>

Direct(t) == t.kind = "direct"

(***************************************************************************)
(* Mistakes the properties at the end must notice.                         *)
(***************************************************************************)
\* The pair is hashed in the order it was named.
KeyInOrder(scope, u, v, subject) == <<scope, {<<1, u>>, <<2, v>>}, subject>>
\* The look-up of an existing thread is missing, or its unique constraint.
Unconstrained(key) == {}
\* The thread of the pair, whatever it is about.
PairThreads(key) == {i \in live : Direct(threads[i]) /\ threads[i].members = key[2]}
\* An outage reads as consent.
OutageIsConsent(u, v) ==
    IF deployment.mode # "off" /\ deployment.reachable /\ {<<u, v>>, <<v, u>>} \cap blocks # {}
    THEN {"refused", "open"} ELSE {"open"}

(***************************************************************************)
(* The rows.                                                               *)
(***************************************************************************)
\* sorted pair, scope and subject; NoSubject adds no segment.
DirectKey(scope, u, v, subject) == <<scope, {u, v}, subject>>

\* The live threads under a key: .filter(kind=DIRECT, direct_key=key).
Standing(key) == {i \in live : Direct(threads[i]) /\ threads[i].key = key}

\* What create_direct's first look-up finds, and what its second does.
Existing(key) == Standing(key)
Winner(key)   == Standing(key)

\* The rows on which an insertion of the key would fail.
Conflicts(key) == Standing(key)

Twins(t, cid) == {i \in DOMAIN messages :
                     cid # NoCid /\ messages[i].thread = t /\ messages[i].cid = cid}

(***************************************************************************)
(* The block store.                                                        *)
(***************************************************************************)
Blocked(u, v) == {<<u, v>>, <<v, u>>} \cap blocks # {}

\* Whether a question is put to the store, or must be refused for want of one.
Enforced ==
    /\ deployment.mode # "off"
    /\ deployment.reachable \/ deployment.mode = "required"

\* What blocked_pairs may answer about one pair.
Verdicts(u, v) ==
    IF ~Enforced THEN {"open"}
    ELSE IF ~deployment.reachable THEN {"unavailable"}
    ELSE {IF Blocked(u, v) THEN "refused" ELSE "open"}
            \cup (IF MayFail THEN {"unavailable"} ELSE {})

(***************************************************************************)
(* A worker and its request.                                               *)
(***************************************************************************)
Free(w) == pc[w] \in {"idle", "done"}

Idle == [op |-> "none", kind |-> "none", user |-> NoUser, others |-> {}, scope |-> NoKey,
         subject |-> NoSubject, key |-> NoKey, thread |-> 0, cid |-> NoCid, status |-> "none"]

Goto(w, place, r) ==
    /\ pc' = [pc EXCEPT ![w] = place]
    /\ req' = [req EXCEPT ![w] = r]

Answer(w, r, status) == Goto(w, "done", [r EXCEPT !.status = status])

\* The two people the request is between, if a block can stand there.
Pair(r) == IF r.kind = "direct" /\ r.user # NoUser /\ Cardinality(r.others) = 1
           THEN {r.user} \cup r.others ELSE {}

(***************************************************************************)
(* Opening: ConversationListCreateView.post and the service it calls.      *)
(***************************************************************************)
Invalid(r) ==
    \/ r.kind \notin Kinds
    \/ r.kind = "direct" /\ Cardinality(r.others) # 1
    \/ r.kind # "support" /\ r.subject \in Unregistered

\* A direct thread names one other person; support nobody, and no subject.
OpenRequest(o) ==
    LET others == IF o.kind = "support" THEN {} ELSE o.ids \ {o.user} IN
    [Idle EXCEPT !.op = "open", !.kind = o.kind, !.user = o.user, !.scope = o.scope,
                 !.others  = others,
                 !.subject = IF o.kind = "support" THEN NoSubject ELSE o.subject,
                 !.key     = IF o.kind = "direct" /\ Cardinality(others) = 1
                             THEN DirectKey(o.scope, o.user, CHOOSE v \in others : TRUE, o.subject)
                             ELSE NoKey]

BeginOpen(w, r) ==
    /\ pc[w] = "idle"
    /\ \/ Invalid(r) /\ Answer(w, Idle, "invalid")
       \/ /\ ~Invalid(r) /\ r.kind = "direct"
          /\ \E i \in Existing(r.key) : Goto(w, "answer", [r EXCEPT !.thread = i])
       \/ /\ ~Invalid(r) /\ r.kind = "direct" /\ Existing(r.key) = {}
          /\ Goto(w, "ask", r)
       \/ ~Invalid(r) /\ r.kind # "direct" /\ Goto(w, "create", r)
    /\ UNCHANGED <<db, blocks, deployment>>

NewThread(r) ==
    [kind |-> r.kind, key |-> r.key, scope |-> r.scope, subject |-> r.subject,
     members |-> {r.user} \cup r.others]

\* _emit_created: the thread as its rows have it.
Event(id, r) ==
    LET t == NewThread(r)
    IN [thread |-> id, kind |-> t.kind, subject |-> t.subject,
        creator |-> r.user, members |-> t.members]

\* The transaction: the row, its participants and the event, or a conflict.
Create(w) ==
    LET r == req[w] IN LET id == Len(threads) + 1 IN
    /\ pc[w] = "create"
    /\ IF r.kind = "direct" /\ Conflicts(r.key) # {}
       THEN Goto(w, "lost", r) /\ UNCHANGED db
       ELSE /\ id <= MaxThreads
            /\ threads' = Append(threads, NewThread(r))
            /\ live' = live \cup {id}
            /\ outbox' = Append(outbox, Event(id, r))
            /\ Goto(w, "answer", [r EXCEPT !.thread = id])
            /\ UNCHANGED messages
    /\ UNCHANGED <<blocks, deployment>>

\* except IntegrityError: the winner's row, or the error itself.
Lose(w) ==
    LET r == req[w] IN
    /\ pc[w] = "lost"
    /\ \/ \E i \in Winner(r.key) : Goto(w, "answer", [r EXCEPT !.thread = i])
       \/ Winner(r.key) = {} /\ Answer(w, r, "error")
    /\ UNCHANGED <<db, blocks, deployment>>

\* The view reads the thread once more to render it.
Reread(w) ==
    /\ pc[w] = "answer"
    /\ Answer(w, req[w], IF req[w].thread \in live THEN "ok" ELSE "error")
    /\ UNCHANGED <<db, blocks, deployment>>

(***************************************************************************)
(* Sending: MessageListCreateView.post, post_message, and the system lines *)
(* of post_system_message, which have no sender.                           *)
(***************************************************************************)
SendRequest(u, t, cid) ==
    [Idle EXCEPT !.op = "send", !.kind = threads[t].kind, !.user = u, !.thread = t,
                 !.others = threads[t].members \ {u}, !.cid = cid]

BeginSend(w, r) ==
    /\ pc[w] = "idle"
    /\ \/ r.thread \notin live /\ Answer(w, Idle, "not found")
       \/ /\ r.thread \in live
          /\ r.user \notin threads[r.thread].members \cup {NoUser}
          /\ Answer(w, Idle, "not participant")
       \/ /\ r.thread \in live
          /\ r.user \in threads[r.thread].members \cup {NoUser}
          /\ Goto(w, IF Pair(r) = {} THEN "look up" ELSE "ask", r)
    /\ UNCHANGED <<db, blocks, deployment>>

LookUp(w) ==
    LET r == req[w] IN
    /\ pc[w] = "look up"
    /\ \/ Twins(r.thread, r.cid) # {} /\ Answer(w, r, "ok")
       \/ Twins(r.thread, r.cid) = {} /\ Goto(w, "commit", r)
    /\ UNCHANGED <<db, blocks, deployment>>

\* _post_once: the message, the twin's constraint, or a thread that is gone.
Commit(w) ==
    LET r == req[w] IN
    /\ pc[w] = "commit"
    /\ \/ r.thread \notin live /\ Answer(w, r, "error") /\ UNCHANGED messages
       \/ /\ r.thread \in live /\ Twins(r.thread, r.cid) # {}
          /\ Goto(w, "look up", r) /\ UNCHANGED messages
       \/ /\ r.thread \in live /\ Twins(r.thread, r.cid) = {}
          /\ Len(messages) < MaxMessages
          /\ messages' = Append(messages, [thread |-> r.thread, user |-> r.user, cid |-> r.cid])
          /\ Answer(w, r, "ok")
    /\ UNCHANGED <<threads, live, outbox, blocks, deployment>>

(***************************************************************************)
(* Both doors: _refuse_if_pair_blocked and _refuse_if_blocked.             *)
(***************************************************************************)
Ask(w) ==
    LET r == req[w] IN
    /\ pc[w] = "ask"
    /\ \E u \in {r.user}, v \in r.others : \E verdict \in Verdicts(u, v) :
          IF verdict = "open"
          THEN Goto(w, IF r.op = "open" THEN "create" ELSE "look up", r)
          ELSE Answer(w, r, verdict)
    /\ UNCHANGED <<db, blocks, deployment>>

\* A worker dies; a transaction that has not committed leaves nothing.
Crash(w) ==
    /\ ~Free(w)
    /\ Goto(w, "done", Idle)
    /\ UNCHANGED <<db, blocks, deployment>>

(***************************************************************************)
(* Everybody else.                                                         *)
(***************************************************************************)
Block(u, v)   == blocks' = blocks \cup {<<u, v>>} /\ UNCHANGED <<db, deployment, pc, req>>
Unblock(u, v) == blocks' = blocks \ {<<u, v>>}    /\ UNCHANGED <<db, deployment, pc, req>>

\* _delete_conversation_row, when an account goes.
Remove(i) ==
    /\ i \in live
    /\ Cardinality(DOMAIN threads \ live) < MaxRemoved
    /\ live' = live \ {i}
    /\ UNCHANGED <<threads, outbox, messages, blocks, deployment, pc, req>>

\* What is so of a request at this moment.
Seen(w) ==
    LET r == req[w] IN
    (IF Pair(r) = {} THEN {} ELSE
        {IF \E u, v \in Pair(r) : <<u, v>> \in blocks THEN "blocked" ELSE "free"})
    \cup (IF r.key = NoKey THEN {} ELSE {IF Standing(r.key) = {} THEN "absent" ELSE "present"})

\* The history of a request begins with it and ends with its answer.
Observe ==
    saw' = [w \in Workers |->
               IF req'[w] = Idle THEN {}
               ELSE IF pc[w] = "done" THEN saw[w]
               ELSE saw[w] \cup Seen(w)']

(***************************************************************************)
(* The specification.  A thread may have been opened before.               *)
(***************************************************************************)
Init ==
    /\ \/ threads = <<>> /\ live = {} /\ outbox = <<>>
       \/ \E t \in Prior :
             /\ threads = <<t>> /\ live = {1}
             /\ outbox = <<[thread |-> 1, kind |-> t.kind, subject |-> t.subject,
                            creator |-> CHOOSE u \in t.members : TRUE, members |-> t.members]>>
    /\ messages = <<>>
    /\ blocks \in SUBSET {p \in Users \X Users : p[1] # p[2]}
    /\ deployment \in Deployments
    /\ pc = [w \in Workers |-> "idle"]
    /\ req = [w \in Workers |-> Idle]
    /\ saw = [w \in Workers |-> {}]

ServiceStep(w) ==
    \/ \E o \in Offers : BeginOpen(w, OpenRequest(o))
    \/ \E u \in Users \cup {NoUser}, t \in DOMAIN threads, cid \in Cids :
             BeginSend(w, SendRequest(u, t, cid))
    \/ Ask(w) \/ Create(w) \/ Lose(w) \/ Reread(w) \/ LookUp(w) \/ Commit(w) \/ Crash(w)

Next ==
    /\ \/ \E w \in Workers : ServiceStep(w)
       \/ \E u, v \in Users : u # v /\ (Block(u, v) \/ Unblock(u, v))
       \/ \E i \in DOMAIN threads : Remove(i)
    /\ Observe

Spec == Init /\ [][Next]_vars

(***************************************************************************)
(* Properties.                                                             *)
(***************************************************************************)
(***************************************************************************)
(* A pair has one thread about one thing.  However many requests race, in  *)
(* whichever order they name the two, no two live direct threads of a scope*)
(* have the same people and the same subject; and the outbox tells of each *)
(* thread that was ever committed once, with its members, and of nothing   *)
(* for a request that found a thread or lost the race.                     *)
(***************************************************************************)
OneThreadPerPair ==
    /\ \A i, j \in live :
          /\ Direct(threads[i]) /\ Direct(threads[j])
          /\ threads[i].members = threads[j].members
          /\ threads[i].scope = threads[j].scope /\ threads[i].subject = threads[j].subject
          => i = j
    /\ Len(outbox) = Len(threads)
    /\ \A i \in DOMAIN outbox :
          outbox[i].thread = i /\ outbox[i].members = threads[i].members

(***************************************************************************)
(* Nothing slips through.  Where blocks are enforced, a direct thread is   *)
(* opened and a message of a person is stored in one only if the two were  *)
(* free of blocks, in both directions, at some moment of that very request;*)
(* an outage never opens a door.                                           *)
(***************************************************************************)
Writes(w) ==
    /\ req[w].kind = "direct" /\ req[w].user # NoUser
    /\ \/ pc[w] = "create" /\ threads' # threads
       \/ pc[w] = "commit" /\ messages' # messages
    /\ pc'[w] # pc[w]

NothingSlipsThrough ==
    [][\A w \in Workers : Enforced /\ Writes(w) => "free" \in saw[w]]_vars

(***************************************************************************)
(* A refusal is never a mistake.  Who is answered 403 was blocked at some  *)
(* moment of the request; an outage is answered 503, and only where the    *)
(* store is asked at all, which groups, support and system lines never do; *)
(* and no block and no outage takes history away: an opening is turned     *)
(* down only if at some moment of it there was no thread to return.        *)
(***************************************************************************)
RefusalsAreJust ==
    \A w \in Workers :
       /\ req[w].status = "refused" => "blocked" \in saw[w]
       /\ req[w].status \in {"refused", "unavailable"} =>
             /\ Enforced /\ Pair(req[w]) # {}
             /\ req[w].op = "open" => "absent" \in saw[w]

(***************************************************************************)
(* Whoever is answered holds the thread.  Opening is the get-or-create of  *)
(* ThreadDirectory: a thread stands under each key at most, and everyone   *)
(* who is given one is given the one that stands.                          *)
(***************************************************************************)
Keys == {DirectKey(t[1], t[2], t[3], t[4]) :
            t \in {t \in Scopes \X Users \X Users \X Subjects : t[2] # t[3]}}

Stands(k) == IF Standing(k) = {} THEN 0 ELSE CHOOSE i \in Standing(k) : TRUE

Told(w) == LET r == req[w] IN
    IF r.key # NoKey /\ r.thread # 0 /\ r.status \in {"none", "ok"} THEN <<r.key, r.thread>> ELSE <<>>

Directory == INSTANCE ThreadDirectory
             WITH Ids <- 1 .. MaxThreads, Clients <- Workers, Nothing <- 0,
                  at   <- [k \in Keys |-> Stands(k)],
                  used <- {i \in DOMAIN threads : Direct(threads[i])},
                  told <- [w \in Workers |-> Told(w)]

ImplementsDirectory == Directory!DSpec
================================================================================
