-------------------------- MODULE DirectThreadsProofs --------------------------
(***************************************************************************)
(* Proofs about DirectThreads, for any people, workers, subjects, settings *)
(* of the block store, and bounds.                                         *)
(*                                                                         *)
(* The inductive invariant has three parts.  TypeInv types the database    *)
(* and the workers.  DirectoryInv says of the rows what the unique         *)
(* constraint on direct_key gives: a key is made of what the row holds, and*)
(* no two live rows have one.  RequestsOK says what each request has seen  *)
(* by the time it stands where it stands; it speaks of the history alone,  *)
(* so that nobody else's step can disturb it.                              *)
(***************************************************************************)
EXTENDS DirectThreads, TLAPS, FiniteSetTheorems, SequenceTheorems

PairKeys == Scopes \X (SUBSET Users) \X Subjects

ThreadRow == [kind : Kinds, scope : Scopes, subject : Subjects, members : SUBSET Users,
              key : PairKeys \cup {NoKey}]

Created == [thread : Nat, kind : Kinds, subject : Subjects, creator : Users,
            members : SUBSET Users]

Places == {"idle", "ask", "create", "lost", "answer", "look up", "commit", "done"}
Codes  == {"none", "ok", "error", "invalid", "not found", "not participant", "refused",
           "unavailable"}

Request == [op : {"none", "open", "send"}, kind : Kinds \cup {"none"},
            user : Users \cup {NoUser}, others : SUBSET Users, scope : Scopes \cup {NoKey},
            subject : Subjects, key : PairKeys \cup {NoKey}, thread : Nat,
            cid : Cids \cup {NoCid}, status : Codes]

TypeInv ==
    /\ threads \in Seq(ThreadRow) /\ Len(threads) <= MaxThreads
    /\ live \subseteq DOMAIN threads
    /\ outbox \in Seq(Created)
    /\ \A u \in Users : <<u, u>> \notin blocks
    /\ pc \in [Workers -> Places]
    /\ req \in [Workers -> Request]

\* What the columns of a row and their unique constraint say.
DirectoryInv ==
    /\ \A i \in DOMAIN threads :
          Direct(threads[i]) =>
             /\ Cardinality(threads[i].members) = 2
             /\ threads[i].key = <<threads[i].scope, threads[i].members, threads[i].subject>>
    /\ \A i, j \in live :
          Direct(threads[i]) /\ Direct(threads[j]) /\ threads[i].key = threads[j].key => i = j

OutboxInv ==
    /\ Len(outbox) = Len(threads)
    /\ \A i \in DOMAIN outbox :
          outbox[i].thread = i /\ outbox[i].members = threads[i].members

\* The request r is between its user and one other person.
Between(r, v) == r.user \in Users /\ v \in Users \ {r.user} /\ r.others = {v}

\* An opening that is still to be answered.
Opening(r) ==
    /\ r.op = "open" /\ r.user \in Users /\ r.scope \in Scopes /\ r.kind \in Kinds
    /\ r.kind = "direct" => \E v \in Users :
          Between(r, v) /\ r.key = DirectKey(r.scope, r.user, v, r.subject)
    /\ r.kind # "direct" => r.key = NoKey

\* What request r of a worker at place p has seen by now.
RequestOK(p, r, seen) ==
    /\ p # "done" => r.status = "none"
    /\ p = "idle" => r = Idle
    /\ p \in {"create", "lost", "answer"} => Opening(r)
    /\ p \in {"create", "lost"} => r.thread = 0
    /\ p = "lost" => r.kind = "direct"
    /\ p \in {"look up", "commit"} => r.op = "send"
    /\ p = "ask" =>
          /\ r.kind = "direct" /\ \E v \in Users : Between(r, v)
          /\ r.op \in {"open", "send"}
          /\ r.op = "open" => Opening(r) /\ r.thread = 0 /\ "absent" \in seen
    /\ r.op # "open" => r.key = NoKey
    /\ Enforced /\ r.kind = "direct" /\ r.user # NoUser /\ p \in {"create", "look up", "commit"}
          => "free" \in seen
    /\ r.status = "refused" => "blocked" \in seen
    /\ r.status \in {"refused", "unavailable"} =>
          /\ Enforced /\ Pair(r) # {}
          /\ r.op = "open" => "absent" \in seen

RequestsOK == \A w \in Workers : RequestOK(pc[w], req[w], saw[w])

IInv == TypeInv /\ DirectoryInv /\ OutboxInv /\ RequestsOK

(***************************************************************************)
(* Pairs of people.                                                        *)
(***************************************************************************)
\* Two people are two.
LEMMA TwoPeople ==
    ASSUME NEW u, NEW v, u # v
    PROVE  Cardinality({u, v}) = 2
<1>1. IsFiniteSet({u}) /\ Cardinality({u}) = 1
  BY FS_Singleton
<1>2. Cardinality({u} \cup {v}) = Cardinality({u}) + 1
  BY <1>1, FS_AddElement
<1> QED
  BY <1>1, <1>2

\* Who is alone in a set of people.
LEMMA OnePerson ==
    ASSUME NEW S \in SUBSET Users, Cardinality(S) = 1
    PROVE  \E v \in Users : S = {v}
<1>1. IsFiniteSet(S)
  BY UsersAssumption, FS_Subset
<1> QED
  BY <1>1, FS_Singleton

\* A set of one has one member.
LEMMA OneIsOne == \A v : Cardinality({v}) = 1
  BY FS_Singleton

\* Of the two people of a thread, the other one.
LEMMA OtherPerson ==
    ASSUME NEW S \in SUBSET Users, Cardinality(S) = 2, NEW u \in S
    PROVE  \E v \in Users \ {u} : S \ {u} = {v} /\ S = {u, v}
<1>1. IsFiniteSet(S)
  BY UsersAssumption, FS_Subset
<1>2. Cardinality(S \ {u}) = 1
  BY <1>1, FS_RemoveElement
<1>3. PICK v \in Users : S \ {u} = {v}
  BY <1>2, OnePerson
<1>4. v # u /\ S = {u, v}
  BY <1>3
<1> QED
  BY <1>3, <1>4

\* A request between two people is one a block can stand in.
LEMMA PairOfRequest ==
    ASSUME NEW r \in Request
    PROVE  /\ \A v \in Users : r.kind = "direct" /\ Between(r, v) =>
                 Pair(r) = {r.user, v} /\ Pair(r) # {}
           /\ Pair(r) # {} => r.kind = "direct" /\ \E v \in Users : r.user \in Users /\ r.others = {v}
<1>1. r.user \in Users => r.user # NoUser
  BY SentinelsAssumption
<1>2. r.others \in SUBSET Users /\ r.user \in Users \cup {NoUser}
  BY DEF Request
<1>3. ASSUME NEW v \in Users, r.kind = "direct", Between(r, v)
      PROVE  Pair(r) = {r.user, v} /\ Pair(r) # {}
  BY <1>1, <1>3, OneIsOne DEF Pair, Between
<1>4. ASSUME Pair(r) # {}
      PROVE  r.kind = "direct" /\ \E v \in Users : r.user \in Users /\ r.others = {v}
  <2>1. r.kind = "direct" /\ r.user # NoUser /\ Cardinality(r.others) = 1
    BY <1>4 DEF Pair
  <2> QED
    BY <1>2, <2>1, OnePerson
<1> QED
  BY <1>3, <1>4

(***************************************************************************)
(* The history of a request.                                               *)
(***************************************************************************)
\* A worker that goes on forgets nothing it has seen.
LEMMA ObserveKeeps ==
    ASSUME NEW w \in Workers, Observe, req'[w] # Idle
    PROVE  saw[w] \subseteq saw'[w]
  BY DEF Observe

\* A request sees what is so when its step leaves the database alone.
LEMMA ObserveSees ==
    ASSUME TypeInv, NEW w \in Workers, NEW place, NEW r, Goto(w, place, r), Observe,
           UNCHANGED <<threads, live, blocks>>, pc[w] # "done", r # Idle
    PROVE  /\ Pair(r) # {} /\ (\E u, v \in Pair(r) : <<u, v>> \in blocks) => "blocked" \in saw'[w]
           /\ Pair(r) # {} /\ ~(\E u, v \in Pair(r) : <<u, v>> \in blocks) => "free" \in saw'[w]
           /\ r.key # NoKey /\ Standing(r.key) = {} => "absent" \in saw'[w]
<1>1. req'[w] = r
  BY DEF Goto, TypeInv
<1>2. saw'[w] = saw[w] \cup Seen(w)'
  BY <1>1 DEF Observe
<1>3. Standing(r.key) = {} /\ r.key # NoKey => "absent" \in Seen(w)'
  BY <1>1 DEF Seen, Standing, Direct
<1>4. Pair(r) # {} => (IF \E u, v \in Pair(r) : <<u, v>> \in blocks THEN "blocked" ELSE "free")
                         \in Seen(w)'
  BY <1>1 DEF Seen, Pair
<1> QED
  BY <1>2, <1>3, <1>4

\* Nobody else's step disturbs a request.
LEMMA OthersRest ==
    ASSUME NEW v \in Workers, RequestOK(pc[v], req[v], saw[v]), Observe,
           deployment' = deployment, pc'[v] = pc[v], req'[v] = req[v]
    PROVE  RequestOK(pc[v], req[v], saw[v])'
<1>1. CASE req[v] # Idle
  <2>1. saw[v] \subseteq saw'[v]
    BY <1>1, ObserveKeeps
  <2>2. Pair(req[v])' = Pair(req[v]) /\ Enforced' = Enforced
    BY DEF Pair, Enforced
  <2> QED
    BY <2>1, <2>2 DEF RequestOK, Opening, Between, DirectKey
<1>2. CASE req[v] = Idle
  <2>1. req[v].op = "none" /\ req[v].status = "none" /\ req[v].key = NoKey
    BY <1>2 DEF Idle
  <2>2. pc[v] \in {"idle", "done"} \/ pc[v] \notin {"ask", "create", "lost", "answer", "look up", "commit"}
    BY <2>1 DEF RequestOK, Opening
  <2> QED
    BY <1>2, <2>1, <2>2 DEF RequestOK
<1> QED
  BY <1>1, <1>2

\* A step of one worker preserves what all requests have seen if it does so
\* for its own.
LEMMA OwnStep ==
    ASSUME TypeInv, RequestsOK, NEW w \in Workers, NEW place, NEW r, Goto(w, place, r),
           Observe, deployment' = deployment, RequestOK(place, r, saw'[w])
    PROVE  RequestsOK'
<1>1. pc'[w] = place /\ req'[w] = r
  BY DEF Goto, TypeInv
<1>2. RequestOK(pc[w], req[w], saw[w])'
  BY <1>1 DEF RequestOK, Opening, Between, Enforced, Pair, DirectKey
<1>3. ASSUME NEW v \in Workers, v # w
      PROVE  RequestOK(pc[v], req[v], saw[v])'
  <2>1. pc'[v] = pc[v] /\ req'[v] = req[v]
    BY <1>3 DEF Goto, TypeInv
  <2> QED
    BY <2>1, OthersRest DEF RequestsOK
<1> QED
  BY <1>2, <1>3 DEF RequestsOK

(***************************************************************************)
(* Type correctness.                                                       *)
(***************************************************************************)
LEMMA IdleType == Idle \in Request /\ Idle.op = "none" /\ Idle.key = NoKey /\ Idle.thread = 0 /\ Idle.status = "none"
  BY DEF Idle, Request, Subjects, Codes

\* A request but for its thread and its answer.
Same(a, r) ==
    /\ a.op = r.op /\ a.kind = r.kind /\ a.user = r.user /\ a.others = r.others
    /\ a.scope = r.scope /\ a.subject = r.subject /\ a.key = r.key

\* A request with its answer is otherwise as it was.
LEMMA AnswerType ==
    ASSUME NEW r \in Request, NEW status \in Codes
    PROVE  /\ [r EXCEPT !.status = status] \in Request
           /\ [r EXCEPT !.status = status].status = status
           /\ [r EXCEPT !.status = status].thread = r.thread
           /\ Same([r EXCEPT !.status = status], r)
  BY DEF Request, Same

\* A request with the thread it was given is otherwise as it was.
LEMMA GivenType ==
    ASSUME NEW r \in Request, NEW i \in Nat
    PROVE  /\ [r EXCEPT !.thread = i] \in Request
           /\ [r EXCEPT !.thread = i].status = r.status
           /\ [r EXCEPT !.thread = i].thread = i
           /\ Same([r EXCEPT !.thread = i], r)
  BY DEF Request, Same

\* A valid opening is about registered things, and a direct one has its key.
LEMMA OpenType ==
    ASSUME NEW o \in Offers, ~Invalid(OpenRequest(o))
    PROVE  /\ OpenRequest(o) \in Request
           /\ Opening(OpenRequest(o))
           /\ OpenRequest(o).status = "none" /\ OpenRequest(o).thread = 0
           /\ OpenRequest(o) # Idle
<1> DEFINE others == IF o.kind = "support" THEN {} ELSE o.ids \ {o.user}
           subject == IF o.kind = "support" THEN NoSubject ELSE o.subject
           key == IF o.kind = "direct" /\ Cardinality(others) = 1
                  THEN DirectKey(o.scope, o.user, CHOOSE v \in others : TRUE, o.subject)
                  ELSE NoKey
           r == OpenRequest(o)
<1>1. /\ r.op = "open" /\ r.kind = o.kind /\ r.user = o.user /\ r.scope = o.scope
      /\ r.others = others /\ r.subject = subject /\ r.key = key
      /\ r.cid = NoCid /\ r.status = "none" /\ r.thread = 0
  BY DEF OpenRequest, Idle
<1>2. /\ o.user \in Users /\ o.ids \subseteq Users /\ o.scope \in Scopes
      /\ o.subject \in Subjects \cup Unregistered
  BY OffersAssumption
<1>3. o.kind \in Kinds /\ (o.kind = "direct" => Cardinality(others) = 1)
      /\ (o.kind # "support" => o.subject \in Subjects)
  BY <1>1, <1>2 DEF Invalid
<1>4. subject \in Subjects /\ others \in SUBSET Users
  BY <1>2, <1>3 DEF Subjects
<1>5. ASSUME o.kind = "direct"
      PROVE  \E v \in Users : others = {v} /\ v # o.user
                              /\ key = DirectKey(o.scope, o.user, v, o.subject)
  <2>1. PICK v \in Users : others = {v}
    BY <1>3, <1>4, <1>5, OnePerson
  <2>2. v # o.user
    BY <1>5, <2>1
  <2>3. (CHOOSE x \in others : TRUE) = v
    BY <2>1
  <2> QED
    BY <1>3, <1>5, <2>1, <2>2, <2>3
<1>6. key \in PairKeys \cup {NoKey}
  BY <1>2, <1>3, <1>5 DEF PairKeys, DirectKey
<1>7. o.kind # "direct" => key = NoKey
  OBVIOUS
<1>8. o.kind = "direct" => subject = o.subject
  OBVIOUS
<1> HIDE DEF others, subject, key
<1>9. r = [Idle EXCEPT !.op = "open", !.kind = o.kind, !.user = o.user, !.scope = o.scope,
                       !.others = others, !.subject = subject, !.key = key]
  BY DEF OpenRequest, others, subject, key
<1>10. r \in Request
  BY <1>2, <1>3, <1>4, <1>6, <1>9, IdleType DEF Request
<1>11. Opening(r)
  BY <1>1, <1>2, <1>3, <1>5, <1>7, <1>8 DEF Opening, Between
<1> QED
  BY <1>1, <1>10, <1>11 DEF Idle

\* A send of somebody who is in the thread, or of nobody.
LEMMA SendType ==
    ASSUME TypeInv, NEW u \in Users \cup {NoUser}, NEW t \in DOMAIN threads, NEW cid \in Cids
    PROVE  /\ SendRequest(u, t, cid) \in Request
           /\ SendRequest(u, t, cid).op = "send" /\ SendRequest(u, t, cid).status = "none"
           /\ SendRequest(u, t, cid).key = NoKey /\ SendRequest(u, t, cid).user = u
           /\ SendRequest(u, t, cid).thread = t
           /\ SendRequest(u, t, cid).kind = threads[t].kind
           /\ SendRequest(u, t, cid).others = threads[t].members \ {u}
           /\ SendRequest(u, t, cid) # Idle
<1>1. threads[t] \in ThreadRow /\ t \in Nat
  BY ElementOfSeq, LenProperties DEF TypeInv
<1>2. threads[t].kind \in Kinds /\ threads[t].members \ {u} \in SUBSET Users
  BY <1>1 DEF ThreadRow
<1>3. SendRequest(u, t, cid) \in Request
  BY <1>1, <1>2, IdleType DEF SendRequest, Request
<1>4. /\ SendRequest(u, t, cid).op = "send" /\ SendRequest(u, t, cid).thread = t
      /\ SendRequest(u, t, cid).kind = threads[t].kind /\ SendRequest(u, t, cid).user = u
      /\ SendRequest(u, t, cid).others = threads[t].members \ {u}
      /\ SendRequest(u, t, cid).status = Idle.status /\ SendRequest(u, t, cid).key = Idle.key
  BY IdleType DEF SendRequest, Request
<1> QED
  BY <1>3, <1>4, IdleType DEF Idle

\* What a transaction of a new thread inserts.
LEMMA CreateType ==
    ASSUME NEW r \in Request, Opening(r), NEW id \in Nat
    PROVE  /\ NewThread(r) \in ThreadRow /\ Event(id, r) \in Created
           /\ Event(id, r).thread = id /\ Event(id, r).members = NewThread(r).members
           /\ Direct(NewThread(r)) =>
                 /\ Cardinality(NewThread(r).members) = 2
                 /\ NewThread(r).key =
                      <<NewThread(r).scope, NewThread(r).members, NewThread(r).subject>>
<1>1. /\ r.kind \in Kinds /\ r.scope \in Scopes /\ r.subject \in Subjects
      /\ r.key \in PairKeys \cup {NoKey} /\ r.user \in Users /\ {r.user} \cup r.others \in SUBSET Users
  BY DEF Request, Opening
<1>2. NewThread(r) \in ThreadRow /\ NewThread(r).members = {r.user} \cup r.others
  BY <1>1 DEF NewThread, ThreadRow
<1>3. Event(id, r) = [thread |-> id, kind |-> r.kind, subject |-> r.subject,
                      creator |-> r.user, members |-> {r.user} \cup r.others]
  BY DEF Event, NewThread
<1>4. Event(id, r) \in Created
  BY <1>1, <1>3 DEF Created
<1>5. ASSUME Direct(NewThread(r))
      PROVE  /\ Cardinality(NewThread(r).members) = 2
             /\ NewThread(r).key =
                  <<NewThread(r).scope, NewThread(r).members, NewThread(r).subject>>
  <2>1. PICK v \in Users : Between(r, v) /\ r.key = DirectKey(r.scope, r.user, v, r.subject)
    BY <1>5 DEF Direct, NewThread, Opening
  <2>2. {r.user} \cup r.others = {r.user, v} /\ v # r.user
    BY <2>1 DEF Between
  <2>3. Cardinality({r.user, v}) = 2
    BY <2>2, TwoPeople
  <2> QED
    BY <2>1, <2>2, <2>3 DEF NewThread, DirectKey
<1> QED
  BY <1>2, <1>3, <1>4, <1>5

(***************************************************************************)
(* Where each step of a request leaves it.                                 *)
(***************************************************************************)
\* Worker w has gone somewhere it may stand with what it has seen.
Moved(w) == \E place \in Places, r \in Request :
                Goto(w, place, r) /\ RequestOK(place, r, saw'[w])

\* An answer keeps a request's claims, once those about refusals are settled.
LEMMA AnswerMoves ==
    ASSUME TypeInv, RequestsOK, NEW w \in Workers, NEW status \in Codes, NEW r \in Request,
           Observe, Answer(w, r, status), r.op # "open" => r.key = NoKey,
           status = "refused" => "blocked" \in saw'[w],
           status \in {"refused", "unavailable"} =>
              Enforced /\ Pair(r) # {} /\ (r.op = "open" => "absent" \in saw'[w])
    PROVE  Moved(w)
<1> DEFINE a == [r EXCEPT !.status = status]
<1>1. a \in Request /\ a.status = status /\ Same(a, r)
  BY AnswerType
<1>2. Goto(w, "done", a)
  BY DEF Answer
<1> HIDE DEF a
<1>3. Pair(a) = Pair(r)
  BY <1>1 DEF Pair, Same
<1>4. RequestOK("done", a, saw'[w])
  BY <1>1, <1>3 DEF RequestOK, Same
<1> QED
  BY <1>1, <1>2, <1>4 DEF Moved, Places

\* No step of its own makes a worker that goes on forget.
LEMMA GotoKeeps ==
    ASSUME TypeInv, NEW w \in Workers, NEW place, NEW r, Goto(w, place, r), Observe, r # Idle
    PROVE  saw[w] \subseteq saw'[w]
<1>1. req'[w] = r
  BY DEF Goto, TypeInv
<1> QED
  BY <1>1, ObserveKeeps

\* What stands at the moment a request begins.
LEMMA BeginOpenMoves ==
    ASSUME TypeInv, RequestsOK, NEW w \in Workers, NEW o \in Offers, Observe,
           BeginOpen(w, OpenRequest(o))
    PROVE  Moved(w)
<1> DEFINE r == OpenRequest(o)
<1>0. UNCHANGED <<threads, live, blocks>> /\ pc[w] = "idle"
  BY DEF BeginOpen, db
<1>1. CASE Invalid(r) /\ Answer(w, Idle, "invalid")
  BY <1>1, AnswerMoves, IdleType DEF Codes, Idle
<1>2. ASSUME ~Invalid(r), r.kind = "direct", NEW i \in Existing(r.key),
             Goto(w, "answer", [r EXCEPT !.thread = i])
      PROVE  Moved(w)
  <2>1. i \in Nat
    BY LenProperties DEF Existing, Standing, TypeInv
  <2>2. r \in Request /\ Opening(r) /\ r.status = "none"
    BY <1>2, OpenType
  <2> DEFINE a == [r EXCEPT !.thread = i]
  <2> HIDE DEF r
  <2>3. a \in Request /\ a.status = "none" /\ Same(a, r)
    BY <2>1, <2>2, GivenType
  <2> HIDE DEF a
  <2>4. Opening(a)
    BY <2>2, <2>3 DEF Opening, Between, Same
  <2>5. RequestOK("answer", a, saw'[w])
    BY <2>3, <2>4 DEF RequestOK, Opening, Same
  <2> QED
    BY <1>2, <2>3, <2>5 DEF Moved, Places, a
<1>3. CASE ~Invalid(r) /\ r.kind = "direct" /\ Existing(r.key) = {} /\ Goto(w, "ask", r)
  <2>1. r \in Request /\ Opening(r) /\ r.status = "none" /\ r.thread = 0 /\ r # Idle
    BY <1>3, OpenType
  <2>2. PICK v \in Users : Between(r, v) /\ r.key = DirectKey(r.scope, r.user, v, r.subject)
    BY <1>3, <2>1 DEF Opening
  <2>3. r.key # NoKey
    BY <2>1, <2>2, SentinelsAssumption DEF DirectKey, Between, Opening, Request
  <2> HIDE DEF r
  <2>4. "absent" \in saw'[w]
    BY <1>0, <1>3, <2>1, <2>3, ObserveSees DEF Existing
  <2>5. RequestOK("ask", r, saw'[w])
    BY <1>3, <2>1, <2>2, <2>4 DEF RequestOK, Opening
  <2> QED
    BY <1>3, <2>1, <2>5 DEF Moved, Places
<1>4. CASE ~Invalid(r) /\ r.kind # "direct" /\ Goto(w, "create", r)
  <2>1. r \in Request /\ Opening(r) /\ r.status = "none" /\ r.thread = 0
    BY <1>4, OpenType
  <2> HIDE DEF r
  <2>2. RequestOK("create", r, saw'[w])
    BY <1>4, <2>1 DEF RequestOK, Opening
  <2> QED
    BY <1>4, <2>1, <2>2 DEF Moved, Places
<1> QED
  BY <1>1, <1>2, <1>3, <1>4 DEF BeginOpen

\* A send names a thread: it is turned away or goes on to its questions.
LEMMA BeginSendMoves ==
    ASSUME TypeInv, DirectoryInv, RequestsOK, NEW w \in Workers, Observe,
           NEW u \in Users \cup {NoUser}, NEW t \in DOMAIN threads, NEW cid \in Cids,
           BeginSend(w, SendRequest(u, t, cid))
    PROVE  Moved(w)
<1> DEFINE r == SendRequest(u, t, cid)
<1>1. /\ r \in Request /\ r.op = "send" /\ r.status = "none" /\ r.key = NoKey /\ r.user = u
      /\ r.thread = t /\ r.kind = threads[t].kind /\ r.others = threads[t].members \ {u}
      /\ r # Idle
  BY SendType
<1> HIDE DEF r
<1>2. ASSUME NEW status \in {"not found", "not participant"}, Answer(w, Idle, status)
      PROVE  Moved(w)
  BY <1>2, AnswerMoves, IdleType DEF Codes, Idle
<1>3. ASSUME u \in threads[t].members \cup {NoUser},
             Goto(w, IF Pair(r) = {} THEN "look up" ELSE "ask", r)
      PROVE  Moved(w)
  <2>1. threads[t].members \in SUBSET Users
    <3>1. threads[t] \in ThreadRow
      BY ElementOfSeq, LenProperties DEF TypeInv
    <3> QED
      BY <3>1 DEF ThreadRow
  <2>2. ASSUME r.kind = "direct", r.user # NoUser
        PROVE  \E v \in Users : Between(r, v)
    <3>1. Cardinality(threads[t].members) = 2
      BY <1>1, <2>2 DEF DirectoryInv, Direct
    <3>2. u \in threads[t].members
      BY <1>1, <1>3, <2>2
    <3>3. PICK v \in Users \ {u} : threads[t].members \ {u} = {v}
      BY <2>1, <3>1, <3>2, OtherPerson
    <3> QED
      BY <1>1, <2>1, <3>2, <3>3 DEF Between
  <2>3. CASE Pair(r) = {}
    <3>1. r.kind = "direct" => r.user = NoUser
      BY <1>1, <2>2, <2>3, PairOfRequest
    <3>2. RequestOK("look up", r, saw'[w])
      BY <1>1, <3>1 DEF RequestOK
    <3> QED
      BY <1>1, <1>3, <2>3, <3>2 DEF Moved, Places
  <2>4. CASE Pair(r) # {}
    <3>1. r.kind = "direct" /\ r.user # NoUser
      BY <2>4 DEF Pair
    <3>2. RequestOK("ask", r, saw'[w])
      BY <1>1, <2>2, <3>1 DEF RequestOK
    <3> QED
      BY <1>1, <1>3, <2>4, <3>2 DEF Moved, Places
  <2> QED
    BY <2>3, <2>4
<1> QED
  BY <1>1, <1>2, <1>3 DEF BeginSend, r

\* A request that asks goes on as the store answered, or is refused.
LEMMA AskMoves ==
    ASSUME TypeInv, RequestsOK, NEW w \in Workers, Observe, Ask(w)
    PROVE  Moved(w)
<1> DEFINE r == req[w]
<1>1. r \in Request /\ RequestOK("ask", r, saw[w])
  BY DEF TypeInv, RequestsOK, Ask
<1>2. PICK v \in Users : Between(r, v)
  BY <1>1 DEF RequestOK
<1>3. r.kind = "direct" /\ r.op \in {"open", "send"} /\ r # Idle /\ r.status = "none"
      /\ (r.op # "open" => r.key = NoKey)
  BY <1>1 DEF RequestOK, Idle
<1>4. Pair(r) = {r.user, v} /\ Pair(r) # {} /\ r.user # v /\ r.user \in Users
  BY <1>1, <1>2, <1>3, PairOfRequest DEF Between
<1>5. PICK verdict \in Verdicts(r.user, v) :
         IF verdict = "open"
         THEN Goto(w, IF r.op = "open" THEN "create" ELSE "look up", r)
         ELSE Answer(w, r, verdict)
  BY <1>2 DEF Ask, Between
<1>6. UNCHANGED <<threads, live, blocks>> /\ pc[w] = "ask"
  BY DEF Ask, db
<1> HIDE DEF r
<1>7. (\E x, y \in Pair(r) : <<x, y>> \in blocks) <=> Blocked(r.user, v)
  <2>1. <<r.user, r.user>> \notin blocks /\ <<v, v>> \notin blocks
    BY <1>4 DEF TypeInv
  <2> QED
    BY <1>4, <2>1 DEF Blocked
<1>8. ASSUME NEW place, NEW a, Goto(w, place, a), Same(a, r), a # Idle
      PROVE  /\ saw[w] \subseteq saw'[w]
             /\ Blocked(r.user, v) => "blocked" \in saw'[w]
             /\ ~Blocked(r.user, v) => "free" \in saw'[w]
  <2>1. Pair(a) = Pair(r)
    BY <1>8 DEF Pair, Same
  <2> QED
    BY <1>4, <1>6, <1>7, <1>8, <2>1, ObserveSees, GotoKeeps
<1>9. CASE verdict = "open"
  <2>1. Goto(w, IF r.op = "open" THEN "create" ELSE "look up", r)
    BY <1>5, <1>9
  <2>2. Enforced => ~Blocked(r.user, v)
    BY <1>5, <1>9 DEF Verdicts
  <2>3. Enforced => "free" \in saw'[w]
    BY <1>3, <1>8, <2>1, <2>2 DEF Same
  <2>4. RequestOK(IF r.op = "open" THEN "create" ELSE "look up", r, saw'[w])
    BY <1>1, <1>3, <2>3 DEF RequestOK
  <2> QED
    BY <1>1, <2>1, <2>4 DEF Moved, Places
<1>10. CASE verdict # "open"
  <2> DEFINE a == [r EXCEPT !.status = verdict]
  <2>1. verdict \in {"refused", "unavailable"} /\ Enforced
        /\ (verdict = "refused" => Blocked(r.user, v))
    BY <1>5, <1>10 DEF Verdicts
  <2>2. Same(a, r)
    BY <1>1, <2>1, AnswerType DEF Codes
  <2>3. Answer(w, r, verdict) /\ Goto(w, "done", a)
    BY <1>5, <1>10 DEF Answer
  <2> HIDE DEF a
  <2>4. a # Idle
    BY <1>3, <2>2 DEF Idle, Same
  <2>5. saw[w] \subseteq saw'[w] /\ (verdict = "refused" => "blocked" \in saw'[w])
    BY <1>8, <2>1, <2>2, <2>3, <2>4
  <2>6. r.op = "open" => "absent" \in saw'[w]
    BY <1>1, <2>5 DEF RequestOK
  <2> QED
    BY <1>1, <1>3, <1>4, <2>1, <2>3, <2>5, <2>6, AnswerMoves DEF Codes
<1> QED
  BY <1>9, <1>10

\* An opening holds its new thread, or has lost the race for it.
LEMMA CreateMoves ==
    ASSUME TypeInv, RequestsOK, NEW w \in Workers, Observe, Create(w)
    PROVE  Moved(w)
<1> DEFINE r == req[w]
           i == Len(threads) + 1
           a == [r EXCEPT !.thread = i]
<1>1. r \in Request /\ RequestOK("create", r, saw[w])
  BY DEF TypeInv, RequestsOK, Create
<1>2. Opening(r) /\ r.op = "open" /\ r # Idle /\ r.status = "none" /\ r.thread = 0
  BY <1>1 DEF RequestOK, Opening, Idle
<1>3. i \in Nat
  BY LenProperties DEF TypeInv
<1>4. \/ r.kind = "direct" /\ Goto(w, "lost", r)
      \/ Goto(w, "answer", a)
  BY DEF Create
<1> HIDE DEF r, i
<1>5. a \in Request /\ a.status = "none" /\ Same(a, r)
  BY <1>1, <1>2, <1>3, GivenType
<1> HIDE DEF a
<1>6. Opening(a)
  BY <1>2, <1>5 DEF Opening, Between, Same
<1>7. RequestOK("answer", a, saw'[w])
  BY <1>2, <1>5, <1>6 DEF RequestOK, Same
<1>8. r.kind = "direct" => RequestOK("lost", r, saw'[w])
  BY <1>2 DEF RequestOK
<1> QED
  BY <1>1, <1>4, <1>5, <1>7, <1>8 DEF Moved, Places

\* Who loses the race holds the winner.
LEMMA LoseMoves ==
    ASSUME TypeInv, RequestsOK, NEW w \in Workers, Observe, Lose(w)
    PROVE  Moved(w)
<1> DEFINE r == req[w]
<1>1. r \in Request /\ RequestOK("lost", r, saw[w])
  BY DEF TypeInv, RequestsOK, Lose
<1>2. Opening(r) /\ r.op = "open" /\ r.status = "none" /\ r.thread = 0
  BY <1>1 DEF RequestOK, Opening
<1>3. ASSUME NEW i \in Winner(r.key), Goto(w, "answer", [r EXCEPT !.thread = i])
      PROVE  Moved(w)
  <2> DEFINE a == [r EXCEPT !.thread = i]
  <2>1. i \in Nat
    BY LenProperties DEF Winner, Standing, TypeInv
  <2> HIDE DEF r
  <2>2. a \in Request /\ a.status = "none" /\ Same(a, r)
    BY <1>1, <1>2, <2>1, GivenType
  <2> HIDE DEF a
  <2>3. Opening(a)
    BY <1>2, <2>2 DEF Opening, Between, Same
  <2>4. RequestOK("answer", a, saw'[w])
    BY <1>2, <2>2, <2>3 DEF RequestOK, Same
  <2> QED
    BY <1>3, <2>2, <2>4 DEF Moved, Places, a
<1>4. CASE Answer(w, r, "error")
  BY <1>1, <1>2, <1>4, AnswerMoves DEF Codes
<1> QED
  BY <1>3, <1>4 DEF Lose

\* The rest of a request asks nobody.
LEMMA RestMoves ==
    ASSUME TypeInv, RequestsOK, NEW w \in Workers, Observe,
           Reread(w) \/ LookUp(w) \/ Commit(w) \/ Crash(w)
    PROVE  Moved(w)
<1> DEFINE r == req[w]
<1>1. r \in Request /\ RequestOK(pc[w], r, saw[w]) /\ (r.op # "open" => r.key = NoKey)
  BY DEF TypeInv, RequestsOK, RequestOK
<1>2. CASE Reread(w)
  BY <1>1, <1>2, AnswerMoves DEF Reread, Codes
<1>3. ASSUME NEW place \in {"look up", "commit"}, pc[w] \in {"look up", "commit"},
             Goto(w, place, r)
      PROVE  Moved(w)
  <2>1. r.op = "send"
    BY <1>1, <1>3 DEF RequestOK
  <2> HIDE DEF r
  <2>2. r # Idle
    BY <2>1, IdleType
  <2>3. saw[w] \subseteq saw'[w]
    BY <1>3, <2>2, GotoKeeps
  <2>4. RequestOK(place, r, saw'[w])
    BY <1>1, <1>3, <2>1, <2>3 DEF RequestOK
  <2> QED
    BY <1>1, <1>3, <2>4 DEF Moved, Places
<1>4. CASE Answer(w, r, "ok") \/ Answer(w, r, "error")
  BY <1>1, <1>4, AnswerMoves DEF Codes
<1>5. CASE LookUp(w)
  BY <1>3, <1>4, <1>5 DEF LookUp
<1>6. CASE Commit(w)
  BY <1>3, <1>4, <1>6 DEF Commit
<1>7. CASE Crash(w)
  <2>1. Goto(w, "done", Idle)
    BY <1>7 DEF Crash
  <2>2. RequestOK("done", Idle, saw'[w])
    BY IdleType DEF RequestOK
  <2> QED
    BY <2>1, <2>2, IdleType DEF Moved, Places
<1> QED
  BY <1>2, <1>5, <1>6, <1>7

\* Every step of a worker leaves it where it may stand.
LEMMA ServiceMoves ==
    ASSUME TypeInv, DirectoryInv, RequestsOK, NEW w \in Workers, ServiceStep(w), Observe
    PROVE  Moved(w) /\ deployment' = deployment /\ blocks' = blocks
<1>1. Moved(w)
  <2>1. ASSUME NEW o \in Offers, BeginOpen(w, OpenRequest(o))
        PROVE  Moved(w)
    BY <2>1, BeginOpenMoves
  <2>2. ASSUME NEW u \in Users \cup {NoUser}, NEW t \in DOMAIN threads, NEW cid \in Cids,
               BeginSend(w, SendRequest(u, t, cid))
        PROVE  Moved(w)
    BY <2>2, BeginSendMoves
  <2> QED
    BY <2>1, <2>2, AskMoves, CreateMoves, LoseMoves, RestMoves DEF ServiceStep
<1>2. deployment' = deployment /\ blocks' = blocks
  BY DEF ServiceStep, BeginOpen, BeginSend, Ask, Create, Lose, Reread, LookUp, Commit, Crash
<1> QED
  BY <1>1, <1>2

\* Whoever steps, each request has seen what its place says.
LEMMA RequestsStep == IInv /\ [Next]_vars => RequestsOK'
<1> SUFFICES ASSUME IInv, [Next]_vars
             PROVE  RequestsOK'
  OBVIOUS
<1> USE DEF IInv
<1>1. ASSUME NEW w \in Workers, ServiceStep(w), Observe
      PROVE  RequestsOK'
  <2>1. PICK place \in Places, r \in Request :
            Goto(w, place, r) /\ RequestOK(place, r, saw'[w])
    BY <1>1, ServiceMoves DEF Moved
  <2>2. deployment' = deployment
    BY <1>1, ServiceMoves
  <2> QED
    BY <1>1, <2>1, <2>2, OwnStep
<1>2. ASSUME deployment' = deployment, pc' = pc, req' = req, Observe
      PROVE  RequestsOK'
  BY <1>2, OthersRest DEF RequestsOK
<1>3. ASSUME NEW u \in Users, NEW v \in Users, Block(u, v) \/ Unblock(u, v), Observe
      PROVE  RequestsOK'
  BY <1>2, <1>3 DEF Block, Unblock
<1>4. ASSUME NEW i \in DOMAIN threads, Remove(i), Observe
      PROVE  RequestsOK'
  BY <1>2, <1>4 DEF Remove
<1>5. CASE UNCHANGED vars
  <2>1. pc' = pc /\ req' = req /\ saw' = saw /\ deployment' = deployment
    BY <1>5 DEF vars
  <2>2. ASSUME NEW w \in Workers, RequestOK(pc[w], req[w], saw[w])
        PROVE  RequestOK(pc[w], req[w], saw[w])'
    BY <2>1, <2>2 DEF RequestOK, Opening, Between, Enforced, Pair, DirectKey
  <2> QED
    BY <2>2 DEF RequestsOK
<1> QED
  BY <1>1, <1>3, <1>4, <1>5 DEF Next

(***************************************************************************)
(* What a step does to the threads: one transaction, one removal, or       *)
(* nothing.                                                                *)
(***************************************************************************)
Opened ==
    \E r \in Request :
       /\ Opening(r) /\ (Direct(NewThread(r)) => Standing(r.key) = {})
       /\ Len(threads) + 1 <= MaxThreads
       /\ threads' = Append(threads, NewThread(r))
       /\ live' = live \cup {Len(threads) + 1}
       /\ outbox' = Append(outbox, Event(Len(threads) + 1, r))

Removed == \E i \in live : live' = live \ {i} /\ UNCHANGED <<threads, outbox>>

\* What a step does to the rows.
LEMMA ThreadsStep ==
    ASSUME IInv, [Next]_vars
    PROVE  Opened \/ Removed \/ UNCHANGED <<threads, live, outbox>>
<1> USE DEF IInv
<1>1. ASSUME NEW w \in Workers, Create(w)
      PROVE  Opened \/ UNCHANGED <<threads, live, outbox>>
  <2> DEFINE r == req[w]
  <2>1. r \in Request /\ Opening(r)
    BY <1>1 DEF TypeInv, RequestsOK, RequestOK, Create
  <2>2. CASE r.kind = "direct" /\ Conflicts(r.key) # {}
    BY <1>1, <2>2 DEF Create, db
  <2>3. CASE ~(r.kind = "direct" /\ Conflicts(r.key) # {})
    <3>1. Direct(NewThread(r)) => Standing(r.key) = {}
      BY <2>3 DEF Conflicts, Direct, NewThread
    <3>2. /\ Len(threads) + 1 <= MaxThreads
          /\ threads' = Append(threads, NewThread(r))
          /\ live' = live \cup {Len(threads) + 1}
          /\ outbox' = Append(outbox, Event(Len(threads) + 1, r))
      BY <1>1, <2>3 DEF Create
    <3> HIDE DEF r
    <3> QED
      BY <2>1, <3>1, <3>2 DEF Opened
  <2> QED
    BY <2>2, <2>3
<1>2. ASSUME NEW w \in Workers, ServiceStep(w), ~Create(w)
      PROVE  UNCHANGED <<threads, live, outbox>>
  BY <1>2 DEF ServiceStep, BeginOpen, BeginSend, Ask, Lose, Reread, LookUp, Commit, Crash, db
<1>3. ASSUME NEW i \in DOMAIN threads, Remove(i)
      PROVE  Removed
  BY <1>3 DEF Remove, Removed
<1>4. ASSUME NEW u \in Users, NEW v \in Users, Block(u, v) \/ Unblock(u, v)
      PROVE  UNCHANGED <<threads, live, outbox>>
  BY <1>4 DEF Block, Unblock, db
<1> QED
  BY <1>1, <1>2, <1>3, <1>4 DEF Next, vars

\* A transaction appends one row and one event; everything else stays.
LEMMA OpenedRows ==
    ASSUME TypeInv, NEW r \in Request, Opening(r),
           threads' = Append(threads, NewThread(r)),
           outbox' = Append(outbox, Event(Len(threads) + 1, r))
    PROVE  /\ threads' \in Seq(ThreadRow) /\ Len(threads') = Len(threads) + 1
           /\ DOMAIN threads' = DOMAIN threads \cup {Len(threads) + 1}
           /\ Len(threads) + 1 \notin DOMAIN threads
           /\ \A i \in DOMAIN threads : threads'[i] = threads[i]
           /\ threads'[Len(threads) + 1] = NewThread(r)
           /\ outbox' \in Seq(Created) /\ Len(outbox') = Len(outbox) + 1
           /\ \A i \in DOMAIN outbox : outbox'[i] = outbox[i]
           /\ outbox'[Len(outbox) + 1] = Event(Len(threads) + 1, r)
           /\ DOMAIN outbox' = DOMAIN outbox \cup {Len(outbox) + 1}
<1>1. Len(threads) \in Nat /\ Len(outbox) \in Nat /\ DOMAIN threads = 1 .. Len(threads)
      /\ DOMAIN outbox = 1 .. Len(outbox)
  BY LenProperties DEF TypeInv
<1>2. NewThread(r) \in ThreadRow /\ Event(Len(threads) + 1, r) \in Created
  BY <1>1, CreateType
<1>3. threads \in Seq(ThreadRow) /\ outbox \in Seq(Created)
  BY DEF TypeInv
<1> QED
  BY <1>1, <1>2, <1>3

\* Types are preserved by every step.
LEMMA TypeStep == IInv /\ [Next]_vars => TypeInv'
<1> SUFFICES ASSUME IInv, [Next]_vars
             PROVE  TypeInv'
  OBVIOUS
<1> USE DEF IInv
<1>1. /\ threads' \in Seq(ThreadRow) /\ Len(threads') <= MaxThreads
      /\ live' \subseteq DOMAIN threads' /\ outbox' \in Seq(Created)
  <2>1. CASE Opened
    <3>1. PICK r \in Request :
              /\ Opening(r) /\ Len(threads) + 1 <= MaxThreads
              /\ threads' = Append(threads, NewThread(r))
              /\ live' = live \cup {Len(threads) + 1}
              /\ outbox' = Append(outbox, Event(Len(threads) + 1, r))
      BY <2>1 DEF Opened
    <3>2. /\ threads' \in Seq(ThreadRow) /\ Len(threads') = Len(threads) + 1
          /\ DOMAIN threads' = DOMAIN threads \cup {Len(threads) + 1}
          /\ outbox' \in Seq(Created)
      BY <3>1, OpenedRows
    <3> QED
      BY <3>1, <3>2 DEF TypeInv
  <2>2. CASE Removed \/ UNCHANGED <<threads, live, outbox>>
    BY <2>2 DEF Removed, TypeInv
  <2> QED
    BY <2>1, <2>2, ThreadsStep
<1>2. \A u \in Users : <<u, u>> \notin blocks'
  <2>1. ASSUME NEW u \in Users, NEW v \in Users, u # v, Block(u, v) \/ Unblock(u, v)
        PROVE  \A x \in Users : <<x, x>> \notin blocks'
    <3>1. blocks' \subseteq blocks \cup {<<u, v>>}
      BY <2>1 DEF Block, Unblock
    <3>2. \A x \in Users : <<x, x>> \notin blocks
      BY DEF TypeInv
    <3> QED
      BY <2>1, <3>1, <3>2
  <2>2. blocks' = blocks => \A x \in Users : <<x, x>> \notin blocks'
    BY DEF TypeInv
  <2> QED
    BY <2>1, <2>2, ServiceMoves DEF Next, Remove, vars
<1>3. pc' \in [Workers -> Places] /\ req' \in [Workers -> Request]
  <2>1. ASSUME NEW w \in Workers, ServiceStep(w), Observe
        PROVE  pc' \in [Workers -> Places] /\ req' \in [Workers -> Request]
    BY <2>1, ServiceMoves DEF Moved, Goto, TypeInv
  <2>2. UNCHANGED <<pc, req>> => pc' \in [Workers -> Places] /\ req' \in [Workers -> Request]
    BY DEF TypeInv
  <2> QED
    BY <2>1, <2>2 DEF Next, Block, Unblock, Remove, vars
<1> QED
  BY <1>1, <1>2, <1>3 DEF TypeInv

\* The unique key holds, and each thread is announced once.
LEMMA DirectoryStep == IInv /\ [Next]_vars => DirectoryInv' /\ OutboxInv'
<1> SUFFICES ASSUME IInv, [Next]_vars
             PROVE  DirectoryInv' /\ OutboxInv'
  OBVIOUS
<1> USE DEF IInv
<1>1. CASE Opened
  <2>1. PICK r \in Request :
            /\ Opening(r) /\ (Direct(NewThread(r)) => Standing(r.key) = {})
            /\ threads' = Append(threads, NewThread(r))
            /\ live' = live \cup {Len(threads) + 1}
            /\ outbox' = Append(outbox, Event(Len(threads) + 1, r))
    BY <1>1 DEF Opened
  <2> DEFINE n == Len(threads) + 1
  <2>2. /\ DOMAIN threads' = DOMAIN threads \cup {n} /\ n \notin DOMAIN threads
        /\ \A i \in DOMAIN threads : threads'[i] = threads[i]
        /\ threads'[n] = NewThread(r)
        /\ Len(threads') = n
        /\ \A i \in DOMAIN outbox : outbox'[i] = outbox[i]
        /\ outbox'[Len(outbox) + 1] = Event(n, r)
        /\ DOMAIN outbox' = DOMAIN outbox \cup {Len(outbox) + 1}
        /\ Len(outbox') = Len(outbox) + 1
    BY <2>1, OpenedRows
  <2>3. n \in Nat /\ Len(threads) \in Nat /\ live \subseteq DOMAIN threads
    BY LenProperties DEF TypeInv
  <2>4. /\ Event(n, r).thread = n /\ Event(n, r).members = NewThread(r).members
        /\ Direct(NewThread(r)) =>
             /\ Cardinality(NewThread(r).members) = 2
             /\ NewThread(r).key =
                  <<NewThread(r).scope, NewThread(r).members, NewThread(r).subject>>
    BY <2>1, <2>3, CreateType
  <2>5. NewThread(r).key = r.key
    BY DEF NewThread
  <2> HIDE DEF n
  <2>6. \A i \in live : Direct(NewThread(r)) /\ Direct(threads[i]) => threads[i].key # NewThread(r).key
    BY <2>1, <2>5 DEF Standing
  <2>7. DirectoryInv'
    <3>1. \A i \in DOMAIN threads' :
             Direct(threads'[i]) =>
                /\ Cardinality(threads'[i].members) = 2
                /\ threads'[i].key = <<threads'[i].scope, threads'[i].members, threads'[i].subject>>
      BY <2>2, <2>4 DEF DirectoryInv
    <3>2. \A i, j \in live' :
             Direct(threads'[i]) /\ Direct(threads'[j]) /\ threads'[i].key = threads'[j].key => i = j
      BY <2>1, <2>2, <2>3, <2>6 DEF DirectoryInv, n
    <3> QED
      BY <3>1, <3>2 DEF DirectoryInv, Direct
  <2>8. OutboxInv'
    <3>1. Len(outbox) + 1 = n /\ DOMAIN outbox = DOMAIN threads
      BY LenProperties DEF OutboxInv, TypeInv, n
    <3> QED
      BY <2>2, <2>4, <3>1 DEF OutboxInv
  <2> QED
    BY <2>7, <2>8
<1>2. CASE Removed \/ UNCHANGED <<threads, live, outbox>>
  BY <1>2 DEF Removed, DirectoryInv, OutboxInv, Direct
<1> QED
  BY <1>1, <1>2, ThreadsStep

\* A thread that was opened before is a row with its event.
LEMMA PriorType ==
    ASSUME NEW t \in Prior
    PROVE  /\ t \in ThreadRow
           /\ [thread |-> 1, kind |-> t.kind, subject |-> t.subject,
               creator |-> CHOOSE u \in t.members : TRUE, members |-> t.members] \in Created
           /\ Direct(t) => Cardinality(t.members) = 2 /\ t.key = <<t.scope, t.members, t.subject>>
<1>1. t \in [kind : Kinds, scope : Scopes, subject : Subjects, members : (SUBSET Users) \ {{}},
             key : PairKeys \cup {NoKey}]
  BY PriorAssumption DEF PairKeys
<1>2. t.kind \in Kinds /\ t.subject \in Subjects /\ t.members \in SUBSET Users /\ t.members # {}
  BY <1>1
<1>3. (CHOOSE u \in t.members : TRUE) \in Users
  BY <1>2
<1>4. t \in ThreadRow
  BY <1>1 DEF ThreadRow
<1> QED
  BY <1>2, <1>3, <1>4, PriorAssumption DEF Created, Direct

\* The database that is there keeps its constraint.
LEMMA InitOK == Init => IInv
<1> SUFFICES ASSUME Init
             PROVE  IInv
  OBVIOUS
<1>1. RequestsOK
  BY IdleType DEF Init, RequestsOK, RequestOK
<1>2. (\A u \in Users : <<u, u>> \notin blocks) /\ pc \in [Workers -> Places]
      /\ req \in [Workers -> Request]
  BY IdleType DEF Init, Places
<1>3. CASE threads = <<>> /\ live = {} /\ outbox = <<>>
  <2>1. /\ threads \in Seq(ThreadRow) /\ outbox \in Seq(Created)
        /\ Len(threads) = 0 /\ Len(outbox) = 0 /\ DOMAIN threads = {} /\ DOMAIN outbox = {}
    BY <1>3, EmptySeq
  <2> QED
    BY <1>1, <1>2, <1>3, <2>1, BoundsAssumption DEF IInv, TypeInv, DirectoryInv, OutboxInv
<1>4. ASSUME NEW t \in Prior, threads = <<t>>, live = {1},
             outbox = <<[thread |-> 1, kind |-> t.kind, subject |-> t.subject,
                         creator |-> CHOOSE u \in t.members : TRUE, members |-> t.members]>>
      PROVE  IInv
  <2> DEFINE e == [thread |-> 1, kind |-> t.kind, subject |-> t.subject,
                   creator |-> CHOOSE u \in t.members : TRUE, members |-> t.members]
  <2>1. e.thread = 1 /\ e.members = t.members /\ outbox = <<e>>
    BY <1>4
  <2>2. /\ t \in ThreadRow /\ e \in Created
        /\ Direct(t) => Cardinality(t.members) = 2 /\ t.key = <<t.scope, t.members, t.subject>>
    BY PriorType
  <2> HIDE DEF e
  <2>3. /\ threads \in Seq(ThreadRow) /\ Len(threads) = 1 /\ DOMAIN threads = {1} /\ threads[1] = t
        /\ outbox \in Seq(Created) /\ Len(outbox) = 1 /\ DOMAIN outbox = {1} /\ outbox[1] = e
    <3>1. <<t>> \in Seq(ThreadRow) /\ <<e>> \in Seq(Created)
      BY <2>2
    <3>2. /\ Len(<<t>>) = 1 /\ <<t>>[1] = t /\ DOMAIN <<t>> = {1}
          /\ Len(<<e>>) = 1 /\ <<e>>[1] = e /\ DOMAIN <<e>> = {1}
      OBVIOUS
    <3> QED
      BY <1>4, <2>1, <3>1, <3>2
  <2>4. TypeInv
    BY <1>2, <1>4, <2>3, BoundsAssumption DEF TypeInv
  <2>5. DirectoryInv /\ OutboxInv
    BY <1>4, <2>1, <2>2, <2>3 DEF DirectoryInv, OutboxInv
  <2> QED
    BY <1>1, <2>4, <2>5 DEF IInv
<1> QED
  BY <1>3, <1>4 DEF Init

\* The inductive invariant.
LEMMA Invariance == Spec => []IInv
<1>1. IInv /\ [Next]_vars => IInv'
  BY TypeStep, DirectoryStep, RequestsStep DEF IInv
<1> QED
  BY <1>1, InitOK, PTL DEF Spec

(***************************************************************************)
(* Two requests that open the same pair end on one thread, and the outbox  *)
(* tells of each thread once (create_direct, its unique constraint, and    *)
(* _emit_created): for any number of people, workers and threads.          *)
(***************************************************************************)
THEOREM PairsHaveOneThread == Spec => []OneThreadPerPair
<1>1. IInv => OneThreadPerPair
  <2> SUFFICES ASSUME IInv
               PROVE  OneThreadPerPair
    OBVIOUS
  <2>1. live \subseteq DOMAIN threads
    BY DEF IInv, TypeInv
  <2>2. \A i, j \in live :
           /\ Direct(threads[i]) /\ Direct(threads[j])
           /\ threads[i].members = threads[j].members
           /\ threads[i].scope = threads[j].scope /\ threads[i].subject = threads[j].subject
           => i = j
    BY <2>1 DEF IInv, DirectoryInv
  <2> QED
    BY <2>2 DEF OneThreadPerPair, IInv, OutboxInv
<1> QED
  BY <1>1, Invariance, PTL

(***************************************************************************)
(* No 403 without a block that stood during the request, no 503 where the  *)
(* store is not asked, and no opening turned down whose thread was there   *)
(* all along (_refuse_if_pair_blocked after the look-up in create_direct). *)
(***************************************************************************)
THEOREM RefusalsAreDeserved == Spec => []RefusalsAreJust
<1>1. IInv => RefusalsAreJust
  BY DEF IInv, RequestsOK, RequestOK, RefusalsAreJust
<1> QED
  BY <1>1, Invariance, PTL

(***************************************************************************)
(* Where blocks are enforced, no direct thread and no message of a person  *)
(* is committed by a request during which the two were never free of       *)
(* blocks, whoever blocks whom meanwhile and whatever the store answers.   *)
(***************************************************************************)
THEOREM BlocksHold == Spec => NothingSlipsThrough
<1>1. ASSUME IInv
      PROVE  \A w \in Workers : Enforced /\ Writes(w) => "free" \in saw[w]
  BY <1>1 DEF IInv, RequestsOK, RequestOK, Writes
<1>2. IInv /\ [Next]_vars => [\A w \in Workers : Enforced /\ Writes(w) => "free" \in saw[w]]_vars
  BY <1>1
<1> QED
  BY <1>2, Invariance, PTL DEF Spec, NothingSlipsThrough

(***************************************************************************)
(* Refinement.  What a request holds of the directory is in its record.    *)
(***************************************************************************)
Holds(r) == IF r.key # NoKey /\ r.thread # 0 /\ r.status \in {"none", "ok"}
            THEN <<r.key, r.thread>> ELSE <<>>

\* The thread of a key is the one live row that carries it.
LEMMA StandsIsUnique ==
    ASSUME TypeInv, DirectoryInv, NEW k, NEW i \in Standing(k)
    PROVE  /\ Standing(k) = {i} /\ Stands(k) = i
           /\ i \in 1 .. MaxThreads /\ i \in DOMAIN threads /\ Direct(threads[i]) /\ i # 0
<1>1. \A j \in Standing(k) : j = i
  BY DEF Standing, DirectoryInv
<1>2. Standing(k) = {i}
  BY <1>1
<1>3. Stands(k) = i
  BY <1>2 DEF Stands
<1>4. i \in DOMAIN threads /\ Direct(threads[i])
  BY DEF Standing, TypeInv
<1>5. i \in 1 .. MaxThreads /\ i # 0
  BY <1>4, LenProperties, BoundsAssumption DEF TypeInv
<1> QED
  BY <1>2, <1>3, <1>4, <1>5

\* The key of a pair is one of the directory's.
LEMMA KeyOfPair ==
    ASSUME NEW scope \in Scopes, NEW u \in Users, NEW v \in Users, u # v, NEW subject \in Subjects
    PROVE  DirectKey(scope, u, v, subject) \in Keys
<1> DEFINE t == <<scope, u, v, subject>>
<1>1. t \in Scopes \X Users \X Users \X Subjects /\ t[2] # t[3]
  OBVIOUS
<1>2. DirectKey(scope, u, v, subject) = DirectKey(t[1], t[2], t[3], t[4])
  OBVIOUS
<1> HIDE DEF t
<1> QED
  BY <1>1, <1>2 DEF Keys

\* The key of an opening is one of the directory's.
LEMMA KeyOfOpening ==
    ASSUME NEW r \in Request, Opening(r), r.kind = "direct"
    PROVE  r.key \in Keys /\ r.key # NoKey
<1>1. PICK v \in Users : Between(r, v) /\ r.key = DirectKey(r.scope, r.user, v, r.subject)
  BY DEF Opening
<1>2. r.user \in Users /\ v # r.user /\ r.scope \in Scopes /\ r.subject \in Subjects
  BY <1>1 DEF Between, Opening, Request
<1>3. r.key \in Keys
  BY <1>1, <1>2, KeyOfPair
<1>4. r.key # NoKey
  BY <1>1, <1>2, SentinelsAssumption DEF DirectKey
<1> QED
  BY <1>3, <1>4

\* Every direct row stands under a key of the directory.
LEMMA KeyOfRow ==
    ASSUME TypeInv, DirectoryInv, NEW i \in DOMAIN threads, Direct(threads[i])
    PROVE  threads[i].key \in Keys
<1>1. threads[i] \in ThreadRow
  BY ElementOfSeq, LenProperties DEF TypeInv
<1> DEFINE t == threads[i]
<1>2. t.scope \in Scopes /\ t.members \in SUBSET Users /\ t.subject \in Subjects
  BY <1>1 DEF ThreadRow
<1>3. Cardinality(t.members) = 2 /\ t.key = <<t.scope, t.members, t.subject>>
  BY DEF DirectoryInv
<1> HIDE DEF t
<1>4. t.members # {}
  BY <1>3, FS_EmptySet
<1>5. PICK u \in t.members : TRUE
  BY <1>4
<1>6. PICK v \in Users \ {u} : t.members = {u, v}
  BY <1>2, <1>3, <1>5, OtherPerson
<1>7. t.key = DirectKey(t.scope, u, v, t.subject) /\ u \in Users
  BY <1>2, <1>3, <1>5, <1>6 DEF DirectKey
<1> QED
  BY <1>2, <1>6, <1>7, KeyOfPair DEF t

\* While the table stays, a request comes to hold nothing, keeps what it
\* holds, or is given what stands under a key.
Finds(w) == \E k \in Keys : Standing(k) # {} /\ Told(w)' = <<k, Stands(k)>>

\* A worker holds what its request holds, and the others what they held.
LEMMA GotoHolds ==
    ASSUME TypeInv, NEW w \in Workers, NEW place, NEW r, Goto(w, place, r)
    PROVE  Told(w)' = Holds(r) /\ \A c \in Workers \ {w} : Told(c)' = Told(c)
  BY DEF Goto, TypeInv, Told, Holds

\* A worker that is given a thread holds it.
LEMMA GivenHolds ==
    ASSUME IInv, NEW w \in Workers, NEW r \in Request, Opening(r), r.kind = "direct",
           r.status = "none", NEW i \in Standing(r.key),
           Goto(w, "answer", [r EXCEPT !.thread = i])
    PROVE  Finds(w)
<1> USE DEF IInv
<1> DEFINE a == [r EXCEPT !.thread = i]
<1>1. Stands(r.key) = i /\ i \in Nat /\ i # 0
  BY StandsIsUnique
<1>2. a.key = r.key /\ a.thread = i /\ a.status = "none"
  BY <1>1, GivenType DEF Same
<1>3. r.key \in Keys /\ r.key # NoKey
  BY KeyOfOpening
<1> HIDE DEF a
<1>4. Told(w)' = Holds(a)
  BY GotoHolds DEF a
<1>5. Told(w)' = <<r.key, Stands(r.key)>>
  BY <1>1, <1>2, <1>3, <1>4 DEF Holds
<1> QED
  BY <1>3, <1>5 DEF Finds

\* An answer that holds no more than the request did.
LEMMA AnswerHolds ==
    ASSUME IInv, NEW w \in Workers, NEW r \in Request, NEW status \in Codes, Answer(w, r, status)
    PROVE  /\ Told(w)' \in {Holds([r EXCEPT !.status = "ok"]), <<>>}
           /\ r.key = NoKey \/ r.thread = 0 \/ status \notin {"none", "ok"} => Told(w)' = <<>>
           /\ status = "ok" /\ r.status = "none" => Told(w)' = Holds(r)
<1> DEFINE a == [r EXCEPT !.status = status]
<1>1. a.key = r.key /\ a.thread = r.thread /\ a.status = status
  BY AnswerType DEF Same
<1>2. [r EXCEPT !.status = "ok"].key = r.key /\ [r EXCEPT !.status = "ok"].thread = r.thread
      /\ [r EXCEPT !.status = "ok"].status = "ok"
  BY AnswerType DEF Same, Codes
<1>3. Goto(w, "done", a)
  BY DEF Answer
<1> HIDE DEF a
<1>4. Told(w)' = Holds(a)
  BY <1>3, GotoHolds DEF IInv
<1> QED
  BY <1>1, <1>2, <1>4 DEF Holds

\* A request holds what it held, or nothing, or finds the thread that stands.
LEMMA RequestHolds ==
    ASSUME IInv, NEW w \in Workers, ServiceStep(w), UNCHANGED <<threads, live>>
    PROVE  \/ Told(w)' = Told(w)
           \/ Told(w)' = <<>>
           \/ Finds(w)
<1> USE DEF IInv
<1> DEFINE r == req[w]
<1>1. r \in Request /\ RequestOK(pc[w], r, saw[w]) /\ Told(w) = Holds(r)
  BY DEF TypeInv, RequestsOK, Told, Holds
<1>2. ASSUME NEW a \in Request, NEW status \in Codes, Answer(w, a, status),
             a.key = NoKey \/ a.thread = 0 \/ status \notin {"none", "ok"}
      PROVE  Told(w)' = <<>>
  BY <1>2, AnswerHolds
<1>3. ASSUME NEW a \in Request, NEW place, Goto(w, place, a), a.key = NoKey \/ a.thread = 0
      PROVE  Told(w)' = <<>>
  BY <1>3, GotoHolds DEF Holds
<1>4. ASSUME NEW o \in Offers, BeginOpen(w, OpenRequest(o))
      PROVE  Told(w)' = <<>> \/ Finds(w)
  <2> DEFINE a == OpenRequest(o)
  <2>1. CASE Invalid(a)
    BY <1>2, <1>4, <2>1, IdleType DEF BeginOpen, Codes
  <2>2. CASE ~Invalid(a)
    <3>1. a \in Request /\ Opening(a) /\ a.status = "none" /\ a.thread = 0
      BY <2>2, OpenType
    <3> HIDE DEF a
    <3>2. ASSUME a.kind = "direct", NEW i \in Existing(a.key),
                 Goto(w, "answer", [a EXCEPT !.thread = i])
          PROVE  Finds(w)
      BY <3>1, <3>2, GivenHolds DEF Existing
    <3> QED
      BY <1>3, <1>4, <2>2, <3>1, <3>2 DEF BeginOpen, a
  <2> QED
    BY <2>1, <2>2
<1>5. ASSUME NEW u \in Users \cup {NoUser}, NEW t \in DOMAIN threads, NEW cid \in Cids,
             BeginSend(w, SendRequest(u, t, cid))
      PROVE  Told(w)' = <<>>
  <2>1. SendRequest(u, t, cid) \in Request /\ SendRequest(u, t, cid).key = NoKey
    BY SendType
  <2> QED
    BY <1>2, <1>3, <1>5, <2>1, IdleType DEF BeginSend, Codes
<1>6. CASE Ask(w)
  <2>1. r.key = NoKey \/ r.thread = 0
    BY <1>1, <1>6 DEF Ask, RequestOK
  <2>2. ASSUME NEW x \in {r.user}, NEW v \in r.others, NEW verdict \in Verdicts(x, v),
               verdict # "open", Answer(w, r, verdict)
        PROVE  Told(w)' = <<>>
    BY <1>1, <1>2, <2>1, <2>2 DEF Verdicts, Codes
  <2> QED
    BY <1>1, <1>3, <1>6, <2>1, <2>2 DEF Ask
<1>7. CASE Create(w)
  <2>1. r.thread = 0
    BY <1>1, <1>7 DEF Create, RequestOK
  <2>2. Goto(w, "lost", r) \/ threads' = Append(threads, NewThread(r))
    BY <1>7 DEF Create
  <2>3. threads' # Append(threads, NewThread(r))
    <3>1. Len(threads) \in Nat
      BY LenProperties DEF TypeInv
    <3>2. Len(Append(threads, NewThread(r))) = Len(threads) + 1
      BY DEF TypeInv
    <3> QED
      BY <3>1, <3>2
  <2> QED
    BY <1>1, <1>3, <2>1, <2>2, <2>3
<1>8. CASE Lose(w)
  <2>1. Opening(r) /\ r.kind = "direct" /\ r.status = "none"
    BY <1>1, <1>8 DEF Lose, RequestOK
  <2> HIDE DEF r
  <2>2. ASSUME NEW i \in Winner(r.key), Goto(w, "answer", [r EXCEPT !.thread = i])
        PROVE  Finds(w)
    BY <1>1, <2>1, <2>2, GivenHolds DEF Winner
  <2> QED
    BY <1>1, <1>2, <1>8, <2>2 DEF Lose, Codes, r
<1>9. CASE Reread(w)
  <2>1. r.status = "none"
    BY <1>1, <1>9 DEF Reread, RequestOK
  <2>2. Answer(w, r, "ok") \/ Answer(w, r, "error")
    BY <1>9 DEF Reread
  <2> HIDE DEF r
  <2> QED
    BY <1>1, <2>1, <2>2, AnswerHolds DEF Codes
<1>10. CASE LookUp(w) \/ Commit(w)
  <2>1. r.key = NoKey
    BY <1>1, <1>10 DEF LookUp, Commit, RequestOK
  <2>2. \/ \E place \in Places : Goto(w, place, r)
        \/ \E status \in Codes : Answer(w, r, status)
    BY <1>10 DEF LookUp, Commit, Places, Codes
  <2> HIDE DEF r
  <2> QED
    BY <1>1, <1>2, <1>3, <2>1, <2>2
<1>11. CASE Crash(w)
  BY <1>3, <1>11, IdleType DEF Crash
<1> QED
  BY <1>4, <1>5, <1>6, <1>7, <1>8, <1>9, <1>10, <1>11 DEF ServiceStep

\* The directory's variables, by name.
At     == [k \in Keys |-> Stands(k)]
Used   == {i \in DOMAIN threads : Direct(threads[i])}
Tellings == [w \in Workers |-> Told(w)]

\* The table as a function of the rows, before a step and after it.
Under(k, rows, alive) == {i \in alive : rows[i].kind = "direct" /\ rows[i].key = k}
OneOf(S) == IF S = {} THEN 0 ELSE CHOOSE i \in S : TRUE

\* The table of the directory, row by row.
LEMMA TableIs ==
    /\ \A k : Standing(k) = Under(k, threads, live) /\ Stands(k) = OneOf(Under(k, threads, live))
    /\ At  = [k \in Keys |-> OneOf(Under(k, threads, live))]
    /\ At' = [k \in Keys |-> OneOf(Under(k, threads', live'))]
  BY DEF At, Stands, Standing, Direct, Under, OneOf

\* The table of the directory depends on the threads alone.
LEMMA TableStays ==
    ASSUME UNCHANGED <<threads, live>>
    PROVE  At' = At /\ Used' = Used
  BY TableIs DEF Used, Direct

\* A request comes to hold something, and no other does.
LEMMA Tells ==
    ASSUME IInv, NEW w \in Workers, ServiceStep(w), Observe
    PROVE  Tellings' = [Tellings EXCEPT ![w] = Told(w)']
<1>1. PICK place \in Places, r \in Request : Goto(w, place, r)
  BY ServiceMoves DEF IInv, Moved
<1>2. \A c \in Workers \ {w} : Told(c)' = Told(c)
  BY <1>1, GotoHolds DEF IInv
<1> QED
  BY <1>2 DEF Tellings

\* The directory starts as the database is.
LEMMA DirectoryInit == Init => Directory!DInit
<1> SUFFICES ASSUME Init
             PROVE  Directory!DInit
  OBVIOUS
<1>0. IInv
  BY InitOK
<1>1. \A k \in Keys : Stands(k) \in 1 .. MaxThreads \cup {0}
  <2> SUFFICES ASSUME NEW k \in Keys
               PROVE  Stands(k) \in 1 .. MaxThreads \cup {0}
    OBVIOUS
  <2>1. CASE Standing(k) = {}
    BY <2>1 DEF Stands
  <2>2. CASE Standing(k) # {}
    BY <1>0, <2>2, StandsIsUnique DEF IInv
  <2> QED
    BY <2>1, <2>2
<1>2. Used = {At[k] : k \in Keys} \ {0}
  <2>1. live = DOMAIN threads
    <3>1. DOMAIN <<>> = {} /\ \A t : DOMAIN <<t>> = {1}
      BY EmptySeq
    <3> QED
      BY <3>1 DEF Init
  <2>2. ASSUME NEW i \in Used
        PROVE  \E k \in Keys : At[k] = i /\ i # 0
    <3>1. threads[i].key \in Keys /\ i \in Standing(threads[i].key)
      BY <1>0, <2>1, KeyOfRow DEF Used, Standing, IInv
    <3> QED
      BY <1>0, <3>1, StandsIsUnique DEF At, IInv
  <2>3. ASSUME NEW k \in Keys, At[k] # 0
        PROVE  At[k] \in Used
    <3>1. Standing(k) # {}
      BY <2>3 DEF At, Stands
    <3> QED
      BY <1>0, <3>1, StandsIsUnique DEF At, Used, IInv
  <2> QED
    BY <2>2, <2>3
<1>3. \A w \in Workers : Told(w) = <<>>
  BY IdleType DEF Init, Told
<1> QED
  BY <1>1, <1>2, <1>3 DEF Directory!DInit, At, Used

\* A direct thread that is committed is the abstract Open.
LEMMA CreateRefines ==
    ASSUME IInv, NEW w \in Workers, Create(w), Observe
    PROVE  Directory!DNext \/ UNCHANGED <<At, Used, Tellings>>
<1> USE DEF IInv
<1> DEFINE r == req[w]
           n == Len(threads) + 1
           a == [r EXCEPT !.thread = n]
<1>1. r \in Request /\ RequestOK("create", r, saw[w]) /\ Told(w) = Holds(r)
  BY DEF TypeInv, RequestsOK, Create, Told, Holds
<1>2. Opening(r) /\ r.status = "none" /\ r.thread = 0
  BY <1>1 DEF RequestOK
<1>3. CASE r.kind = "direct" /\ Conflicts(r.key) # {}
  <2>1. Goto(w, "lost", r) /\ UNCHANGED <<threads, live>>
    BY <1>3 DEF Create, db
  <2>2. Told(w)' = Told(w)
    BY <1>1, <2>1, GotoHolds
  <2>3. \A c \in Workers : Told(c)' = Told(c)
    BY <2>1, <2>2, GotoHolds
  <2> QED
    BY <2>1, <2>3, TableStays DEF Tellings
<1>4. CASE ~(r.kind = "direct" /\ Conflicts(r.key) # {})
  <2>1. /\ threads' = Append(threads, NewThread(r)) /\ live' = live \cup {n}
        /\ outbox' = Append(outbox, Event(n, r))
        /\ n <= MaxThreads /\ Goto(w, "answer", a)
    BY <1>4 DEF Create
  <2>2. /\ DOMAIN threads' = DOMAIN threads \cup {n} /\ n \notin DOMAIN threads
        /\ \A i \in DOMAIN threads : threads'[i] = threads[i]
        /\ threads'[n] = NewThread(r)
    BY <1>1, <1>2, <2>1, OpenedRows
  <2>3. live \subseteq DOMAIN threads /\ n \in Nat /\ n # 0
    BY LenProperties DEF TypeInv
  <2>4. a.key = r.key /\ a.thread = n /\ a.status = "none"
    BY <1>1, <1>2, <2>3, GivenType DEF Same
  <2>5. NewThread(r).kind = r.kind /\ NewThread(r).key = r.key
    BY DEF NewThread
  <2> HIDE DEF a, n, r
  <2>6. Told(w)' = Holds(a) /\ \A c \in Workers \ {w} : Told(c)' = Told(c)
    BY <2>1, GotoHolds
  <2> DEFINE Before(k) == Under(k, threads, live)
             After(k)  == Under(k, threads', live')
  <2>7. \A k \in Keys : After(k) =
           IF r.kind = "direct" /\ k = r.key THEN Before(k) \cup {n} ELSE Before(k)
    BY <2>1, <2>2, <2>3, <2>5 DEF Under
  <2>0. Standing(r.key) = Before(r.key)
    BY TableIs
  <2>10. At = [k \in Keys |-> OneOf(Before(k))] /\ At' = [k \in Keys |-> OneOf(After(k))]
    BY TableIs
  <2> HIDE DEF Before, After
  <2>8. CASE r.kind = "direct"
    <3>1. r.key \in Keys /\ r.key # NoKey
      BY <1>1, <1>2, <2>8, KeyOfOpening
    <3>2. Before(r.key) = {} /\ After(r.key) = {n}
      BY <1>4, <2>0, <2>7, <2>8, <3>1 DEF Conflicts
    <3>3. n \in 1 .. MaxThreads /\ n \notin Used /\ At[r.key] = 0
      BY <2>1, <2>2, <2>3, <2>10, <3>1, <3>2, BoundsAssumption DEF Used, OneOf
    <3>4. At' = [At EXCEPT ![r.key] = n]
      <4>1. \A k \in Keys : OneOf(After(k)) = IF k = r.key THEN n ELSE OneOf(Before(k))
        <5>1. OneOf({n}) = n
          BY DEF OneOf
        <5>2. \A k \in Keys : k # r.key => After(k) = Before(k)
          BY <2>7
        <5> QED
          BY <3>2, <5>1, <5>2
      <4> QED
        BY <2>10, <4>1
    <3>5. Used' = Used \cup {n}
      BY <2>2, <2>5, <2>8 DEF Used, Direct
    <3>6. Tellings' = [Tellings EXCEPT ![w] = <<r.key, n>>]
      BY <1>2, <2>4, <2>6, <2>3, <3>1 DEF Tellings, Holds
    <3>7. Directory!Open(w, r.key, n)
      BY <3>3, <3>4, <3>5, <3>6 DEF Directory!Open, At, Used, Tellings
    <3> QED
      BY <3>1, <3>3, <3>7 DEF Directory!DNext
  <2>9. CASE r.kind # "direct"
    <3>1. At' = At
      BY <2>7, <2>9, <2>10
    <3>2. Used' = Used
      BY <2>2, <2>5, <2>9 DEF Used, Direct
    <3>3. r.key = NoKey
      BY <1>2, <2>9 DEF Opening
    <3>4. Told(w)' = Told(w)
      BY <1>1, <2>4, <2>6, <3>3 DEF Holds
    <3> QED
      BY <2>6, <3>1, <3>2, <3>4 DEF Tellings
  <2> QED
    BY <2>8, <2>9
<1> QED
  BY <1>3, <1>4

\* A request that finds, forgets, or goes on with what it holds.
LEMMA ServiceRefines ==
    ASSUME IInv, NEW w \in Workers, ServiceStep(w), Observe
    PROVE  Directory!DNext \/ UNCHANGED <<At, Used, Tellings>>
<1> USE DEF IInv
<1>1. CASE Create(w)
  BY <1>1, CreateRefines
<1>2. CASE ~Create(w)
  <2>1. UNCHANGED <<threads, live>>
    BY <1>2 DEF ServiceStep, BeginOpen, BeginSend, Ask, Lose, Reread, LookUp, Commit, Crash, db
  <2>2. At' = At /\ Used' = Used
    BY <2>1, TableStays
  <2>3. Tellings' = [Tellings EXCEPT ![w] = Told(w)']
    BY Tells
  <2>4. CASE Told(w)' = Told(w)
    BY <2>2, <2>3, <2>4 DEF Tellings
  <2>5. CASE Told(w)' = <<>>
    <3>1. Directory!Forget(w)
      BY <2>2, <2>3, <2>5 DEF Directory!Forget, At, Used, Tellings
    <3> QED
      BY <3>1 DEF Directory!DNext
  <2>6. CASE Finds(w)
    <3>1. PICK k \in Keys : Standing(k) # {} /\ Told(w)' = <<k, Stands(k)>>
      BY <2>6 DEF Finds
    <3>2. Stands(k) # 0
      BY <3>1, StandsIsUnique
    <3>3. Directory!Find(w, k)
      BY <2>2, <2>3, <3>1, <3>2 DEF Directory!Find, At, Used, Tellings
    <3> QED
      BY <3>3 DEF Directory!DNext
  <2> QED
    BY <2>1, <2>4, <2>5, <2>6, RequestHolds
<1> QED
  BY <1>1, <1>2

\* A row that is deleted frees its key, and no other.
LEMMA RemoveRefines ==
    ASSUME IInv, NEW i \in DOMAIN threads, Remove(i)
    PROVE  Directory!DNext \/ UNCHANGED <<At, Used, Tellings>>
<1> USE DEF IInv
<1>1. threads' = threads /\ live' = live \ {i} /\ i \in live /\ req' = req
  BY DEF Remove
<1>2. Used' = Used /\ Tellings' = Tellings
  BY <1>1 DEF Used, Direct, Tellings, Told
<1> DEFINE Before(k) == Under(k, threads, live)
           After(k)  == Under(k, threads', live')
<1>3. \A k \in Keys : After(k) = Before(k) \ {i}
  BY <1>1 DEF Under
<1>4. \A k : Standing(k) = Before(k)
  BY TableIs
<1>5. At = [k \in Keys |-> OneOf(Before(k))] /\ At' = [k \in Keys |-> OneOf(After(k))]
  BY TableIs
<1> HIDE DEF Before, After
<1>6. CASE Direct(threads[i])
  <2> DEFINE key == threads[i].key
  <2>1. key \in Keys /\ i \in Standing(key)
    BY <1>1, <1>6, KeyOfRow DEF Standing
  <2>2. Standing(key) = {i} /\ \A k \in Keys : k # key => i \notin Standing(k)
    BY <2>1, StandsIsUnique DEF Standing
  <2> HIDE DEF key
  <2>3. \A k \in Keys : OneOf(After(k)) = IF k = key THEN 0 ELSE OneOf(Before(k))
    <3>1. After(key) = {}
      BY <1>3, <1>4, <2>1, <2>2
    <3>2. \A k \in Keys : k # key => After(k) = Before(k)
      BY <1>3, <1>4, <2>2
    <3>3. OneOf({}) = 0
      BY DEF OneOf
    <3> QED
      BY <3>1, <3>2, <3>3
  <2>4. At' = [At EXCEPT ![key] = 0]
    BY <1>5, <2>3
  <2>5. Directory!Remove(key)
    BY <1>2, <2>4 DEF Directory!Remove, At, Used, Tellings
  <2> QED
    BY <2>1, <2>5 DEF Directory!DNext
<1>7. CASE ~Direct(threads[i])
  <2>1. \A k \in Keys : After(k) = Before(k)
    BY <1>3, <1>4, <1>7 DEF Standing
  <2> QED
    BY <1>2, <1>5, <2>1
<1> QED
  BY <1>6, <1>7

(***************************************************************************)
(* Opening is a get-or-create: whatever races, dies or is removed, every   *)
(* step of every request is a step of ThreadDirectory or leaves it alone.  *)
(***************************************************************************)
THEOREM DirectoryRefinement == Spec => ImplementsDirectory
<1>1. IInv /\ [Next]_vars => [Directory!DNext]_(Directory!dvars)
  <2> SUFFICES ASSUME IInv, [Next]_vars
               PROVE  Directory!DNext \/ UNCHANGED <<At, Used, Tellings>>
    BY DEF Directory!dvars, At, Used, Tellings
  <2>1. ASSUME threads' = threads, live' = live, req' = req
        PROVE  UNCHANGED <<At, Used, Tellings>>
    BY <2>1, TableStays DEF Tellings, Told
  <2>2. ASSUME NEW u \in Users, NEW v \in Users, Block(u, v) \/ Unblock(u, v)
        PROVE  UNCHANGED <<At, Used, Tellings>>
    BY <2>1, <2>2 DEF Block, Unblock, db
  <2> QED
    BY <2>1, <2>2, ServiceRefines, RemoveRefines DEF Next, vars
<1> QED
  BY <1>1, DirectoryInit, Invariance, PTL DEF Spec, ImplementsDirectory, Directory!DSpec
===============================================================================
