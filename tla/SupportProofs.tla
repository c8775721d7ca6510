----------------------------- MODULE SupportProofs -----------------------------
(***************************************************************************)
(* The support desk, for any operators and any number of request workers:  *)
(* first come is first served, nobody lets themselves in, nobody waits     *)
(* unseen, and the lines of the thread tell what happened to it.           *)
(***************************************************************************)
EXTENDS Support, FiniteSetTheorems, SequenceTheorems, TLAPS

(***************************************************************************)
(* Types.                                                                  *)
(***************************************************************************)
Request == [user : Users \cup {NoUser}, loaded : Users \cup {NoUser},
            move : Markers \cup {"none"},
            answer : {"none", "ok", "taken", "error", "not operator"}]

TypeInv ==
    /\ status \in {"open", "resolved"}
    /\ assigned \in Users \cup {NoUser}
    /\ seat \in [Users -> {"none", "member", "operator"}]
    /\ outbox \in Seq(Users)
    /\ lines \in Seq(Markers) /\ moves \in Seq(Markers)
    /\ blurred \in BOOLEAN
    /\ gone \subseteq leaving
    /\ pc \in [Workers -> {"idle", "assign", "mandate", "set", "tell"}]
    /\ req \in [Workers -> Request]
    /\ saw \in [Workers -> SUBSET {"mandate", "seat", "assigned", "taken"}]

(***************************************************************************)
(* What a request in flight knows: everything that was so of its caller    *)
(* since it began, and with it the authority it acts on.                   *)
(***************************************************************************)
Knows(w) ==
    /\ pc[w] # "idle" => Seen(w) \subseteq saw[w] /\ req[w].user \in Users
    /\ pc[w] = "assign" => /\ "mandate" \in saw[w] /\ req[w].move = "assigned"
                           /\ req[w].user \in mandated \cup revoked \cup gone
    /\ pc[w] = "mandate" => "seat" \in saw[w] /\ req[w].move \in {"resolved", "reopened"}
    /\ pc[w] = "set" => /\ {"mandate", "seat"} \subseteq saw[w]
                        /\ req[w].move \in {"resolved", "reopened"}
    /\ pc[w] = "tell" => /\ req[w].move \in Markers
                         /\ req[w].move = "assigned" => "assigned" \in saw[w]

RequestsInv == \A w \in Workers : Knows(w)

(***************************************************************************)
(* The operator of the thread was the last to be announced, and holds the  *)
(* seat and the mandate, unless the deletion of the account took the one   *)
(* or a revocation the other.                                              *)
(***************************************************************************)
HolderInv ==
    assigned # NoUser =>
       /\ outbox # <<>> /\ outbox[Len(outbox)] = assigned
       /\ seat[assigned] = "operator" \/ assigned \in leaving
       /\ assigned \in mandated \cup revoked

(***************************************************************************)
(* The lines.  Each change is told, or owed by one worker, or lost with    *)
(* one; and as long as no two were owed at once and none was lost, what is *)
(* not told yet is the last change alone.                                  *)
(***************************************************************************)
Owing(m) == {w \in Workers : Owes(w) /\ req[w].move = m}

Covered == \A m \in Markers : Count(lines, m) + Cardinality(Owing(m)) <= Count(moves, m)

InOrder ==
    \/ /\ \A w \in Workers : ~Owes(w)
       /\ lines = moves
    \/ \E w \in Workers :
          /\ Owes(w)
          /\ \A v \in Workers : Owes(v) => v = w
          /\ moves = Append(lines, req[w].move)

ToldBy(s) ==
    IF \E i \in DOMAIN s : s[i] = "resolved" /\
          \A j \in DOMAIN s : j > i => s[j] # "reopened"
    THEN "resolved" ELSE "open"

LinesInv == Covered /\ (~blurred => InOrder) /\ status = ToldBy(moves)

IInv == TypeInv /\ RequestsInv /\ HolderInv /\ LinesInv

(***************************************************************************)
(* Every step is a step of one worker, or of an account, observed by all.  *)
(***************************************************************************)
WorkerStep(w) ==
    \/ \E u \in Users \ gone :
          \/ BeginAssign(w, u)
          \/ \E move \in {"resolved", "reopened"} : BeginTransition(w, u, move)
    \/ Assign(w) \/ AskMandate(w) \/ SetStatus(w) \/ Tell(w) \/ Crash(w)

AccountStep(u) == Revoke(u) \/ Depart(u) \/ RowGoes(u)

\* Whoever steps, everybody observes.
LEMMA Steps == Next => /\ \/ \E w \in Workers : WorkerStep(w)
                          \/ \E u \in Users : AccountStep(u)
                       /\ Observe
  BY DEF Next, WorkerStep, AccountStep

\* A worker without a request.
LEMMA IdleTyped == Idle \in Request
  BY DEF Idle, Request

Places == {"idle", "assign", "mandate", "set", "tell"}

\* The other workers stay where they are.
Alone(w) == \A v \in Workers \ {w} : pc'[v] = pc[v] /\ req'[v] = req[v]

\* Where a worker goes, and what it takes along.
LEMMA GoesTo ==
    ASSUME TypeInv, NEW w \in Workers, NEW r \in Request, NEW place \in Places,
           Goto(w, place, r)
    PROVE  /\ pc' \in [Workers -> Places] /\ req' \in [Workers -> Request]
           /\ pc'[w] = place /\ req'[w] = r
           /\ Alone(w)
  BY DEF TypeInv, Goto, Places, Alone

\* A worker that answers is idle.
LEMMA Answers ==
    ASSUME TypeInv, NEW w \in Workers, NEW r,
           NEW code \in {"none", "ok", "taken", "error", "not operator"},
           Answer(w, r, code)
    PROVE  /\ pc' \in [Workers -> Places] /\ req' \in [Workers -> Request]
           /\ pc'[w] = "idle" /\ req'[w].answer = code
           /\ Alone(w)
<1>1. /\ [Idle EXCEPT !.answer = code] \in Request
      /\ [Idle EXCEPT !.answer = code].answer = code
  BY DEF Idle, Request
<1>2. Goto(w, "idle", [Idle EXCEPT !.answer = code]) /\ "idle" \in Places
  BY DEF Answer, Places
<1> QED
  BY <1>1, <1>2, GoesTo

(***************************************************************************)
(* The steps of a worker, as far as the properties tell them apart.  A     *)
(* worker begins, or goes on, without a change of the thread; it takes the *)
(* thread; it changes the status; it posts its line; or it answers.        *)
(***************************************************************************)
Quiet == UNCHANGED <<status, assigned, seat, outbox, lines, moves, accounts>>

Begins(w) ==
    /\ pc[w] = "idle" /\ Quiet /\ blurred' = blurred
    /\ req'[w].user \in Users
    /\ \/ pc'[w] = "assign" /\ req'[w].move = "assigned" /\ req'[w].user \in mandated
       \/ /\ pc'[w] = "mandate" /\ req'[w].move \in {"resolved", "reopened"}
          /\ seat[req'[w].user] = "operator"

GoesOn(w) ==
    /\ pc[w] = "mandate" /\ Quiet /\ blurred' = blurred
    /\ pc'[w] = "set" /\ req'[w] = req[w] /\ req[w].user \in mandated

Takes(w) ==
    /\ pc[w] = "assign" /\ ~Taken(req[w]) /\ ~Already(req[w]) /\ req[w].user \notin gone
    /\ assigned' = req[w].user /\ seat' = Seated(req[w].user)
    /\ outbox' = Append(outbox, req[w].user)
    /\ moves' = Append(moves, "assigned")
    /\ blurred' = (blurred \/ \E v \in Workers : Owes(v))
    /\ pc'[w] = "tell" /\ req'[w] = req[w]
    /\ UNCHANGED <<status, lines, accounts>>

Keeps(w) ==
    /\ pc[w] = "assign" /\ Already(req[w])
    /\ assigned' = req[w].user /\ seat' = Seated(req[w].user)
    /\ pc'[w] = "idle" /\ req'[w].answer = "ok"
    /\ UNCHANGED <<status, outbox, lines, moves, blurred, accounts>>

Sets(w) ==
    /\ pc[w] = "set"
    /\ status' = IF req[w].move = "resolved" THEN "resolved" ELSE "open"
    /\ moves' = Append(moves, req[w].move)
    /\ blurred' = (blurred \/ \E v \in Workers : Owes(v))
    /\ pc'[w] = "tell" /\ req'[w] = req[w]
    /\ UNCHANGED <<assigned, seat, outbox, lines, accounts>>

Posts(w) ==
    /\ Owes(w)
    /\ lines' = Append(lines, req[w].move)
    /\ pc'[w] = "idle" /\ req'[w].answer = "ok"
    /\ UNCHANGED <<status, assigned, seat, outbox, moves, blurred, accounts>>

GivesUp(w) ==
    /\ Quiet /\ pc'[w] = "idle" /\ req'[w].answer # "ok"
    /\ blurred' = (blurred \/ Owes(w))
    /\ req'[w].answer = "taken" => pc[w] = "assign" /\ Taken(req[w])

WorkerMoves(w) ==
    /\ \/ Begins(w) \/ GoesOn(w) \/ Takes(w) \/ Keeps(w) \/ Sets(w) \/ Posts(w) \/ GivesUp(w)
    /\ pc' \in [Workers -> Places] /\ req' \in [Workers -> Request]
    /\ Alone(w)

\* What each worker's step does, in one of seven ways.
LEMMA WorkersMove ==
    ASSUME TypeInv, NEW w \in Workers, WorkerStep(w)
    PROVE  WorkerMoves(w)
<1> USE DEF desk, accounts, told
<1>0. /\ req[w] \in Request /\ pc[w] \in Places /\ blurred \in BOOLEAN
      /\ assigned \in Users \cup {NoUser}
  BY DEF TypeInv, Places
<1>1. ASSUME NEW u \in Users \ gone, BeginAssign(w, u) PROVE WorkerMoves(w)
  <2> DEFINE r == [Idle EXCEPT !.user = u, !.loaded = assigned, !.move = "assigned"]
  <2>1. r \in Request /\ r.user = u /\ r.move = "assigned"
    BY <1>0 DEF Idle, Request, Markers
  <2> HIDE DEF r
  <2>2. CASE MayOperate(u)
    <3>1. Goto(w, "assign", r) /\ "assign" \in Places
      BY <1>1, <2>2 DEF BeginAssign, r, Places
    <3> QED
      BY <1>1, <2>1, <2>2, <3>1, GoesTo DEF BeginAssign, WorkerMoves, Begins, Quiet, MayOperate
  <2>3. CASE ~MayOperate(u)
    <3>1. Answer(w, r, "not operator")
      BY <1>1, <2>3 DEF BeginAssign, r
    <3> QED
      BY <1>0, <1>1, <3>1, Answers DEF BeginAssign, WorkerMoves, GivesUp, Quiet, Owes
  <2> QED
    BY <2>2, <2>3
<1>2. ASSUME NEW u \in Users \ gone, NEW move \in {"resolved", "reopened"},
             BeginTransition(w, u, move)
      PROVE  WorkerMoves(w)
  <2> DEFINE r == [Idle EXCEPT !.user = u, !.loaded = assigned, !.move = move]
  <2>1. r \in Request /\ r.user = u /\ r.move = move
    BY <1>0 DEF Idle, Request, Markers
  <2> HIDE DEF r
  <2>2. CASE HasRole(u)
    <3>1. Goto(w, "mandate", r) /\ "mandate" \in Places
      BY <1>2, <2>2 DEF BeginTransition, r, Places
    <3> QED
      BY <1>2, <2>1, <2>2, <3>1, GoesTo DEF BeginTransition, WorkerMoves, Begins, Quiet, HasRole
  <2>3. CASE ~HasRole(u)
    <3>1. Answer(w, r, "not operator")
      BY <1>2, <2>3 DEF BeginTransition, r
    <3> QED
      BY <1>0, <1>2, <3>1, Answers DEF BeginTransition, WorkerMoves, GivesUp, Quiet, Owes
  <2> QED
    BY <2>2, <2>3
<1>3. CASE Assign(w)
  <2>1. CASE Taken(req[w]) /\ Answer(w, req[w], "taken") /\ UNCHANGED <<desk, moves, blurred>>
    BY <1>0, <1>3, <2>1, Answers DEF Assign, WorkerMoves, GivesUp, Quiet, Owes
  <2>2. CASE Answer(w, req[w], "error") /\ UNCHANGED <<desk, moves, blurred>>
    BY <1>0, <1>3, <2>2, Answers DEF Assign, WorkerMoves, GivesUp, Quiet, Owes
  <2>3. CASE ~Taken(req[w]) /\ assigned' = req[w].user /\ seat' = Seated(req[w].user) /\ status' = status
             /\ Already(req[w]) /\ Answer(w, req[w], "ok") /\ UNCHANGED <<outbox, moves, blurred>>
    BY <1>0, <1>3, <2>3, Answers DEF Assign, WorkerMoves, Keeps
  <2>4. CASE /\ ~Taken(req[w]) /\ req[w].user \notin gone /\ assigned' = req[w].user /\ seat' = Seated(req[w].user) /\ status' = status
             /\ ~Already(req[w]) /\ outbox' = Append(outbox, req[w].user)
             /\ moves' = Append(moves, "assigned")
             /\ blurred' = (blurred \/ \E v \in Workers : Owes(v))
             /\ Goto(w, "tell", req[w])
    BY <1>0, <1>3, <2>4, GoesTo DEF Assign, WorkerMoves, Takes, Places
  <2> QED
    BY <1>3, <2>1, <2>2, <2>3, <2>4 DEF Assign
<1>4. CASE AskMandate(w)
  <2>1. CASE MayOperate(req[w].user)
    BY <1>0, <1>4, <2>1, GoesTo
       DEF AskMandate, WorkerMoves, GoesOn, Quiet, MayOperate, Places
  <2>2. CASE ~MayOperate(req[w].user)
    BY <1>0, <1>4, <2>2, Answers DEF AskMandate, WorkerMoves, GivesUp, Quiet, Owes
  <2> QED
    BY <2>1, <2>2
<1>5. CASE SetStatus(w)
  BY <1>0, <1>5, GoesTo DEF SetStatus, WorkerMoves, Sets, Places
<1>6. CASE Tell(w)
  BY <1>0, <1>6, Answers DEF Tell, WorkerMoves, Posts, Line
<1>7. CASE Crash(w)
  <2>1. Goto(w, "idle", Idle) /\ "idle" \in Places /\ Idle.answer = "none"
    BY <1>7 DEF Crash, Places, Idle
  <2> QED
    BY <1>0, <1>7, <2>1, GoesTo, IdleTyped DEF Crash, WorkerMoves, GivesUp, Quiet
<1> QED
  BY <1>1, <1>2, <1>3, <1>4, <1>5, <1>6, <1>7 DEF WorkerStep

(***************************************************************************)
(* Types.                                                                  *)
(***************************************************************************)
LEMMA TypeInit == Init => TypeInv
<1> SUFFICES ASSUME Init PROVE TypeInv
  OBVIOUS
<1>1. req \in [Workers -> Request]
  BY IdleTyped DEF Init
<1>2. outbox \in Seq(Users) /\ lines \in Seq(Markers) /\ moves \in Seq(Markers)
  BY DEF Init
<1>3. seat \in [Users -> {"none", "member", "operator"}]
  BY DEF Init
<1> QED
  BY <1>1, <1>2, <1>3 DEF Init, TypeInv

\* Every request in flight has seen what is so of its caller.
LEMMA Observed ==
    ASSUME TypeInv, Observe
    PROVE  /\ saw' \in [Workers -> SUBSET {"mandate", "seat", "assigned", "taken"}]
           /\ \A v \in Workers : pc'[v] # "idle" => /\ saw[v] \subseteq saw'[v]
                                                    /\ Seen(v)' \subseteq saw'[v]
<1>1. \A v \in Workers : Seen(v)' \subseteq {"mandate", "seat", "assigned", "taken"}
  BY DEF Seen
<1>2. saw' = [v \in Workers |-> IF pc'[v] = "idle" THEN {} ELSE saw[v] \cup Seen(v)']
  BY DEF Observe
<1>3. saw \in [Workers -> SUBSET {"mandate", "seat", "assigned", "taken"}]
  BY DEF TypeInv
<1> HIDE DEF Seen
<1> QED
  BY <1>1, <1>2, <1>3

\* Types are preserved by every step.
LEMMA TypeStep == TypeInv /\ RequestsInv /\ [Next]_vars => TypeInv'
<1> SUFFICES ASSUME TypeInv, RequestsInv, [Next]_vars PROVE TypeInv'
  OBVIOUS
<1>1. CASE UNCHANGED vars
  BY <1>1 DEF vars, TypeInv
<1>2. ASSUME NEW w \in Workers, WorkerStep(w), Observe PROVE TypeInv'
  <2>1. WorkerMoves(w) /\ saw' \in [Workers -> SUBSET {"mandate", "seat", "assigned", "taken"}]
    BY <1>2, WorkersMove, Observed
  <2>2. req[w] \in Request /\ Knows(w) /\ blurred \in BOOLEAN
    BY DEF TypeInv, RequestsInv
  <2>3. blurred' \in BOOLEAN
    BY <2>1, <2>2 DEF WorkerMoves, Begins, GoesOn, Takes, Keeps, Sets, Posts, GivesUp, Owes
  <2>4. CASE Begins(w) \/ GoesOn(w) \/ GivesUp(w)
    BY <2>1, <2>3, <2>4
       DEF WorkerMoves, Begins, GoesOn, GivesUp, Quiet, accounts, TypeInv, Places
  <2>5. CASE Takes(w) \/ Keeps(w)
    <3>1. req[w].user \in Users
      BY <2>2, <2>5 DEF Takes, Keeps, Knows
    <3>2. seat' \in [Users -> {"none", "member", "operator"}]
      BY <2>5, <3>1 DEF Takes, Keeps, Seated, TypeInv
    <3>3. outbox' \in Seq(Users) /\ moves' \in Seq(Markers)
      <4>1. /\ outbox \in Seq(Users) /\ moves \in Seq(Markers)
            /\ Append(outbox, req[w].user) \in Seq(Users)
            /\ Append(moves, "assigned") \in Seq(Markers)
        BY <3>1 DEF TypeInv, Markers
      <4> QED
        BY <2>5, <4>1 DEF Takes, Keeps
    <3> QED
      BY <2>1, <2>3, <2>5, <3>1, <3>2, <3>3
         DEF WorkerMoves, Takes, Keeps, accounts, TypeInv, Places
  <2>6. CASE Sets(w) \/ Posts(w)
    <3>1. req[w].move \in Markers
      BY <2>2, <2>6 DEF Sets, Posts, Knows, Owes, Markers
    <3>2. lines' \in Seq(Markers) /\ moves' \in Seq(Markers)
      <4>1. /\ lines \in Seq(Markers) /\ moves \in Seq(Markers)
            /\ Append(lines, req[w].move) \in Seq(Markers)
            /\ Append(moves, req[w].move) \in Seq(Markers)
        BY <3>1 DEF TypeInv
      <4> QED
        BY <2>6, <4>1 DEF Sets, Posts
    <3> QED
      BY <2>1, <2>3, <2>6, <3>2 DEF WorkerMoves, Sets, Posts, accounts, TypeInv, Places
  <2> QED
    BY <2>1, <2>4, <2>5, <2>6 DEF WorkerMoves
<1>3. ASSUME NEW u \in Users, AccountStep(u), Observe PROVE TypeInv'
  <2>1. saw' \in [Workers -> SUBSET {"mandate", "seat", "assigned", "taken"}]
    BY <1>3, Observed
  <2>2. CASE Revoke(u)
    BY <2>1, <2>2 DEF Revoke, desk, told, TypeInv
  <2>3. CASE Depart(u)
    BY <2>1, <2>3 DEF Depart, told, TypeInv
  <2>4. CASE RowGoes(u)
    BY <2>1, <2>4 DEF RowGoes, told, TypeInv
  <2> QED
    BY <1>3, <2>2, <2>3, <2>4 DEF AccountStep
<1> QED
  BY <1>1, <1>2, <1>3, Steps

(***************************************************************************)
(* What the requests in flight know.                                       *)
(***************************************************************************)
LEMMA RequestsInit == Init => RequestsInv
  BY DEF Init, RequestsInv, Knows

\* What a request knows stays known, whoever steps.
LEMMA RequestsStep == TypeInv /\ RequestsInv /\ [Next]_vars => RequestsInv'
<1> SUFFICES ASSUME TypeInv, RequestsInv, [Next]_vars PROVE RequestsInv'
  OBVIOUS
<1>1. CASE UNCHANGED vars
  BY <1>1 DEF vars, RequestsInv, Knows, Seen
<1>2. ASSUME NEW v \in Workers, Observe, pc'[v] = pc[v], req'[v] = req[v],
             mandated \cup revoked \cup gone \subseteq mandated' \cup revoked' \cup gone'
      PROVE  Knows(v)'
  <2>1. pc'[v] # "idle" => saw[v] \subseteq saw'[v] /\ Seen(v)' \subseteq saw'[v]
    BY <1>2, Observed
  <2>2. Knows(v)
    BY DEF RequestsInv
  <2> HIDE DEF Seen
  <2> QED
    BY <1>2, <2>1, <2>2 DEF Knows
<1>3. ASSUME NEW w \in Workers, WorkerStep(w), Observe PROVE RequestsInv'
  <2>1. WorkerMoves(w) /\ Knows(w)
    BY <1>3, WorkersMove DEF RequestsInv
  <2>2. pc'[w] # "idle" => saw[w] \subseteq saw'[w] /\ Seen(w)' \subseteq saw'[w]
    BY <1>3, Observed
  <2>3. Knows(w)'
    <3>1. CASE pc'[w] = "idle"
      BY <3>1 DEF Knows
    <3>2. CASE Begins(w)
      <4>1. /\ req'[w].user \in mandated' => "mandate" \in Seen(w)'
            /\ seat'[req'[w].user] = "operator" => "seat" \in Seen(w)'
        BY DEF Seen
      <4> HIDE DEF Seen
      <4> QED
        BY <2>2, <3>2, <4>1 DEF Begins, Quiet, accounts, Knows
    <3>3. CASE GoesOn(w)
      <4>1. req'[w].user \in mandated' => "mandate" \in Seen(w)'
        BY DEF Seen
      <4> HIDE DEF Seen
      <4> QED
        BY <2>1, <2>2, <3>3, <4>1 DEF GoesOn, Quiet, accounts, Knows
    <3>4. CASE Takes(w)
      <4>1. assigned' = req'[w].user => "assigned" \in Seen(w)'
        BY DEF Seen
      <4> HIDE DEF Seen
      <4> QED
        BY <2>1, <2>2, <3>4, <4>1 DEF Takes, Knows, Markers
    <3>5. CASE Sets(w)
      <4> HIDE DEF Seen
      <4> QED
        BY <2>1, <2>2, <3>5 DEF Sets, Knows, Markers
    <3> QED
      BY <2>1, <3>1, <3>2, <3>3, <3>4, <3>5 DEF WorkerMoves, Keeps, Posts, GivesUp
  <2>4. \A v \in Workers \ {w} : Knows(v)'
    <3>1. UNCHANGED accounts
      BY <2>1 DEF WorkerMoves, Begins, GoesOn, Takes, Keeps, Sets, Posts, GivesUp, Quiet
    <3> QED
      BY <1>2, <1>3, <2>1, <3>1 DEF WorkerMoves, Alone, accounts
  <2> QED
    BY <2>3, <2>4 DEF RequestsInv
<1>4. ASSUME NEW u \in Users, AccountStep(u), Observe PROVE RequestsInv'
  BY <1>2, <1>4 DEF AccountStep, Revoke, Depart, RowGoes, RequestsInv
<1> QED
  BY <1>1, <1>3, <1>4, Steps

(***************************************************************************)
(* The operator of the thread.                                             *)
(***************************************************************************)
LEMMA HolderInit == Init => HolderInv
  BY DEF Init, HolderInv

\* The operator was announced and sits, whoever steps.
LEMMA HolderStep == TypeInv /\ RequestsInv /\ HolderInv /\ [Next]_vars => HolderInv'
<1> SUFFICES ASSUME TypeInv, RequestsInv, HolderInv, [Next]_vars PROVE HolderInv'
  OBVIOUS
<1> USE DEF HolderInv
<1>1. CASE UNCHANGED vars
  BY <1>1 DEF vars
<1>2. ASSUME NEW w \in Workers, WorkerStep(w) PROVE HolderInv'
  <2>1. WorkerMoves(w) /\ Knows(w)
    BY <1>2, WorkersMove DEF RequestsInv
  <2>2. CASE Takes(w)
    <3>1. req[w].user \in Users
      BY <2>1, <2>2 DEF Takes, Knows
    <3>2. outbox' # <<>> /\ outbox'[Len(outbox')] = req[w].user
      BY <2>2, <3>1 DEF Takes, TypeInv
    <3>3. seat'[req[w].user] = "operator"
      BY <2>2, <3>1 DEF Takes, Seated, TypeInv
    <3>4. req[w].user \in mandated' \cup revoked'
      BY <2>1, <2>2 DEF Takes, Knows, accounts
    <3> QED
      BY <2>2, <3>2, <3>3, <3>4 DEF Takes
  <2>3. CASE Keeps(w)
    <3>1. req[w].user \in Users /\ assigned = req[w].user
      BY <2>1, <2>3 DEF Keeps, Knows, Already
    <3>2. seat'[req[w].user] = "operator"
      BY <2>3, <3>1 DEF Keeps, Seated, TypeInv
    <3> QED
      BY <2>3, <3>1, <3>2 DEF Keeps, accounts
  <2> QED
    BY <2>1, <2>2, <2>3
       DEF WorkerMoves, Begins, GoesOn, Sets, Posts, GivesUp, Quiet, accounts
<1>3. ASSUME NEW u \in Users, AccountStep(u) PROVE HolderInv'
  <2>1. CASE Revoke(u)
    BY <2>1 DEF Revoke, desk
  <2>2. CASE Depart(u)
    BY <2>2 DEF Depart, TypeInv
  <2>3. CASE RowGoes(u)
    BY <2>3 DEF RowGoes, TypeInv
  <2> QED
    BY <1>3, <2>1, <2>2, <2>3 DEF AccountStep
<1> QED
  BY <1>1, <1>2, <1>3, Steps

(***************************************************************************)
(* The lines: counting them, and what they tell, one more at a time.       *)
(***************************************************************************)
LEMMA CountNat ==
    ASSUME NEW s \in Seq(Markers), NEW m
    PROVE  /\ IsFiniteSet({i \in DOMAIN s : s[i] = m}) /\ Count(s, m) \in Nat
<1>1. DOMAIN s = 1 .. Len(s) /\ Len(s) \in Nat
  OBVIOUS
<1>2. IsFiniteSet(1 .. Len(s))
  BY <1>1, FS_Interval
<1> QED
  BY <1>1, <1>2, FS_Subset, FS_CardinalityType DEF Count

\* One more line counts for its own marker alone.
LEMMA CountAppend ==
    ASSUME NEW s \in Seq(Markers), NEW x \in Markers, NEW m
    PROVE  Count(Append(s, x), m) = Count(s, m) + (IF x = m THEN 1 ELSE 0)
<1> DEFINE A == {i \in DOMAIN s : s[i] = m}
           B == {i \in DOMAIN Append(s, x) : Append(s, x)[i] = m}
           n == Len(s) + 1
<1>1. IsFiniteSet(A) /\ Cardinality(A) \in Nat
  BY CountNat DEF Count
<1>2. n \notin A
  BY DEF A
<1>3. Count(s, m) = Cardinality(A) /\ Count(Append(s, x), m) = Cardinality(B)
  BY DEF Count
<1>4. CASE x = m
  <2>1. B = A \cup {n}
    BY <1>4
  <2> HIDE DEF A, B, n
  <2> QED
    BY <1>1, <1>2, <1>3, <1>4, <2>1, FS_AddElement
<1>5. CASE x # m
  <2>1. B = A
    BY <1>5
  <2> HIDE DEF A, B
  <2> QED
    BY <1>1, <1>3, <1>5, <2>1
<1> QED
  BY <1>4, <1>5

\* The last change of status is the status; an assignment tells nothing of it.
LEMMA ToldByAppend ==
    ASSUME NEW s \in Seq(Markers), NEW x \in Markers
    PROVE  ToldBy(Append(s, x)) = IF x = "assigned" THEN ToldBy(s)
                                  ELSE IF x = "resolved" THEN "resolved" ELSE "open"
<1> DEFINE t == Append(s, x)
           R(q, i) == q[i] = "resolved" /\ \A j \in DOMAIN q : j > i => q[j] # "reopened"
<1>1. /\ Len(s) \in Nat /\ DOMAIN s = 1 .. Len(s) /\ DOMAIN t = 1 .. Len(s) + 1
      /\ t[Len(s) + 1] = x /\ \A i \in DOMAIN s : t[i] = s[i]
  OBVIOUS
<1> HIDE DEF t
<1>2. \A q : ToldBy(q) = IF \E i \in DOMAIN q : R(q, i) THEN "resolved" ELSE "open"
  BY DEF ToldBy
<1>3. CASE x = "assigned"
  <2>1. \A i \in DOMAIN s : R(t, i) <=> R(s, i)
    BY <1>1, <1>3
  <2>2. ~R(t, Len(s) + 1)
    BY <1>1, <1>3
  <2>3. (\E i \in DOMAIN t : R(t, i)) <=> (\E i \in DOMAIN s : R(s, i))
    <3> HIDE DEF R
    <3> QED
      BY <1>1, <2>1, <2>2
  <2> QED
    BY <1>2, <1>3, <2>3 DEF t
<1>4. CASE x = "resolved"
  <2>1. Len(s) + 1 \in DOMAIN t /\ R(t, Len(s) + 1)
    BY <1>1, <1>4
  <2> QED
    BY <1>2, <1>4, <2>1 DEF t
<1>5. CASE x = "reopened"
  <2>1. \A i \in DOMAIN t : ~R(t, i)
    BY <1>1, <1>5
  <2> QED
    BY <1>2, <1>5, <2>1 DEF t
<1> QED
  BY <1>3, <1>4, <1>5 DEF Markers

(***************************************************************************)
(* Who owes a line.                                                        *)
(***************************************************************************)
LEMMA OwingFinite == \A m : IsFiniteSet(Owing(m)) /\ Cardinality(Owing(m)) \in Nat
<1> TAKE m
<1>1. Owing(m) \subseteq Workers
  BY DEF Owing
<1> QED
  BY <1>1, WorkersAssumption, FS_Subset, FS_CardinalityType

\* A worker that told its line owes none of it.
LEMMA OwesNoMore ==
    ASSUME NEW w \in Workers, Alone(w), pc'[w] # "tell", NEW m
    PROVE  Owing(m)' = Owing(m) \ {w}
  BY DEF Owing, Owes, Alone

\* A worker that changed the thread owes one line of it.
LEMMA OwesOne ==
    ASSUME NEW w \in Workers, Alone(w), pc[w] # "tell", pc'[w] = "tell", NEW m
    PROVE  /\ Owing(m)' = IF req'[w].move = m THEN Owing(m) \cup {w} ELSE Owing(m)
           /\ w \notin Owing(m)
  BY DEF Owing, Owes, Alone

\* At first there is nothing to tell.
LEMMA LinesInit == Init => LinesInv
<1> SUFFICES ASSUME Init PROVE LinesInv
  OBVIOUS
<1>1. Covered
  <2>1. \A m : Owing(m) = {} /\ {i \in DOMAIN lines : lines[i] = m} = {}
                            /\ {i \in DOMAIN moves : moves[i] = m} = {}
    BY DEF Init, Owing, Owes
  <2> QED
    BY <2>1, FS_EmptySet DEF Covered, Count
<1>2. InOrder
  BY DEF Init, InOrder, Owes
<1>3. status = ToldBy(moves)
  BY DEF Init, ToldBy
<1> QED
  BY <1>1, <1>2, <1>3 DEF LinesInv

\* No step tells more lines than were moved.
LEMMA CoveredStep ==
    ASSUME TypeInv, RequestsInv, Covered, NEW w \in Workers, WorkerMoves(w)
    PROVE  Covered'
<1> SUFFICES ASSUME NEW m \in Markers
             PROVE  Count(lines', m) + Cardinality(Owing(m)') <= Count(moves', m)
  BY DEF Covered, Count
<1>0. /\ Knows(w) /\ Alone(w) /\ lines \in Seq(Markers) /\ moves \in Seq(Markers)
      /\ Count(lines, m) + Cardinality(Owing(m)) <= Count(moves, m)
  BY DEF RequestsInv, WorkerMoves, TypeInv, Covered
<1>1. /\ Count(lines, m) \in Nat /\ Count(moves, m) \in Nat
      /\ IsFiniteSet(Owing(m)) /\ Cardinality(Owing(m)) \in Nat
  BY <1>0, CountNat, OwingFinite
<1>2. /\ Cardinality(Owing(m) \ {w}) \in Nat
      /\ Cardinality(Owing(m) \ {w}) =
            IF w \in Owing(m) THEN Cardinality(Owing(m)) - 1 ELSE Cardinality(Owing(m))
  BY <1>1, FS_RemoveElement, FS_CardinalityType
<1>3. CASE Takes(w) \/ Sets(w)
  <2>1. /\ req[w].move \in Markers /\ req'[w].move = req[w].move
        /\ pc[w] # "tell" /\ pc'[w] = "tell"
        /\ lines' = lines /\ moves' = Append(moves, req[w].move)
    BY <1>0, <1>3 DEF Takes, Sets, Knows, Markers
  <2>2. Count(moves', m) = Count(moves, m) + (IF req[w].move = m THEN 1 ELSE 0)
    BY <1>0, <2>1, CountAppend
  <2>3. Cardinality(Owing(m)') = Cardinality(Owing(m)) + (IF req[w].move = m THEN 1 ELSE 0)
    <3>1. /\ Owing(m)' = IF req'[w].move = m THEN Owing(m) \cup {w} ELSE Owing(m)
          /\ w \notin Owing(m)
      BY <1>0, <2>1, OwesOne
    <3>2. Cardinality(Owing(m) \cup {w}) = Cardinality(Owing(m)) + 1
      BY <1>1, <3>1, FS_AddElement
    <3> QED
      BY <1>1, <2>1, <3>1, <3>2
  <2> QED
    BY <1>0, <1>1, <2>1, <2>2, <2>3
<1>4. CASE Posts(w)
  <2>1. /\ req[w].move \in Markers /\ pc'[w] # "tell"
        /\ moves' = moves /\ lines' = Append(lines, req[w].move)
        /\ w \in Owing(m) <=> req[w].move = m
    BY <1>0, <1>4 DEF Posts, Knows, Owes, Owing
  <2>2. Count(lines', m) = Count(lines, m) + (IF req[w].move = m THEN 1 ELSE 0)
    BY <1>0, <2>1, CountAppend
  <2>3. Owing(m)' = Owing(m) \ {w}
    BY <1>0, <2>1, OwesNoMore
  <2> QED
    BY <1>0, <1>1, <1>2, <2>1, <2>2, <2>3
<1>5. CASE Begins(w) \/ GoesOn(w) \/ Keeps(w) \/ GivesUp(w)
  <2>1. lines' = lines /\ moves' = moves /\ pc'[w] # "tell"
    BY <1>5 DEF Begins, GoesOn, Keeps, GivesUp, Quiet
  <2>2. Owing(m)' = Owing(m) \ {w}
    BY <1>0, <2>1, OwesNoMore
  <2> QED
    BY <1>0, <1>1, <1>2, <2>1, <2>2
<1> QED
  BY <1>3, <1>4, <1>5 DEF WorkerMoves

\* As long as nothing is blurred, the lines stay in order.
LEMMA OrderStep ==
    ASSUME TypeInv, RequestsInv, ~blurred => InOrder, NEW w \in Workers, WorkerMoves(w)
    PROVE  ~blurred' => InOrder'
<1> SUFFICES ASSUME ~blurred' PROVE InOrder'
  OBVIOUS
<1>0. Knows(w) /\ Alone(w)
  BY DEF RequestsInv, WorkerMoves
<1>1. CASE Takes(w) \/ Sets(w)
  <2>1. ~blurred /\ \A v \in Workers : ~Owes(v)
    BY <1>1 DEF Takes, Sets
  <2>2. lines' = moves
    BY <1>1, <2>1 DEF InOrder, Takes, Sets
  <2>3. moves' = Append(lines', req'[w].move)
    BY <1>0, <1>1, <2>2 DEF Takes, Sets, Knows
  <2>4. Owes(w)' /\ \A v \in Workers : Owes(v)' => v = w
    BY <1>0, <1>1, <2>1 DEF Takes, Sets, Owes, Alone
  <2> QED
    BY <2>3, <2>4 DEF InOrder
<1>2. CASE Posts(w)
  <2>1. InOrder /\ Owes(w)
    BY <1>2 DEF Posts
  <2>2. /\ \A v \in Workers : Owes(v) => v = w
        /\ moves = Append(lines, req[w].move)
    BY <2>1 DEF InOrder
  <2>3. \A v \in Workers : ~Owes(v)'
    BY <1>0, <1>2, <2>2 DEF Posts, Owes, Alone
  <2> QED
    BY <1>2, <2>2, <2>3 DEF Posts, InOrder
<1>3. CASE Begins(w) \/ GoesOn(w) \/ Keeps(w) \/ GivesUp(w)
  <2>1. /\ InOrder /\ ~Owes(w) /\ ~Owes(w)'
        /\ lines' = lines /\ moves' = moves
    BY <1>3 DEF Begins, GoesOn, Keeps, GivesUp, Quiet, Owes
  <2>2. \A v \in Workers : /\ Owes(v)' <=> Owes(v)
                           /\ Owes(v) => req'[v] = req[v]
    BY <1>0, <2>1 DEF Owes, Alone
  <2> QED
    BY <2>1, <2>2 DEF InOrder
<1> QED
  BY <1>1, <1>2, <1>3 DEF WorkerMoves

\* The three parts of the lines together.
LEMMA LinesStep == TypeInv /\ RequestsInv /\ LinesInv /\ [Next]_vars => LinesInv'
<1> SUFFICES ASSUME TypeInv, RequestsInv, LinesInv, [Next]_vars PROVE LinesInv'
  OBVIOUS
<1>1. ASSUME UNCHANGED <<status, told, pc, req>> PROVE LinesInv'
  BY <1>1 DEF told, LinesInv, Covered, InOrder, ToldBy, Owing, Owes, Count
<1>2. ASSUME NEW w \in Workers, WorkerStep(w) PROVE LinesInv'
  <2>1. WorkerMoves(w)
    BY <1>2, WorkersMove
  <2>2. Covered' /\ (~blurred' => InOrder')
    BY <2>1, CoveredStep, OrderStep DEF LinesInv
  <2>3. status' = ToldBy(moves')
    <3>1. Knows(w) /\ moves \in Seq(Markers) /\ status = ToldBy(moves)
      BY DEF RequestsInv, TypeInv, LinesInv
    <3>2. CASE Takes(w)
      BY <3>1, <3>2, ToldByAppend DEF Takes, Markers
    <3>3. CASE Sets(w)
      <4>1. req[w].move \in {"resolved", "reopened"} /\ req[w].move \in Markers
        BY <3>1, <3>3 DEF Sets, Knows, Markers
      <4> QED
        BY <3>1, <3>3, <4>1, ToldByAppend DEF Sets
    <3> QED
      BY <2>1, <3>1, <3>2, <3>3
         DEF WorkerMoves, Begins, GoesOn, Keeps, Posts, GivesUp, Quiet
  <2>4. ToldBy(moves') = ToldBy(moves)'
    BY DEF ToldBy
  <2> QED
    BY <2>2, <2>3, <2>4 DEF LinesInv
<1> QED
  BY <1>1, <1>2, Steps DEF vars, told, AccountStep, Revoke, Depart, RowGoes, desk

(***************************************************************************)
(* The inductive invariant.                                                *)
(***************************************************************************)
LEMMA Inductive == Spec => []IInv
<1>1. Init => IInv
  BY TypeInit, RequestsInit, HolderInit, LinesInit DEF IInv
<1>2. IInv /\ [Next]_vars => IInv'
  BY TypeStep, RequestsStep, HolderStep, LinesStep DEF IInv
<1> QED
  BY <1>1, <1>2, PTL DEF Spec

(***************************************************************************)
(* The thread tells what happened to it: no line without its change, and   *)
(* every change in its order unless a worker died owing a line or two      *)
(* owed one at once.                                                       *)
(***************************************************************************)
THEOREM TheThreadTellsItsStory == Spec => []LinesTellMoves
<1>1. IInv => LinesTellMoves
  <2> SUFFICES ASSUME IInv PROVE LinesTellMoves
    OBVIOUS
  <2>1. \A m \in Markers : Count(lines, m) <= Count(moves, m)
    <3> TAKE m \in Markers
    <3>1. Count(lines, m) \in Nat /\ Count(moves, m) \in Nat /\ Cardinality(Owing(m)) \in Nat
      BY CountNat, OwingFinite DEF IInv, TypeInv
    <3> QED
      BY <3>1 DEF IInv, LinesInv, Covered
  <2>2. ASSUME ~blurred, \A w \in Workers : ~Owes(w)
        PROVE  lines = moves /\ status = StatusTold
    <3>1. lines = moves
      BY <2>2 DEF IInv, LinesInv, InOrder
    <3> QED
      BY <3>1 DEF IInv, LinesInv, ToldBy, StatusTold
  <2> QED
    BY <2>1, <2>2 DEF LinesTellMoves
<1> QED
  BY <1>1, Inductive, PTL

(***************************************************************************)
(* Nobody waits unseen: an active thread is in the queue, or has an        *)
(* operator who was announced and has the seat and the mandate, but for    *)
(* the seat of an account that is going and a mandate that was revoked.    *)
(***************************************************************************)
THEOREM TheQueueSeesAll == Spec => []NobodyWaitsUnseen
<1>1. IInv => NobodyWaitsUnseen
  BY DEF IInv, TypeInv, HolderInv, NobodyWaitsUnseen, InQueue, Seatless, Mandateless
<1> QED
  BY <1>1, Inductive, PTL

(***************************************************************************)
(* First come, first served: a thread passes to another only when its      *)
(* operator's row is gone, each new claim is announced once, and what the  *)
(* losers and the winners are answered was so during their requests.       *)
(***************************************************************************)
THEOREM FirstComeIsFirst == Spec => FirstComeFirstServed
<1> DEFINE Claims ==
      /\ assigned' # assigned => assigned = NoUser \/ assigned \in gone'
      /\ outbox' = IF assigned' \in {assigned, NoUser} THEN outbox
                   ELSE Append(outbox, assigned')
      /\ \A w \in Workers :
            pc'[w] = "idle" /\ pc[w] # "idle" /\ req[w].move = "assigned" =>
               /\ req'[w].answer = "taken" => "taken" \in saw[w]
               /\ req'[w].answer = "ok" => "assigned" \in saw[w] \/ assigned' = req[w].user
<1>1. IInv /\ [Next]_vars => [Claims]_vars
  <2> SUFFICES ASSUME IInv, Next PROVE Claims
    OBVIOUS
  <2>1. ASSUME NEW w \in Workers, WorkerStep(w) PROVE Claims
    <3>1. WorkerMoves(w) /\ Knows(w)
      BY <2>1, WorkersMove DEF IInv, RequestsInv
    <3>2. \A v \in Workers : pc'[v] = "idle" /\ pc[v] # "idle" => v = w
      BY <3>1 DEF WorkerMoves, Alone
    <3>3. CASE Takes(w)
      <4>1. req[w].user \in Users /\ req[w].user # NoUser
        BY <3>1, <3>3, UsersAssumption DEF Takes, Knows
      <4> QED
        BY <3>2, <3>3, <4>1 DEF Takes, Taken, Already
    <3>4. CASE Keeps(w)
      BY <3>2, <3>4 DEF Keeps, Already
    <3>5. CASE Posts(w)
      BY <3>1, <3>2, <3>5 DEF Posts, Owes, Knows
    <3>6. CASE GivesUp(w)
      <4>1. pc[w] = "assign" /\ Taken(req[w]) => "taken" \in saw[w]
        BY <3>1 DEF Knows, Seen, Taken
      <4> QED
        BY <3>2, <3>6, <4>1 DEF GivesUp, Quiet
    <3>7. CASE Begins(w) \/ GoesOn(w) \/ Sets(w)
      BY <3>2, <3>7 DEF Begins, GoesOn, Sets, Quiet
    <3> QED
      BY <3>1, <3>3, <3>4, <3>5, <3>6, <3>7 DEF WorkerMoves
  <2>2. ASSUME NEW u \in Users, AccountStep(u) PROVE Claims
    BY <2>2 DEF AccountStep, Revoke, Depart, RowGoes, desk
  <2> QED
    BY <2>1, <2>2, Steps
<1> QED
  BY <1>1, Inductive, PTL DEF Spec, FirstComeFirstServed

(***************************************************************************)
(* Nobody lets themselves in: a seat is minted for a caller who held the   *)
(* mandate during the request, and the status is changed by one who held   *)
(* the mandate and the seat.                                               *)
(***************************************************************************)
THEOREM AuthorityIsFirst == Spec => AuthorityComesFirst
<1> DEFINE Authority ==
      \A w \in Workers :
         /\ pc[w] = "assign" /\ pc'[w] # "assign" /\ seat' # seat => "mandate" \in saw[w]
         /\ pc[w] = "set" /\ pc'[w] = "tell" => {"mandate", "seat"} \subseteq saw[w]
<1>1. IInv => Authority
  BY DEF IInv, RequestsInv, Knows
<1> QED
  BY <1>1, Inductive, PTL DEF Spec, AuthorityComesFirst

================================================================================
