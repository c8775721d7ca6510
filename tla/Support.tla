-------------------------------- MODULE Support --------------------------------
(***************************************************************************)
(* One support thread at the desk: operators who claim it, resolve it and  *)
(* reopen it, by request workers that interleave and may die.              *)
(*                                                                         *)
(* Only assign_operator takes the lock of the thread; a change of status   *)
(* saves what its view loaded; and the system line that tells of either is *)
(* a transaction of its own, after the change.  Mandates come and go, and  *)
(* an account that is deleted loses its seats before its user row goes.    *)
(***************************************************************************)
EXTENDS Integers, Sequences, FiniteSets

CONSTANTS
    Users, Customer,
    Workers,
    NoUser,
    MaxMoves,       \* bound: assignments and changes of status
    MaxRevoked,     \* bound: mandates that are ever revoked
    MaxDeleted      \* bound: accounts that are ever deleted

ASSUME UsersAssumption == Customer \in Users /\ NoUser \notin Users
ASSUME WorkersAssumption == IsFiniteSet(Workers)
ASSUME BoundsAssumption == {MaxMoves, MaxRevoked, MaxDeleted} \subseteq Nat

VARIABLES
    status,     \* support_status
    assigned,   \* assigned_operator
    seat,       \* the role of each user's participant row, or "none"
    outbox,     \* chat.support.assigned events: the operators they name
    lines,      \* the system lines of the thread
    mandated,   \* whom can_operate admits
    revoked,    \* whose mandate was revoked
    leaving,    \* accounts whose seats the deletion removed
    gone,       \* accounts whose user rows went too
    pc, req,    \* the workers
    moves,      \* history: what happened to the thread, as its lines would tell it
    blurred,    \* history: a worker died owing a line, or two owed one at once
    saw         \* history: what was so of the caller at some moment of each request

desk     == <<status, assigned, seat, outbox>>
accounts == <<mandated, revoked, leaving, gone>>
told     == <<lines, moves, blurred>>
vars     == <<status, assigned, seat, outbox, lines, mandated, revoked, leaving, gone,
              pc, req, moves, blurred, saw>>

Markers  == {"assigned", "resolved", "reopened"}

\* What a worker holds: the caller, the operator the view loaded, and the move to make.
Idle == [user |-> NoUser, loaded |-> NoUser, move |-> "none", answer |-> "none"]

(***************************************************************************)
(* Mistakes the properties at the end must notice.                         *)
(***************************************************************************)
\* First-come is judged by the thread the view loaded.
JudgedByView(r) == r.loaded \notin {NoUser, r.user}
\* Both changes of status are told by the same line.
SameLine(move) == IF move = "reopened" THEN "resolved" ELSE move
\* A participant row that exists keeps its role.
RoleIsKept(u) == [seat EXCEPT ![u] = IF @ = "none" THEN "operator" ELSE @]
\* The participant row is enough.
RowIsEnough(u) == TRUE

(***************************************************************************)
(* The checks.                                                             *)
(***************************************************************************)
\* _may_operate: the provider's answer, before anything is written.
MayOperate(u) == u \in mandated

\* The role a change of status asks for.
HasRole(u) == seat[u] = "operator"

\* Refused: somebody else was first.
Taken(r) == assigned \notin {NoUser, r.user}

Already(r) == assigned = r.user

\* update_or_create of the operator's participant row.
Seated(u) == [seat EXCEPT ![u] = "operator"]

\* The queue: support_queue.
InQueue == assigned = NoUser /\ status \in {"open", "pending"}

(***************************************************************************)
(* A worker and its request.                                               *)
(***************************************************************************)
Goto(w, place, r) ==
    /\ pc' = [pc EXCEPT ![w] = place]
    /\ req' = [req EXCEPT ![w] = r]

Answer(w, r, code) == Goto(w, "idle", [Idle EXCEPT !.answer = code])

Owes(w) == pc[w] = "tell"

(***************************************************************************)
(* SupportAssignView.post and assign_operator.                             *)
(***************************************************************************)
BeginAssign(w, u) ==
    LET r == [Idle EXCEPT !.user = u, !.loaded = assigned, !.move = "assigned"] IN
    /\ pc[w] = "idle"
    /\ IF MayOperate(u) THEN Goto(w, "assign", r) ELSE Answer(w, r, "not operator")
    /\ UNCHANGED <<desk, accounts, told>>

\* An account whose row is gone cannot be written into the thread.
Assign(w) ==
    LET r == req[w] IN
    /\ pc[w] = "assign"
    /\ \/ Taken(r) /\ Answer(w, r, "taken") /\ UNCHANGED <<desk, moves, blurred>>
       \/ /\ ~Taken(r) /\ r.user \in gone
          /\ Answer(w, r, "error") /\ UNCHANGED <<desk, moves, blurred>>
       \/ /\ ~Taken(r) /\ r.user \notin gone
          /\ assigned' = r.user
          /\ seat' = Seated(r.user)
          /\ IF Already(r)
             THEN Answer(w, r, "ok") /\ UNCHANGED <<outbox, moves, blurred>>
             ELSE /\ Len(moves) < MaxMoves
                  /\ outbox' = Append(outbox, r.user)
                  /\ moves' = Append(moves, "assigned")
                  /\ blurred' = (blurred \/ \E v \in Workers : Owes(v))
                  /\ Goto(w, "tell", r)
          /\ UNCHANGED status
    /\ UNCHANGED <<accounts, lines>>

(***************************************************************************)
(* Resolve and reopen: the role the view read, the mandate, the save of a  *)
(* row that is not locked.                                                 *)
(***************************************************************************)
BeginTransition(w, u, move) ==
    LET r == [Idle EXCEPT !.user = u, !.loaded = assigned, !.move = move] IN
    /\ pc[w] = "idle"
    /\ IF HasRole(u) THEN Goto(w, "mandate", r) ELSE Answer(w, r, "not operator")
    /\ UNCHANGED <<desk, accounts, told>>

AskMandate(w) ==
    LET r == req[w] IN
    /\ pc[w] = "mandate"
    /\ IF MayOperate(r.user) THEN Goto(w, "set", r) ELSE Answer(w, r, "not operator")
    /\ UNCHANGED <<desk, accounts, told>>

SetStatus(w) ==
    LET r == req[w] IN
    /\ pc[w] = "set"
    /\ Len(moves) < MaxMoves
    /\ status' = IF r.move = "resolved" THEN "resolved" ELSE "open"
    /\ moves' = Append(moves, r.move)
    /\ blurred' = (blurred \/ \E v \in Workers : Owes(v))
    /\ Goto(w, "tell", r)
    /\ UNCHANGED <<assigned, seat, outbox, accounts, lines>>

(***************************************************************************)
(* The line is posted in a transaction of its own.                         *)
(***************************************************************************)
Line(move) == move

Tell(w) ==
    /\ Owes(w)
    /\ lines' = Append(lines, Line(req[w].move))
    /\ Answer(w, req[w], "ok")
    /\ UNCHANGED <<desk, accounts, moves, blurred>>

\* A worker dies, or the scope provider could not be asked: 503.
Crash(w) ==
    /\ pc[w] # "idle"
    /\ blurred' = (blurred \/ Owes(w))
    /\ Goto(w, "idle", Idle)
    /\ UNCHANGED <<desk, accounts, lines, moves>>

(***************************************************************************)
(* Mandates and accounts, which other modules and services keep.           *)
(***************************************************************************)
Revoke(u) ==
    /\ u \in mandated /\ Cardinality(revoked) < MaxRevoked
    /\ mandated' = mandated \ {u}
    /\ revoked' = revoked \cup {u}
    /\ UNCHANGED <<desk, told, leaving, gone, pc, req>>

\* user.deleted: the participant rows of the account go.
Depart(u) ==
    /\ u \notin leaving /\ Cardinality(leaving) < MaxDeleted
    /\ leaving' = leaving \cup {u}
    /\ seat' = [seat EXCEPT ![u] = "none"]
    /\ UNCHANGED <<status, assigned, outbox, told, mandated, revoked, gone, pc, req>>

\* on_delete: the user row goes, and with it the assignment and a seat taken since.
RowGoes(u) ==
    /\ u \in leaving \ gone
    /\ gone' = gone \cup {u}
    /\ mandated' = mandated \ {u}
    /\ assigned' = IF assigned = u THEN NoUser ELSE assigned
    /\ seat' = [seat EXCEPT ![u] = "none"]
    /\ UNCHANGED <<status, outbox, told, revoked, leaving, pc, req>>

(***************************************************************************)
(* The specification.                                                      *)
(***************************************************************************)
\* What is so of the caller of w at this moment.
Seen(w) ==
    LET u == req[w].user IN
    {fact \in {"mandate", "seat", "assigned", "taken"} :
        \/ fact = "mandate"  /\ u \in mandated
        \/ fact = "seat"     /\ seat[u] = "operator"
        \/ fact = "assigned" /\ assigned = u
        \/ fact = "taken"    /\ assigned \notin {NoUser, u}}

Observe ==
    saw' = [w \in Workers |->
               IF pc'[w] = "idle" THEN {} ELSE saw[w] \cup Seen(w)']

Init ==
    /\ status = "open" /\ assigned = NoUser /\ outbox = <<>> /\ lines = <<>>
    /\ seat = [u \in Users |-> IF u = Customer THEN "member" ELSE "none"]
    /\ mandated \in SUBSET Users /\ revoked = {}
    /\ leaving = {} /\ gone = {}
    /\ pc = [w \in Workers |-> "idle"]
    /\ req = [w \in Workers |-> Idle]
    /\ moves = <<>> /\ blurred = FALSE
    /\ saw = [w \in Workers |-> {}]

Next ==
    /\ \/ \E w \in Workers :
             \/ \E u \in Users \ gone :
                   \/ BeginAssign(w, u)
                   \/ \E move \in {"resolved", "reopened"} : BeginTransition(w, u, move)
             \/ Assign(w) \/ AskMandate(w) \/ SetStatus(w) \/ Tell(w) \/ Crash(w)
       \/ \E u \in Users : Revoke(u) \/ Depart(u) \/ RowGoes(u)
    /\ Observe

Spec == Init /\ [][Next]_vars

(***************************************************************************)
(* Properties.                                                             *)
(***************************************************************************)
(***************************************************************************)
(* First come, first served.  Two operators who press "take" in the same   *)
(* second: a thread that has an operator never passes to another while the *)
(* first has an account, and every claim that is new, and no other, is     *)
(* announced by one event that names its operator.  Who is told that the   *)
(* thread is taken had somebody before them at some moment of the request, *)
(* and who is told it is theirs had it at one.                             *)
(***************************************************************************)
FirstComeFirstServed ==
    [][/\ assigned' # assigned => assigned = NoUser \/ assigned \in gone'
       /\ outbox' = IF assigned' \in {assigned, NoUser} THEN outbox
                    ELSE Append(outbox, assigned')
       /\ \A w \in Workers :
             pc'[w] = "idle" /\ pc[w] # "idle" /\ req[w].move = "assigned" =>
                /\ req'[w].answer = "taken" => "taken" \in saw[w]
                /\ req'[w].answer = "ok" => "assigned" \in saw[w] \/ assigned' = req[w].user]_vars

(***************************************************************************)
(* Nobody lets themselves in.  A seat of an operator is minted only for a  *)
(* caller who held the mandate at some moment of that request, and the     *)
(* status is changed only by one who held the mandate and the seat: the row*)
(* a claim writes never stands in for the authority to claim.              *)
(***************************************************************************)
AuthorityComesFirst ==
    [][\A w \in Workers :
          /\ pc[w] = "assign" /\ pc'[w] # "assign" /\ seat' # seat => "mandate" \in saw[w]
          /\ pc[w] = "set" /\ pc'[w] = "tell" => {"mandate", "seat"} \subseteq saw[w]]_vars

(***************************************************************************)
(* The thread tells what happened to it.  No line is posted that no change *)
(* earned; and unless a worker died owing its line, or two owed one at the *)
(* same time, the lines tell the changes in their order, once nobody owes  *)
(* one, and the last tells the status.                                     *)
(***************************************************************************)
Count(s, m) == Cardinality({i \in DOMAIN s : s[i] = m})

StatusTold ==
    IF \E i \in DOMAIN lines : lines[i] = "resolved" /\
          \A j \in DOMAIN lines : j > i => lines[j] # "reopened"
    THEN "resolved" ELSE "open"

LinesTellMoves ==
    /\ \A m \in Markers : Count(lines, m) <= Count(moves, m)
    /\ ~blurred /\ (\A w \in Workers : ~Owes(w)) => lines = moves /\ status = StatusTold

(***************************************************************************)
(* Nobody waits unseen.  An active thread is listed in the queue, or has   *)
(* an operator who was the last to be announced, and who can act: resolve  *)
(* and reopen ask for the seat and for the mandate.  Of the two, only what *)
(* was taken from the operator since is missing, the seat by the deletion  *)
(* of the account, until the user row goes, the mandate by a revocation.   *)
(* Nothing returns a thread to the queue when the mandate of its operator  *)
(* is revoked: that customer does wait, and no other operator can claim it.*)
(***************************************************************************)
Seatless(u)    == seat[u] # "operator"
Mandateless(u) == u \notin mandated

NobodyWaitsUnseen ==
    status # "resolved" =>
       \/ InQueue
       \/ /\ assigned # NoUser /\ outbox # <<>> /\ outbox[Len(outbox)] = assigned
          /\ Seatless(assigned) => assigned \in leaving
          /\ Mandateless(assigned) => assigned \in revoked
================================================================================
