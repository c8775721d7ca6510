------------------------------- MODULE Presence -------------------------------
(***************************************************************************)
(* One user's presence: the UserPresence row, the sockets that keep it, and*)
(* what the people in the user's conversations were last told.             *)
(*                                                                         *)
(* on_connect and on_disconnect are not transactions: each statement of    *)
(* theirs commits on its own, so each is a step here, and the announcement *)
(* after them is one more.  A socket runs its own calls one after another; *)
(* different sockets run on different workers.                             *)
(*                                                                         *)
(* Instants are kept relative to the present, in ticks: onlineUntil counts *)
(* down to the end of the lease and below, lastSeen and the ages count up. *)
(* Beyond the caps no comparison in the code can tell two values apart.    *)
(***************************************************************************)
EXTENDS Integers, FiniteSets

CONSTANTS
    Sockets,            \* the sockets the user may have open
    Ttl,                \* PRESENCE_TTL_S
    Throttle,           \* PRESENCE_WRITE_THROTTLE_S
    Interval,           \* presence_touch_interval_s, the guard of one socket
    Heartbeat,          \* ticks an open socket is silent at most
    CallTicks,          \* bound: ticks one presence call takes at most
    MaxConnections,     \* bound: no socket opens once the counter is here
    MayFail,            \* TRUE if the statements of a call may fail
    MayCrash            \* TRUE if workers may be killed

\* The boot check on the two windows, and calls shorter than a lease.
ASSUME WindowsAssumption ==
    /\ Ttl \in Nat /\ Throttle \in Nat /\ Throttle < Ttl
    /\ Interval \in Nat /\ Heartbeat \in Nat
    /\ CallTicks \in Nat /\ CallTicks < Ttl
    /\ MaxConnections \in Nat
ASSUME SocketsAssumption == IsFiniteSet(Sockets)
ASSUME FailureAssumption == MayFail \in BOOLEAN /\ MayCrash \in BOOLEAN

VARIABLES
    known,          \* the UserPresence row exists
    connections,    \* its connections
    onlineUntil,    \* its online_until
    lastSeen,       \* its last_seen_at, as an age
    pc,             \* pc[s]: where socket s is
    age,            \* age[s]: how long ago the running call of s read the clock
    hailing,        \* hailing[s]: the connect call of s found the user offline
    quiet,          \* quiet[s]: ticks since s last passed its touch guard
    told,           \* the last chat.presence.changed frame
    recorded,       \* history: open sockets whose increment was committed
    alone           \* history: ticks since a socket was last open or in a call

row == <<known, connections, onlineUntil, lastSeen>>
presenceVars == <<known, connections, onlineUntil, lastSeen, pc, age, hailing, quiet,
          told, recorded, alone>>

Past  == -CallTicks            \* cap: a lease that ended that long ago or more
Older == Throttle + 1          \* cap: a last_seen_at past the throttle

Connecting == {"connect", "count", "hail"}
Leaving    == {"leave", "look", "expire", "farewell"}

(***************************************************************************)
(* Mistakes the properties at the end must notice.                         *)
(***************************************************************************)
\* The counter is reset by the first socket that closes.
Reset(n) == 0
\* Only the counter says who is online.
CountOnly(count, until) == count > 0
\* A touch never finds the row stale.
NeverDue(seen) == FALSE

(***************************************************************************)
(* The row.                                                                *)
(***************************************************************************)
\* is_online, for a lease with `until' ticks to run.
IsOnline(count, until) == count > 0 /\ until > 0

Online == known /\ IsOnline(connections, onlineUntil)

\* now + PRESENCE_TTL_S for a call that read the clock a ticks ago.
Deadline(a) == Ttl - a

\* The condition of touch: last_seen_at is past the throttle.
Due(seen) == seen > Throttle

\* Greatest(F("connections") - 1, 0).
Fewer(n) == IF n > 0 THEN n - 1 ELSE 0

(***************************************************************************)
(* A socket opens: PresenceMixin.connect, on_connect.                      *)
(***************************************************************************)
Goto(s, place) == pc' = [pc EXCEPT ![s] = place]

Call(s, place) ==
    /\ Goto(s, place)
    /\ age' = [age EXCEPT ![s] = 0]

Open(s) ==
    /\ pc[s] = "closed"
    /\ connections < MaxConnections
    /\ Call(s, "connect")
    /\ quiet' = [quiet EXCEPT ![s] = Interval]
    /\ alone' = 0
    /\ UNCHANGED <<row, hailing, told, recorded>>

\* get_or_create, and is_online for the row it found.
Find(s) ==
    /\ pc[s] = "connect"
    /\ Goto(s, "count")
    /\ hailing' = [hailing EXCEPT ![s] =
                      ~(known /\ IsOnline(connections, onlineUntil + age[s]))]
    /\ known' = TRUE
    /\ IF known
       THEN UNCHANGED <<connections, onlineUntil, lastSeen>>
       ELSE /\ connections' = 0
            /\ onlineUntil' = -age[s]
            /\ lastSeen'    = age[s]
    /\ UNCHANGED <<age, quiet, told, recorded, alone>>

\* The one UPDATE that moves the counter and the lease.
Count(s) ==
    /\ pc[s] = "count"
    /\ Goto(s, IF hailing[s] THEN "hail" ELSE "open")
    /\ connections' = connections + 1
    /\ onlineUntil' = Deadline(age[s])
    /\ lastSeen'    = age[s]
    /\ recorded' = recorded \cup {s}
    /\ UNCHANGED <<known, age, hailing, quiet, told, alone>>

Hail(s) ==
    /\ pc[s] = "hail"
    /\ Goto(s, "open")
    /\ told' = [online |-> TRUE, until |-> Deadline(age[s])]
    /\ UNCHANGED <<row, age, hailing, quiet, recorded, alone>>

(***************************************************************************)
(* An inbound frame passes the guard of its socket: touch, one UPDATE.     *)
(***************************************************************************)
Touch(s) ==
    /\ pc[s] = "open"
    /\ quiet[s] >= Interval
    /\ quiet' = [quiet EXCEPT ![s] = 0]
    /\ IF known /\ Due(lastSeen)
       THEN lastSeen' = 0 /\ onlineUntil' = Ttl
       ELSE UNCHANGED <<lastSeen, onlineUntil>>
    /\ UNCHANGED <<known, connections, pc, age, hailing, told, recorded, alone>>

(***************************************************************************)
(* A socket closes: PresenceMixin.disconnect, on_disconnect.               *)
(***************************************************************************)
Close(s) ==
    /\ pc[s] = "open"
    /\ Call(s, "leave")
    /\ UNCHANGED <<row, hailing, quiet, told, recorded, alone>>

Uncount(s) ==
    /\ pc[s] = "leave"
    /\ IF known
       THEN /\ Goto(s, "look")
            /\ connections' = Fewer(connections)
            /\ lastSeen'    = age[s]
       ELSE Goto(s, "closed") /\ UNCHANGED <<connections, lastSeen>>
    /\ recorded' = recorded \ {s}
    /\ UNCHANGED <<known, onlineUntil, age, hailing, quiet, told, alone>>

\* The row is read again to see whether this was the last connection.
Look(s) ==
    /\ pc[s] = "look"
    /\ Goto(s, IF connections > 0 THEN "closed" ELSE "expire")
    /\ UNCHANGED <<row, age, hailing, quiet, told, recorded, alone>>

Expire(s) ==
    /\ pc[s] = "expire"
    /\ Goto(s, "farewell")
    /\ onlineUntil' = -age[s]
    /\ UNCHANGED <<known, connections, lastSeen, age, hailing, quiet, told, recorded,
                   alone>>

Farewell(s) ==
    /\ pc[s] = "farewell"
    /\ Goto(s, "closed")
    /\ told' = [online |-> FALSE, until |-> -age[s]]
    /\ UNCHANGED <<row, age, hailing, quiet, recorded, alone>>

(***************************************************************************)
(* What goes wrong: the worker of a socket is killed, or a statement of a  *)
(* call raises, which the consumer swallows: a presence failure never      *)
(* touches the socket.                                                     *)
(***************************************************************************)
Crash(s) ==
    /\ MayCrash
    /\ pc[s] # "closed"
    /\ Goto(s, "closed")
    /\ recorded' = recorded \ {s}
    /\ UNCHANGED <<row, age, hailing, quiet, told, alone>>

ConnectFails(s) ==
    /\ MayFail
    /\ pc[s] \in Connecting
    /\ Goto(s, "open")
    /\ UNCHANGED <<row, age, hailing, quiet, told, recorded, alone>>

DisconnectFails(s) ==
    /\ MayFail
    /\ pc[s] \in Leaving
    /\ Goto(s, "closed")
    /\ recorded' = recorded \ {s}
    /\ UNCHANGED <<row, age, hailing, quiet, told, alone>>

TouchFails(s) ==
    /\ MayFail
    /\ pc[s] = "open" /\ quiet[s] >= Interval
    /\ quiet' = [quiet EXCEPT ![s] = 0]
    /\ UNCHANGED <<row, pc, age, hailing, told, recorded, alone>>

(***************************************************************************)
(* Time.  A call ends within CallTicks; an open socket answers the         *)
(* substrate's heartbeat, so its guard is passed in time.                  *)
(***************************************************************************)
Down(t, floor) == IF t > floor THEN t - 1 ELSE floor
Up(t, cap)     == IF t < cap THEN t + 1 ELSE cap

InCall(s) == pc[s] \in Connecting \cup Leaving

Tick ==
    /\ \A s \in Sockets : InCall(s) => age[s] < CallTicks
    /\ \A s \in Sockets : pc[s] = "open" => quiet[s] < Interval + Heartbeat
    /\ onlineUntil' = Down(onlineUntil, Past)
    /\ lastSeen'    = Up(lastSeen, Older)
    /\ told' = [told EXCEPT !.until = Down(@, Past)]
    /\ age'  = [s \in Sockets |-> IF InCall(s) THEN age[s] + 1 ELSE 0]
    /\ quiet' = [s \in Sockets |-> IF pc[s] = "open" THEN quiet[s] + 1 ELSE Interval]
    /\ alone' = IF \E s \in Sockets : pc[s] # "closed" THEN 0 ELSE Up(alone, Ttl)
    /\ UNCHANGED <<known, connections, pc, hailing, recorded>>

(***************************************************************************)
(* The specification.                                                      *)
(***************************************************************************)
PresenceInit ==
    /\ known = FALSE
    /\ connections = 0
    /\ onlineUntil = Past
    /\ lastSeen = Older
    /\ pc      = [s \in Sockets |-> "closed"]
    /\ age     = [s \in Sockets |-> 0]
    /\ hailing = [s \in Sockets |-> FALSE]
    /\ quiet   = [s \in Sockets |-> Interval]
    /\ told    = [online |-> FALSE, until |-> Past]
    /\ recorded = {}
    /\ alone   = Ttl

CallStep(s) ==
    Find(s) \/ Count(s) \/ Hail(s) \/ Uncount(s) \/ Look(s) \/ Expire(s) \/ Farewell(s)

PresenceNext ==
    \/ \E s \in Sockets :
          \/ Open(s) \/ CallStep(s) \/ Touch(s) \/ Close(s)
          \/ Crash(s) \/ ConnectFails(s) \/ DisconnectFails(s) \/ TouchFails(s)
    \/ Tick

PresenceSpec == PresenceInit /\ [][PresenceNext]_presenceVars

\* Clocks run, statements return, and open sockets answer the heartbeat.
Fairness ==
    /\ WF_presenceVars(Tick)
    /\ \A s \in Sockets : WF_presenceVars(CallStep(s)) /\ WF_presenceVars(Touch(s))

FairSpec == PresenceSpec /\ Fairness

(***************************************************************************)
(* Properties.                                                             *)
(***************************************************************************)
\* What somebody who heard the last frame shows, with the deadline in it.
PeersSeeOnline == told.online /\ told.until > 0

(***************************************************************************)
(* A false "online" dies with the lease.  However the sockets went, with   *)
(* counters leaked by killed workers and calls that failed, a lease after  *)
(* the last of them nobody reads or shows the user as online.              *)
(***************************************************************************)
GhostsFade == alone = Ttl => ~Online /\ ~PeersSeeOnline

(***************************************************************************)
(* The counter never falls short.  Every socket whose connect was recorded *)
(* and whose disconnect was not is counted, whatever the interleaving and  *)
(* whoever was killed: the honest direction to be wrong in.                *)
(***************************************************************************)
CountCovers == Cardinality(recorded) <= connections

(***************************************************************************)
(* Who stays is seen.  While a socket stays open and answers heartbeats,   *)
(* the user is online again and again, whatever the other sockets do to    *)
(* the row: no race of theirs takes the user off for good.                 *)
(***************************************************************************)
StayersAreSeen == \A s \in Sockets : <>[](pc[s] = "open") => []<>Online
===============================================================================
