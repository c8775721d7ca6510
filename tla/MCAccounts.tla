------------------------------ MODULE MCAccounts ------------------------------
(***************************************************************************)
(* Accounts for TLC: a guest, the survivor, and one counterparty whose     *)
(* account is deleted.  What they said before is a choice of the four      *)
(* threads they may have had; one more thread, message, read, deletion or  *)
(* edit comes while the events are handled.                                *)
(***************************************************************************)
EXTENDS Accounts, TLC

CONSTANTS guest, survivor, other, c

Pair(u, v, last) ==
    [NewThread("direct", {u, v}, {u, v}, NoUser) EXCEPT !.last = last]

\* Everybody's room, whose operator is the guest: of which the guest has read more than the survivor.
Room == [people |-> Users, operator |-> guest]
ReadRoom ==
    [NewThread("room", {}, Users, guest) EXCEPT !.last = 3, !.seats[guest] = 2, !.seats[survivor] = 1]

Said4 == (1 :> Pair(guest, other, 2)) @@ (2 :> Pair(survivor, other, 2))
            @@ (3 :> Pair(guest, survivor, 1)) @@ (4 :> ReadRoom)

Line(t, place, u, id) ==
    [thread |-> t, seq |-> place, rev |-> place, author |-> u, cid |-> id, life |-> "live"]
Tombstone(t, place, u) == [Line(t, place, u, NoCid) EXCEPT !.life = "gone"]
Words == <<Line(1, 1, other, c), Line(1, 2, guest, NoCid), Line(2, 1, survivor, c),
           Tombstone(2, 2, other), Line(3, 1, guest, c), Line(4, 1, other, NoCid), Line(4, 2, guest, c),
           Line(4, 3, survivor, NoCid)>>

MCRooms == {Room}
MCHistories ==
    {[threads |-> Restrict(Said4, S),
      rows |-> RestrictValues(Words, LAMBDA m : m.thread \in S)] :
        S \in SUBSET (1 .. 4)}
===============================================================================
