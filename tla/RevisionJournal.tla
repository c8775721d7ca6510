--------------------------- MODULE RevisionJournal ---------------------------
(***************************************************************************)
(* What a conversation's journal promises the clients that resume by       *)
(* rev_seq, with every mechanism left out.  There is one head.  A step     *)
(* issues the positions that follow the head, one to each row it creates   *)
(* or rewrites, and touches no other row.  So a row that changed stands    *)
(* above every cursor handed out before the change, and two rows never     *)
(* stand at the same place.                                                *)
(***************************************************************************)
EXTENDS Naturals

VARIABLES
    head,   \* the highest position ever issued
    pos     \* pos[id]: where the newest revision of row id stands

jvars == <<head, pos>>

JInit == head = 0 /\ pos = <<>>

\* The rows of moved are created or rewritten by one transaction.
Move(moved) ==
    /\ moved # {}
    /\ head' \in Nat
    /\ DOMAIN pos' = DOMAIN pos \cup moved
    /\ {pos'[i] : i \in moved} = head + 1 .. head'
    /\ \A i, j \in moved : pos'[i] = pos'[j] => i = j
    /\ \A i \in DOMAIN pos \ moved : pos'[i] = pos[i]

JNext == \E moved \in SUBSET DOMAIN pos' : Move(moved)

JSpec == JInit /\ [][JNext]_jvars

(***************************************************************************)
(* What follows from it, for whoever resumes.                              *)
(***************************************************************************)
\* Every row stands at a place of its own that was issued.
PlacesAreIssuedOnce ==
    /\ \A i \in DOMAIN pos : pos[i] \in 1 .. head
    /\ \A i, j \in DOMAIN pos : pos[i] = pos[j] => i = j

\* A client that held all of the rows p when the head was h: they are still
\* there, and what has changed or come since is what stands above h.
NewsIsAbove(h, p) ==
    /\ DOMAIN p \subseteq DOMAIN pos
    /\ \A i \in DOMAIN pos : pos[i] > h \/ (i \in DOMAIN p /\ pos[i] = p[i])
=============================================================================
