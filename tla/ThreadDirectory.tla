---------------------------- MODULE ThreadDirectory ----------------------------
(***************************************************************************)
(* What get-or-create promises.  At most one thread stands under a key;    *)
(* whoever is told of a thread is told of the one that stands under the key*)
(* they asked for, at that moment; a thread that is removed never returns. *)
(***************************************************************************)
CONSTANTS
    Keys, Ids, Clients,
    Nothing     \* no thread

VARIABLES
    at,     \* at[k]: the thread that stands under key k
    used,   \* the threads there have ever been
    told    \* told[c]: the key client c asked for and the thread it holds; or <<>>

dvars == <<at, used, told>>

DInit ==
    /\ at \in [Keys -> Ids \cup {Nothing}]
    /\ used = {at[k] : k \in Keys} \ {Nothing}
    /\ told = [c \in Clients |-> <<>>]

Open(c, k, id) ==
    /\ id \notin used /\ at[k] = Nothing
    /\ at' = [at EXCEPT ![k] = id]
    /\ used' = used \cup {id}
    /\ told' = [told EXCEPT ![c] = <<k, id>>]

Find(c, k) ==
    /\ at[k] # Nothing
    /\ told' = [told EXCEPT ![c] = <<k, at[k]>>]
    /\ UNCHANGED <<at, used>>

Forget(c) ==
    /\ told' = [told EXCEPT ![c] = <<>>]
    /\ UNCHANGED <<at, used>>

Remove(k) ==
    /\ at' = [at EXCEPT ![k] = Nothing]
    /\ UNCHANGED <<used, told>>

DNext ==
    \/ \E c \in Clients, k \in Keys : Find(c, k) \/ \E id \in Ids : Open(c, k, id)
    \/ \E c \in Clients : Forget(c)
    \/ \E k \in Keys : Remove(k)

DSpec == DInit /\ [][DNext]_dvars
================================================================================
