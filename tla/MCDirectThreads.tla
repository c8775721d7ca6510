---- MODULE MCDirectThreads ----
(***************************************************************************)
(* Two people and two workers; one subject that is registered and one that *)
(* is not; the four ways a deployment can stand to its block store.        *)
(***************************************************************************)
EXTENDS DirectThreads, TLC

CONSTANTS u1, u2, x, item, junk

Offer(u, kind, ids, subject) ==
    [user |-> u, kind |-> kind, ids |-> ids, scope |-> x, subject |-> subject]

MCOffers ==
    {Offer(u1, "direct", {u2}, NoSubject), Offer(u1, "direct", {u2}, item),
     Offer(u2, "direct", {u1, u2}, NoSubject), Offer(u2, "direct", {u1}, item),
     Offer(u1, "direct", {u2}, junk), Offer(u1, "direct", {u1}, NoSubject),
     Offer(u1, "group", {u1, u2}, item), Offer(u1, "support", {}, NoSubject)}

Thread(kind, members) ==
    [kind |-> kind, scope |-> x, subject |-> NoSubject, members |-> members,
     key |-> IF kind = "direct" THEN <<x, {u1, u2}, NoSubject>> ELSE NoKey]

MCPrior == {Thread("direct", {u1, u2}), Thread("group", {u1, u2}), Thread("support", {u1})}

MCDeployments ==
    {[mode |-> "auto",     reachable |-> TRUE], [mode |-> "auto", reachable |-> FALSE],
     [mode |-> "required", reachable |-> FALSE]}

Symmetry == Permutations(Workers)
====
