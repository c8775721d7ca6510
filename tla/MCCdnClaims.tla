---- MODULE MCCdnClaims ----
(***************************************************************************)
(* Two media; two senders whose workers post, delete, erase, remove and    *)
(* backfill at once.                                                       *)
(***************************************************************************)
EXTENDS CdnClaims, TLC

CONSTANTS r1, r2

A(r, t) == [key |-> r, type |-> t]

MCMedia == {r1, r2}
MCWords == {"image", "file", "contact", "bare", "sticker"}

\* A reference told twice, an old client's bare one, no attachment at all, and
\* three lists that are refused.
MCOffers ==
    {<<A(r1, "image"), A(r1, "contact")>>,
     <<A(r1, "file"), A(r2, "bare")>>,
     <<>>,
     <<A(r2, "sticker")>>,
     <<A(NoKey, "image")>>,
     <<A(r1, "file"), A(r1, "file"), A(r2, "file")>>}

MCLegacy == {<<A(r1, "bare"), A(r2, "image")>>}

Symmetry == Permutations(Workers) \cup Permutations(Senders)
====
