---- MODULE MCInbox ----
(***************************************************************************)
(* Three threads, one on a page: one about a subject, one about another,   *)
(* one the viewer has left and whose counterpart has left, too.            *)
(***************************************************************************)
EXTENDS Inbox, TLC

CONSTANTS t1, t2, t3, s1, s2

MCWords ==
    {"hi", "old", "bike", "gone", "rang", "missed", "left", "who", "call", "now", "muted",
     "image", "file", "bare"}
MCNames == t1 :> <<"bob">> @@ t2 :> <<"cat">> @@ t3 :> <<"bob">>
MCSubjectOf == t1 :> s1 @@ t2 :> s2 @@ t3 :> NoSubject
MCTitles == s1 :> <<"bike">> @@ s2 :> <<"bike", "old">>

\* A marker with an argument, a longer one under it, and one whose words are blank.
MCLabels ==
    <<"left">> :> <<"gone">> @@ <<"call">> :> <<"rang">> @@ <<"call", "missed">> :> <<"missed">> @@
    <<"muted">> :> <<>>

W(l, u, n) == [left |-> l, unread |-> u, needle |-> n]
MCWalks ==
    {W(FALSE, FALSE, NoNeedle), W(TRUE, FALSE, NoNeedle), W(FALSE, TRUE, "bob"),
     W(FALSE, FALSE, "gone"), W(FALSE, FALSE, "bike")}

M(who, k, b, as) == [sender |-> who, kind |-> k, body |-> b, atts |-> as]
MCSays ==
    {M("other", "text", <<"hi", "old", "bike">>, <<>>), M("viewer", "text", <<>>, <<"image", "bare", "image">>),
     M(Nobody, "system", <<"call", "missed", "now">>, <<>>), M(Nobody, "system", <<"muted">>, <<>>)}
MCEdits == {<<"gone">>}

Old(n, m, deleted, at) ==
    [seq |-> n, sender |-> m.sender, kind |-> m.kind, body |-> m.body, atts |-> m.atts,
     deleted |-> deleted, at |-> at]
Text(who, b) == M(who, "text", b, <<>>)

\* The last line of t1: words, a tombstone of an older release that kept its
\* words and files, or words whose author is gone.
Lines ==
    {Old(1, Text("other", <<"bike">>), FALSE, 1),
     Old(1, M("other", "text", <<"bike">>, <<"file">>), TRUE, 1),
     Old(1, Text(Nobody, <<"bike">>), FALSE, 1)}

Member(l, c, n) == [left |-> l, cleared |-> c, read |-> n]

MCPrior ==
    {[msgs |-> t1 :> <<line>> @@ t2 :> <<Old(1, Text("viewer", <<"hi">>), FALSE, 2)>> @@
               t3 :> <<Old(1, Text("other", <<"gone">>), FALSE, 3)>>,
      lastSeq |-> t1 :> 1 @@ t2 :> 1 @@ t3 :> 1,
      updated |-> t1 :> 1 @@ t2 :> 2 @@ t3 :> 3,
      member |-> t1 :> Member(0, 0, 0) @@ t2 :> Member(0, 0, 0) @@ t3 :> Member(l, 0, 0),
      otherLeft |-> t1 :> 0 @@ t2 :> 4 @@ t3 :> 0,
      now |-> 5] : line \in Lines, l \in {0, 5}}
====
