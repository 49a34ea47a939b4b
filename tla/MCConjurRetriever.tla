--------------------------- MODULE MCConjurRetriever ---------------------------
(***************************************************************************)
(* ConjurRetriever for TLC: pages of two variables and a limit of four.    *)
(***************************************************************************)
EXTENDS ConjurRetriever

\* The fifth variable's name has two colons; without them it is the first's.
ColonsInFifth == [v \in Vars |-> IF v = 5 THEN 1 ELSE v]

Url(type, service) == [contains |-> {type}, service |-> service]

\* A list that fits into two pages, one of them full.
Base ==
    [url |-> Url("k8s", "k8s"), requests |-> {All}, v2 |-> TRUE, lookalike |-> FALSE,
     visible |-> {1, 2, 4}, maxChanges |-> 3]

\* Lists of no, one, two and three pages, with both APIs; requests by name; every
\* authenticator, with and without its service id, and none.
RetrieverConfigs ==
    {[Base EXCEPT !.v2 = b, !.visible = S] :
        b \in BOOLEAN, S \in {{}, {1, 2, 4}, {1, 2, 3, 4}, {1, 2, 3, 4, 5}}} \cup
    {[Base EXCEPT !.requests = {{}, {1, 2}, {2, 5}, {5}, {1, Star}}, !.v2 = b, !.lookalike = ~b, !.url = Url("jwt", "jwt")] :
        b \in BOOLEAN} \cup
    {[Base EXCEPT !.requests = {{1, 2}}, !.lookalike = TRUE, !.url = Url(t, s), !.maxChanges = 2] :
        t \in {"iam", "azure", "gcp"}, s \in {"none", "iam", "azure"}} \cup
    {[Base EXCEPT !.url = [contains |-> {}, service |-> "none"]],
     [Base EXCEPT !.lookalike = TRUE, !.maxChanges = 2]}
====
