---------------------------- MODULE BatchRetrieval ----------------------------
(***************************************************************************)
(* What the providers rely on when they ask Conjur for a set of variables, *)
(* of which those in denied do not exist or may not be read: the variables *)
(* that are returned, and whether an error says so with status 403 or 404. *)
(* ConjurRetriever shows how the retriever comes to these results.         *)
(***************************************************************************)

\* The V2 API returns what may be read; the V1 API returns all or nothing.
Returned(asked, denied, v2) ==
    IF v2 THEN asked \ denied
    ELSE IF asked \cap denied = {} THEN asked ELSE {}

\* Only the V1 API answers with the status of the first variable it refuses.
StatusError(asked, denied, v2) == ~v2 /\ asked \cap denied # {}
====
