------------------------------ MODULE AtomicFile ------------------------------
(***************************************************************************)
(* What an atomic writer promises the readers of a file: the file changes  *)
(* only as a whole, to everything that was written and nothing else. The   *)
(* promise ends for a writer that could not discard a write that failed.   *)
(***************************************************************************)
EXTENDS Sequences

CONSTANT Chunks

VARIABLES
    target,   \* what a reader of the file sees
    pending,  \* what was written since the writer was created
    spoiled   \* a write that failed could not be discarded

vars == <<target, pending, spoiled>>

Init == target = <<>> /\ pending = <<>> /\ spoiled = FALSE

Write ==
    /\ \E c \in Chunks : pending' = Append(pending, c)
    /\ UNCHANGED <<target, spoiled>>

\* The writer is closed: the file is replaced.
Commit ==
    /\ spoiled \/ target' = pending
    /\ UNCHANGED <<pending, spoiled>>

Spoil == spoiled' = TRUE /\ UNCHANGED <<target, pending>>

\* The writer is given up, or the process ends, and the next one begins.
Renew == pending' = <<>> /\ spoiled' = FALSE /\ UNCHANGED target

Next == Write \/ Commit \/ Spoil \/ Renew

Spec == Init /\ [][Next]_vars
====
