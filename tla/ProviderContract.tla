--------------------------- MODULE ProviderContract ---------------------------
(***************************************************************************)
(* What the scheduler relies on when it calls a provider: calls do not     *)
(* overlap, and a call that returns no error and has changed a target      *)
(* reports updated. A call that fails may have changed targets and reports *)
(* nothing reliable. RunSecretsProvider takes one such call as one step    *)
(* (its Outcomes); the provider modules implement it in many.              *)
(***************************************************************************)
VARIABLES
    busy,     \* a call is running
    changed,  \* the running call has changed a target
    ret       \* what the last call returned, "none" while one runs

vars == <<busy, changed, ret>>

Init == busy = FALSE /\ changed = FALSE /\ ret = "none"

Call ==
    /\ ~busy
    /\ busy' = TRUE /\ changed' = FALSE /\ ret' = "none"

ChangeTarget ==
    /\ busy
    /\ changed' = TRUE
    /\ UNCHANGED <<busy, ret>>

Return ==
    /\ busy
    /\ \/ ret' \in {"error", "updated"}
       \/ ret' = "unchanged" /\ ~changed
    /\ busy' = FALSE /\ changed' = FALSE

\* The process ends and a new one starts.
Restart == busy' = FALSE /\ changed' = FALSE /\ ret' = "none"

Next == Call \/ ChangeTarget \/ Return \/ Restart

Spec == Init /\ [][Next]_vars
====
