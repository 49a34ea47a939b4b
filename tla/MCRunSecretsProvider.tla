--------------------------- MODULE MCRunSecretsProvider ---------------------------
(***************************************************************************)
(* RunSecretsProvider for TLC: the configurations that the runs consider.  *)
(***************************************************************************)
EXTENDS RunSecretsProvider

Unlimited == -1  \* the default retry limit of a standalone process

\* A process that is neither killed nor asked to quit.
Steady(mode, limit, periodic, informer) ==
    [mode |-> mode, retryEnabled |-> TRUE, retryCountLimit |-> limit,
     periodic |-> periodic, informer |-> informer, canQuit |-> FALSE, restarts |-> FALSE]

\* One that is killed and restarted at any point.
Restarted(c) == [c EXCEPT !.restarts = TRUE]
\* One that also receives a value on ProviderQuit.
Quitting(c) == [c EXCEPT !.canQuit = TRUE]
WithoutRetry(c) == [c EXCEPT !.retryEnabled = FALSE]

\* An application container; a sidecar with no, one and both background
\* goroutines; a standalone process, which has a server, with one and with both.
SafetyConfigs ==
    {Restarted(Steady("application", 2, FALSE, FALSE)),
     Restarted(Steady("sidecar", 2, FALSE, FALSE)),
     Quitting(Restarted(Steady("sidecar", 2, TRUE, FALSE))),
     Steady("sidecar", 1, TRUE, TRUE),
     Quitting(Restarted(Steady("standalone", 1, FALSE, TRUE))),
     Steady("standalone", 0, TRUE, TRUE)}

\* An init container with the default five retries, a standalone process that
\* follows edits, a sidecar whose two goroutines fail at the same time.
LiveConfigs ==
    {Restarted(Steady("init", 5, FALSE, FALSE)),
     Steady("standalone", Unlimited, FALSE, TRUE),
     WithoutRetry(Steady("sidecar", 0, TRUE, TRUE))}

\* A standalone process that nobody stops.
StandaloneConfigs == {Steady("standalone", Unlimited, TRUE, TRUE)}
====
