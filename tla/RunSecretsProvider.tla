---------------------------- MODULE RunSecretsProvider ----------------------------
(***************************************************************************)
(* The scheduler of the Secrets Provider: RunSecretsProvider and the two   *)
(* goroutines it starts (periodicSecretProvider and                        *)
(* informerTriggeredProvider), the retry wrapper they share, the readiness *)
(* flag of the HTTP server and the two sentinel files that the application *)
(* container watches.                                                      *)
(*                                                                         *)
(* The provider itself (Kubernetes Secrets or push-to-file) appears as one *)
(* attempt with a contract: an attempt that returns no error and changed a *)
(* target reports updated = TRUE; an attempt that returns an error may     *)
(* have changed some targets already and may report anything.              *)
(***************************************************************************)
EXTENDS Integers, Sequences

CONSTANTS
    Configs,         \* the configurations that are considered
    EventsCap        \* capacity of the InformerEvents channel (10 in the code)

\* What ProviderConfig and the environment settle before the scheduler starts.
ConfigType ==
    [mode            : {"init", "application", "sidecar", "standalone"},
     retryEnabled    : BOOLEAN,  \* RetryInterval > 0: the provider is wrapped
     retryCountLimit : Int,      \* retries per call; negative means unlimited
     periodic        : BOOLEAN,  \* SecretRefreshInterval > 0
     informer        : BOOLEAN,  \* InformerEvents # nil
     canQuit         : BOOLEAN,  \* ProviderQuit is used (tests only)
     restarts        : BOOLEAN]  \* the process is killed and restarted

ASSUME ConfigAssumption == Configs \subseteq ConfigType /\ EventsCap \in Nat \ {0}

VARIABLES
    config,        \* the configuration, chosen once
    pc,            \* where each goroutine stands
    result,        \* what the goroutine's last attempt returned: an error, or
                   \* no error and the value of updated ("none" before it)
    retryCount,    \* limitedBackOff.retryCount, shared by every call
    seen,          \* the retryCount a goroutine read in NextBackOff
    mainErr,       \* err of RunSecretsProvider is not nil
    exit,          \* exit status of the process, "none" while it runs
    ready,         \* Server.isReady
    provided,      \* CONJUR_SECRETS_PROVIDED exists
    updatedFile,   \* CONJUR_SECRETS_UPDATED exists
    tick,          \* a tick waits in ticker.C
    ticking,       \* the ticker runs
    periodicQuit,  \* periodicQuit is closed
    events,        \* InformerEvents: per event, whether it removes keys
    eventCount,    \* 0, 1 or "more than one" (2) events in this batch
    timer,         \* the debounce timer
    maxDelay,      \* informerDebounceMaxDelay has passed since the first event
    keysToRemove,  \* keysToRemoveCumulative is not empty
    app,           \* the application container: waiting or running
    unseen,        \* a target changed since the application last read it
    dirty,         \* a labelled Secret was edited since the last attempt began
    delivered,     \* history: an attempt of this process succeeded
    latest,        \* history: outcome of the most recent attempt
    attempts,      \* history: attempts made by the goroutine's current call
    lossy          \* history: since the application last read the targets, one
                   \* was changed by a failing or an initial attempt, or the
                   \* process ended

procVars  == <<pc, result, seen, mainErr, exit>>
fileVars  == <<provided, updatedFile>>
chanVars  == <<tick, ticking, periodicQuit>>
batchVars == <<eventCount, timer, maxDelay, keysToRemove>>
appVars   == <<app, unseen, lossy>>
histVars  == <<delivered, latest, attempts>>
vars == <<config, procVars, retryCount, ready, fileVars, chanVars, events, batchVars,
          appVars, dirty, histVars>>

-----------------------------------------------------------------------------
Mode            == config.mode
RetryEnabled    == config.retryEnabled
RetryCountLimit == config.retryCountLimit
Periodic        == config.periodic
Informer        == config.informer
CanQuit         == config.canQuit
Restarts        == config.restarts

RunOnce   == Mode \notin {"sidecar", "standalone"}
HasServer == Mode = "standalone"

Callers == {"main", "periodic", "informer"}
Background == {c \in {"periodic", "informer"} :
                 \/ c = "periodic" /\ Periodic
                 \/ c = "informer" /\ Informer}

CallLabels == {"reset", "op", "cleanup", "next", "store", "notify", "sleep", "ready"}
Labels == CallLabels \cup
          {"off", "idle", "status", "send", "done", "gone",
           "copy", "spawn", "wait", "signal", "shutdown", "grace"}

ProcessStart == [c \in Callers |-> IF c = "main" THEN "copy" ELSE "off"]

Init ==
    /\ config \in Configs
    /\ pc = ProcessStart
    /\ result = [c \in Callers |-> "none"]
    /\ seen = [c \in Callers |-> 0]
    /\ mainErr = FALSE /\ exit = "none" /\ retryCount = 0
    /\ ready = FALSE
    /\ provided = FALSE /\ updatedFile = FALSE
    /\ tick = FALSE /\ ticking = FALSE /\ periodicQuit = FALSE
    /\ events = <<>>
    /\ eventCount = 0 /\ timer = "nil" /\ maxDelay = FALSE /\ keysToRemove = FALSE
    /\ app = "waiting" /\ unseen = FALSE /\ lossy = FALSE
    /\ dirty = FALSE
    /\ delivered = FALSE /\ latest = "none"
    /\ attempts = [c \in Callers |-> 0]

Goto(c, label) == pc' = [pc EXCEPT ![c] = label]

\* The process ends, and with it every goroutine, the HTTP server and all that
\* was kept in memory. The sentinel files are on a volume and stay.
Exit(status) ==
    /\ pc' = [c \in Callers |-> "gone"]
    /\ exit' = status
    /\ result' = [c \in Callers |-> "none"]
    /\ seen' = [c \in Callers |-> 0]
    /\ mainErr' = FALSE /\ retryCount' = 0
    /\ ready' = FALSE
    /\ tick' = FALSE /\ ticking' = FALSE /\ periodicQuit' = FALSE
    /\ events' = <<>>
    /\ eventCount' = 0 /\ timer' = "nil" /\ maxDelay' = FALSE /\ keysToRemove' = FALSE
    /\ attempts' = [c \in Callers |-> 0]
    /\ lossy' = (lossy \/ app = "running")

-----------------------------------------------------------------------------
(***************************************************************************)
(* One call of the (wrapped) ProviderFunc by goroutine c. The wrapper runs *)
(* backoff.RetryNotify: Reset, then attempts separated by NextBackOff,     *)
(* notify and a sleep, until one succeeds or NextBackOff returns Stop.     *)
(* Every call uses the same limitedBackOff.                                *)
(***************************************************************************)
CallStart == IF RetryEnabled THEN "reset" ELSE "op"

\* Mutant: Reset forgets the field.
CountNotReset == retryCount
CountAfterReset == 0

\* RetryNotify calls limitedBackOff.Reset().
Reset(c) ==
    /\ pc[c] = "reset"
    /\ retryCount' = CountAfterReset
    /\ Goto(c, "op")
    /\ UNCHANGED <<result, seen, mainErr, exit, ready, fileVars, chanVars, events,
                   batchVars, appVars, config, dirty, histVars>>

\* What an attempt does to the targets and what it returns. The value of
\* updated is looked at only when there is no error.
Outcomes == {o \in [ret : {"error", "unchanged", "updated"}, changed : BOOLEAN] :
                o.changed => o.ret # "unchanged"}

Failed(c) == result[c] = "error"

\* The history counter stops one past the largest number of attempts allowed.
CountAttempt(n) == IF n > RetryCountLimit + 1 /\ n > 1 THEN n ELSE n + 1

Attempt(c, o) ==
    /\ result' = [result EXCEPT ![c] = o.ret]
    /\ unseen' = (unseen \/ (app = "running" /\ o.changed))
    /\ lossy' = (lossy \/ (app = "running" /\ o.changed /\ (o.ret = "error" \/ c = "main")))
    /\ dirty' = FALSE
    /\ delivered' = (delivered \/ o.ret # "error")
    /\ latest' = IF o.ret = "error" THEN "fail" ELSE "ok"
    /\ attempts' = [attempts EXCEPT ![c] = CountAttempt(@)]
    /\ UNCHANGED <<seen, mainErr, exit, retryCount, ready, fileVars, chanVars, events, app,
                   config>>

\* op: updated, retErr = provideSecrets().
Op(c) ==
    /\ pc[c] = "op"
    /\ \E o \in Outcomes :
          /\ Attempt(c, o)
          /\ Goto(c, IF o.ret = "error" /\ RetryEnabled THEN "next" ELSE "ready")
    /\ UNCHANGED batchVars

\* ProvideWithCleanup is called outside the wrapper: a single attempt. The
\* cumulative map is emptied whatever it returns.
Cleanup ==
    /\ pc["informer"] = "cleanup"
    /\ \E o \in Outcomes : Attempt("informer", o)
    /\ Goto("informer", "ready")
    /\ keysToRemove' = FALSE
    /\ UNCHANGED <<eventCount, timer, maxDelay>>

\* Mutant: one retry too many.
StopOffByOne == RetryCountLimit >= 0 /\ retryCount > RetryCountLimit
Stop == RetryCountLimit >= 0 /\ retryCount >= RetryCountLimit

\* NextBackOff, its test: at the limit it returns Stop and RetryNotify gives up.
NextBackOff(c) ==
    /\ pc[c] = "next"
    /\ IF Stop
       THEN /\ Goto(c, "ready")
            /\ seen' = seen
       ELSE /\ Goto(c, "store")
            /\ seen' = [seen EXCEPT ![c] = retryCount]
    /\ UNCHANGED <<result, mainErr, exit, retryCount, ready, fileVars, chanVars, events,
                   batchVars, appVars, config, dirty, histVars>>

\* Mutant: the retry is not counted.
CountUnchanged(c) == {retryCount}

\* retryCount++ is a plain increment of a field that another goroutine may
\* write at the same time: it adds one to the value tested or to a value read
\* again. Without a limit the count is only logged, and is not kept here.
CountsAfterRetry(c) ==
    IF RetryCountLimit < 0 THEN {0} ELSE {seen[c] + 1, retryCount + 1}

\* NextBackOff, the increment.
Increment(c) ==
    /\ pc[c] = "store"
    /\ retryCount' \in CountsAfterRetry(c)
    /\ seen' = [seen EXCEPT ![c] = 0]
    /\ Goto(c, "notify")
    /\ UNCHANGED <<result, mainErr, exit, ready, fileVars, chanVars, events, batchVars,
                   appVars, config, dirty, histVars>>

\* Mutant: onRetry is not passed on.
ReadyKeptOnRetry == ready
\* onRetry is set only when there is an HTTP server.
ReadyAfterRetry == IF HasServer THEN FALSE ELSE ready

\* notify: the callback between two attempts.
Notify(c) ==
    /\ pc[c] = "notify"
    /\ ready' = ReadyAfterRetry
    /\ Goto(c, "sleep")
    /\ UNCHANGED <<result, seen, mainErr, exit, retryCount, fileVars, chanVars, events,
                   batchVars, appVars, config, dirty, histVars>>

\* The retry interval passes.
SleepEnds(c) ==
    /\ pc[c] = "sleep"
    /\ Goto(c, "op")
    /\ UNCHANGED <<result, seen, mainErr, exit, retryCount, ready, fileVars, chanVars,
                   events, batchVars, appVars, config, dirty, histVars>>

CallStep(c) ==
    \/ Reset(c) \/ Op(c) \/ NextBackOff(c) \/ Increment(c) \/ Notify(c) \/ SleepEnds(c)

-----------------------------------------------------------------------------
(***************************************************************************)
(* What a goroutine does with the result of its call.                      *)
(***************************************************************************)
\* Mutant: the error is not looked at.
ReadyAfterAnyCall(c) == IF HasServer THEN TRUE ELSE ready
ReadyAfterCall(c) == IF HasServer THEN ~Failed(c) ELSE ready

\* setReady(err) with the result of the call, a no-op without a server. An
\* init or application container returns on an error before it gets here.
setReady(c) ==
    /\ pc[c] = "ready"
    /\ (c = "main" /\ RunOnce) => ~Failed(c)
    /\ ready' = ReadyAfterCall(c)
    /\ attempts' = [attempts EXCEPT ![c] = 0]
    /\ Goto(c, "status")
    /\ UNCHANGED <<result, seen, mainErr, exit, retryCount, fileVars, chanVars, events,
                   batchVars, appVars, config, dirty, delivered, latest>>

\* setStatus creates the file, then sets its mode; either may fail.
StatusOutcomes == {o \in [created : BOOLEAN, err : BOOLEAN] : ~o.created => o.err}

\* The end of a pass of a background goroutine: the informer goroutine also
\* forgets the batch of events it has served.
PassEnds(c) ==
    /\ result' = [result EXCEPT ![c] = "none"]
    /\ IF c = "informer"
       THEN eventCount' = 0 /\ timer' = "nil" /\ maxDelay' = FALSE /\ UNCHANGED keysToRemove
       ELSE UNCHANGED batchVars

\* Mutant: an update is announced only if the first attempt made it.
SignalUpdateWithoutRetry(c) == result[c] = "updated" /\ retryCount = 0
MustSignalUpdate(c) == result[c] = "updated"

\* A background goroutine that updated a target calls SetSecretsUpdated; an
\* error of the call or of SetSecretsUpdated goes to periodicError.
SetSecretsUpdated(c) ==
    /\ pc[c] = "status" /\ c # "main"
    /\ \E o \in StatusOutcomes :
          LET err == Failed(c) \/ (MustSignalUpdate(c) /\ o.err)
          IN /\ updatedFile' = (updatedFile \/ (MustSignalUpdate(c) /\ o.created))
             /\ Goto(c, IF err THEN "send" ELSE "idle")
             /\ IF err THEN UNCHANGED <<result, batchVars>> ELSE PassEnds(c)
    /\ UNCHANGED <<seen, mainErr, exit, retryCount, ready, provided, chanVars, events,
                   appVars, config, dirty, histVars>>

\* Mutant: every mode drops the error.
ErrorDropped == FALSE
ErrorAfterReceive == Mode # "standalone"

\* periodicError is not buffered: the send completes only together with the
\* receive in RunSecretsProvider, which happens at most once. In standalone
\* mode the error is dropped, but the wait is over all the same.
SendError(c) ==
    /\ pc[c] = "send" /\ pc["main"] = "wait"
    /\ pc' = [pc EXCEPT ![c] = "idle", !["main"] = "shutdown"]
    /\ mainErr' = ErrorAfterReceive
    /\ PassEnds(c)
    /\ UNCHANGED <<seen, exit, retryCount, ready, fileVars, chanVars, events,
                   appVars, config, dirty, histVars>>

-----------------------------------------------------------------------------
(***************************************************************************)
(* RunSecretsProvider itself, the goroutine "main".                        *)
(***************************************************************************)
CopyScripts ==
    /\ pc["main"] = "copy"
    /\ \/ /\ Goto("main", CallStart)
          /\ UNCHANGED <<result, seen, mainErr, exit, retryCount, ready, chanVars, events,
                         batchVars, appVars, attempts>>
       \/ Exit("error")
    /\ UNCHANGED <<fileVars, app, unseen, config, dirty, delivered, latest>>

\* The first call failed in an init or application container.
InitialError ==
    /\ pc["main"] = "ready" /\ RunOnce /\ Failed("main")
    /\ Exit("error")
    /\ UNCHANGED <<fileVars, app, unseen, config, dirty, delivered, latest>>

\* Mutants: the file is created after a failed call, or only after an update.
SignalProvidedAlways == TRUE
SignalProvidedOnUpdate == result["main"] = "updated"
MustSignalProvided == ~Failed("main")

\* SetSecretsProvided runs only if the first call succeeded. An init or
\* application container ends here.
SetSecretsProvided ==
    /\ pc["main"] = "status"
    /\ \E o \in StatusOutcomes :
          LET err == MustSignalProvided /\ o.err
          IN /\ provided' = (provided \/ (MustSignalProvided /\ o.created))
             /\ IF RunOnce
                THEN Exit(IF err THEN "error" ELSE "ok")
                ELSE /\ Goto("main", "spawn")
                     /\ result' = [result EXCEPT !["main"] = "none"]
                     /\ UNCHANGED <<seen, mainErr, exit, retryCount, ready, chanVars,
                                    events, batchVars, lossy, attempts>>
    /\ UNCHANGED <<updatedFile, app, unseen, config, dirty, delivered, latest>>

\* Start the goroutines, then wait for them or, without any, for a signal.
Spawn ==
    /\ pc["main"] = "spawn"
    /\ pc' = [c \in Callers |->
                IF c = "main" THEN IF Background = {} THEN "signal" ELSE "wait"
                ELSE IF c \in Background THEN "idle" ELSE "off"]
    /\ ticking' = Periodic
    /\ UNCHANGED <<result, seen, mainErr, exit, retryCount, ready, fileVars, tick,
                   periodicQuit, events, batchVars, appVars, config, dirty, histVars>>

\* A value arrives on ProviderQuit.
ProviderQuit ==
    /\ CanQuit /\ pc["main"] = "wait"
    /\ Goto("main", "shutdown")
    /\ UNCHANGED <<result, seen, mainErr, exit, retryCount, ready, fileVars, chanVars,
                   events, batchVars, appVars, config, dirty, histVars>>

\* SIGINT, SIGTERM or ProviderQuit while no goroutine runs.
Signalled ==
    /\ pc["main"] = "signal"
    /\ Exit("ok")
    /\ UNCHANGED <<fileVars, app, unseen, config, dirty, delivered, latest>>

\* Stop the ticker and close periodicQuit.
Shutdown ==
    /\ pc["main"] = "shutdown"
    /\ ticking' = FALSE /\ periodicQuit' = TRUE
    /\ Goto("main", "grace")
    /\ UNCHANGED <<result, seen, mainErr, exit, retryCount, ready, fileVars, tick, events,
                   batchVars, appVars, config, dirty, histVars>>

\* The grace period is over; the goroutines are not waited for.
Return ==
    /\ pc["main"] = "grace"
    /\ Exit(IF mainErr THEN "error" ELSE "ok")
    /\ UNCHANGED <<fileVars, app, unseen, config, dirty, delivered, latest>>

MainStep ==
    \/ CallStep("main") \/ setReady("main")
    \/ CopyScripts \/ InitialError \/ SetSecretsProvided \/ Spawn \/ Shutdown \/ Return

-----------------------------------------------------------------------------
(***************************************************************************)
(* The select loops of the two background goroutines.                      *)
(***************************************************************************)
SeeQuit(c) ==
    /\ pc[c] = "idle" /\ periodicQuit
    /\ Goto(c, "done")
    /\ UNCHANGED <<result, seen, mainErr, exit, retryCount, ready, fileVars, chanVars,
                   events, batchVars, appVars, config, dirty, histVars>>

TakeTick ==
    /\ pc["periodic"] = "idle" /\ tick
    /\ tick' = FALSE
    /\ Goto("periodic", CallStart)
    /\ UNCHANGED <<result, seen, mainErr, exit, retryCount, ready, fileVars, ticking,
                   periodicQuit, events, batchVars, appVars, config, dirty, histVars>>

\* runProvideSecrets: with keys to remove the provider is called directly.
runProvideSecrets == Goto("informer", IF keysToRemove' THEN "cleanup" ELSE CallStart)

\* Mutant: the maximum delay is not applied.
NeverRunNow == FALSE
\* time.Since(firstEventTime) >= informerDebounceMaxDelay. The first event of a
\* batch sets firstEventTime, so it never runs at once.
RunNow == eventCount # 0 /\ maxDelay

\* An event restarts the debounce timer, or starts a run at once when the
\* first event of the batch is older than the maximum delay.
TakeEvent ==
    /\ pc["informer"] = "idle" /\ events # <<>>
    /\ events' = Tail(events)
    /\ eventCount' = IF eventCount = 0 THEN 1 ELSE 2
    /\ keysToRemove' = (keysToRemove \/ Head(events))
    /\ IF RunNow
       THEN /\ runProvideSecrets
            /\ timer' = "nil"
       ELSE /\ UNCHANGED pc
            /\ timer' = "armed"
    /\ UNCHANGED <<result, seen, mainErr, exit, retryCount, ready, fileVars, chanVars,
                   maxDelay, appVars, config, dirty, histVars>>

TakeTimer ==
    /\ pc["informer"] = "idle" /\ timer = "fired"
    /\ timer' = "nil"
    /\ UNCHANGED keysToRemove
    /\ runProvideSecrets
    /\ UNCHANGED <<result, seen, mainErr, exit, retryCount, ready, fileVars, chanVars,
                   events, eventCount, maxDelay, appVars, config, dirty, histVars>>

PeriodicStep ==
    \/ CallStep("periodic") \/ setReady("periodic") \/ SetSecretsUpdated("periodic")
    \/ SendError("periodic") \/ SeeQuit("periodic") \/ TakeTick

InformerStep ==
    \/ CallStep("informer") \/ setReady("informer") \/ SetSecretsUpdated("informer")
    \/ SendError("informer") \/ SeeQuit("informer") \/ TakeEvent \/ TakeTimer \/ Cleanup

-----------------------------------------------------------------------------
(***************************************************************************)
(* Time.                                                                   *)
(***************************************************************************)
\* The ticker keeps at most one tick.
Tick ==
    /\ ticking /\ ~tick
    /\ tick' = TRUE
    /\ UNCHANGED <<procVars, retryCount, ready, fileVars, ticking, periodicQuit, events,
                   batchVars, appVars, config, dirty, histVars>>

DebounceExpires ==
    /\ timer = "armed"
    /\ timer' = "fired"
    /\ UNCHANGED <<procVars, retryCount, ready, fileVars, chanVars, events, eventCount,
                   maxDelay, keysToRemove, appVars, config, dirty, histVars>>

MaxDelayPasses ==
    /\ eventCount # 0 /\ ~maxDelay
    /\ maxDelay' = TRUE
    /\ UNCHANGED <<procVars, retryCount, ready, fileVars, chanVars, events, eventCount,
                   timer, keysToRemove, appVars, config, dirty, histVars>>

Time == Tick \/ DebounceExpires \/ MaxDelayPasses

-----------------------------------------------------------------------------
(***************************************************************************)
(* The environment: edits of labelled Secrets that reach the notifier, the *)
(* application container and its scripts, the container runtime.           *)
(***************************************************************************)
ChannelFull == Len(events) = EventsCap

\* NotifySecretEvent: the event is queued, or dropped when the channel stays
\* full until the notifier's timeout.
NotifySecretEvent ==
    /\ Informer /\ exit = "none"
    /\ \/ /\ ~ChannelFull
          /\ \E removesKeys \in BOOLEAN : events' = Append(events, removesKeys)
       \/ /\ ChannelFull
          /\ UNCHANGED events
    /\ dirty' = TRUE
    /\ UNCHANGED <<procVars, retryCount, ready, fileVars, chanVars, batchVars, appVars,
                   config, histVars>>

\* conjur-secrets-provided.sh lets the application start, which reads the targets.
AppStarts ==
    /\ app = "waiting" /\ provided
    /\ app' = "running" /\ unseen' = FALSE /\ lossy' = FALSE
    /\ UNCHANGED <<procVars, retryCount, ready, fileVars, chanVars, events, batchVars,
                   config, dirty, histVars>>

\* conjur-secrets-unchanged.sh finds the file, deletes it and fails: the
\* application container is restarted and reads the targets again.
AppRestarts ==
    /\ app = "running" /\ updatedFile
    /\ updatedFile' = FALSE
    /\ unseen' = FALSE /\ lossy' = FALSE
    /\ UNCHANGED <<procVars, retryCount, ready, provided, chanVars, events, batchVars, app,
                   config, dirty, histVars>>

Kill ==
    /\ Restarts /\ exit = "none"
    /\ Exit("killed")
    /\ UNCHANGED <<fileVars, app, unseen, config, dirty, delivered, latest>>

\* The kubelet starts the container again, except an init container that is done.
Restart ==
    /\ Restarts /\ exit # "none"
    /\ exit = "ok" => ~RunOnce
    /\ pc' = ProcessStart
    /\ exit' = "none"
    /\ delivered' = FALSE /\ latest' = "none"
    /\ UNCHANGED <<result, seen, mainErr, retryCount, ready, fileVars, chanVars, events,
                   batchVars, appVars, config, dirty, attempts>>

Environment == \/ NotifySecretEvent \/ ProviderQuit \/ Signalled \/ AppStarts
               \/ AppRestarts \/ Kill \/ Restart

-----------------------------------------------------------------------------
Next == MainStep \/ PeriodicStep \/ InformerStep \/ Time \/ Environment

\* Goroutines that can run do run, timers expire and the kubelet probes and
\* restarts containers. Edits, quits, signals and kills need not happen.
Fairness ==
    /\ WF_vars(MainStep) /\ WF_vars(PeriodicStep) /\ WF_vars(InformerStep)
    /\ WF_vars(Tick) /\ WF_vars(DebounceExpires) /\ WF_vars(MaxDelayPasses)
    /\ WF_vars(AppStarts) /\ WF_vars(AppRestarts)

Spec == Init /\ [][Next]_vars
FairSpec == Spec /\ Fairness

-----------------------------------------------------------------------------
(***************************************************************************)
(* Properties.                                                             *)
(***************************************************************************)
ControlType ==
    /\ config \in Configs
    /\ pc \in [Callers -> Labels]
    /\ result \in [Callers -> {"none", "error", "unchanged", "updated"}]
    /\ retryCount \in Nat
    /\ seen \in [Callers -> Nat]
    /\ exit \in {"none", "ok", "error", "killed"}
    /\ eventCount \in 0..2
    /\ timer \in {"nil", "armed", "fired"}
    /\ app \in {"waiting", "running"}
    /\ latest \in {"none", "ok", "fail"}
    /\ attempts \in [Callers -> Nat]

FlagType ==
    /\ mainErr \in BOOLEAN /\ ready \in BOOLEAN
    /\ provided \in BOOLEAN /\ updatedFile \in BOOLEAN
    /\ tick \in BOOLEAN /\ ticking \in BOOLEAN /\ periodicQuit \in BOOLEAN
    /\ maxDelay \in BOOLEAN /\ keysToRemove \in BOOLEAN
    /\ unseen \in BOOLEAN /\ dirty \in BOOLEAN /\ lossy \in BOOLEAN
    /\ delivered \in BOOLEAN

QueueType == events \in Seq(BOOLEAN) /\ Len(events) <= EventsCap

\* Every variable holds a value the Go code could hold at that point: labels,
\* results, a non-negative counter, a channel no longer than its capacity.
TypeOK == ControlType /\ FlagType /\ QueueType

\* The two background goroutines share the retry counter and the readiness flag;
\* what holds of a call without interference is claimed only if one is started.
OneBackground == ~(Periodic /\ Informer)

\* One call of the wrapped provider makes at most one attempt and
\* RetryCountLimit retries (RetryableSecretProvider and limitedBackOff).
RetryBudget ==
    (OneBackground /\ RetryCountLimit >= 0) =>
        \A c \in Callers : attempts[c] <= RetryCountLimit + 1

\* A call gives up only after it has used its whole budget: NextBackOff returns
\* Stop to a goroutine that has made RetryCountLimit + 1 attempts and no fewer.
GivesUpOnlyAtLimit ==
    [][\A c \in Callers : OneBackground /\ pc[c] = "next" /\ pc'[c] = "ready"
                            => attempts[c] = RetryCountLimit + 1]_vars

\* Whatever the two goroutines do to the shared, unsynchronised retryCount, it
\* passes the limit by at most one (limitedBackOff.NextBackOff).
RetryCounterBound == RetryCountLimit >= 0 => retryCount <= RetryCountLimit + 1

\* /readyz answers 200 only if this process has provided the secrets at least once.
ReadyOnlyAfterDelivery == ready => delivered

\* The goroutine has the result of an attempt it has not yet passed to setReady.
Unpublished(c) == pc[c] \in {"next", "store", "notify", "ready"}

\* /readyz reports the result of the latest attempt: once every result has been
\* passed to setReady, the flag agrees with the attempt that was made last.
ReadyReflectsLatest ==
    (OneBackground /\ HasServer /\ exit = "none" /\ \A c \in Callers : ~Unpublished(c))
        => (ready = (latest = "ok"))

\* A change of a target by a successful background call is known to the
\* application, or CONJUR_SECRETS_UPDATED announces it, or the goroutine that
\* made it is still on its way to SetSecretsUpdated or to reporting an error,
\* or such an error is ending the process.
UpdateSignalled ==
    (app = "running" /\ unseen /\ ~lossy) =>
        \/ updatedFile
        \/ pc["main"] \in {"shutdown", "grace"}
        \/ \E c \in Background :
              \/ pc[c] \in {"ready", "status"} /\ result[c] = "updated"
              \/ pc[c] = "send"

\* CONJUR_SECRETS_PROVIDED appears only in a process that has provided the
\* secrets, and only while its latest attempt is the one that did.
ProvidedOnlyAfterDelivery ==
    [][provided' # provided => delivered /\ latest = "ok"]_vars

\* An init or application container that exits with status 0 has provided the
\* secrets with its last attempt and has left CONJUR_SECRETS_PROVIDED behind.
InitExitContract == (RunOnce /\ exit = "ok") => provided /\ delivered /\ latest = "ok"

\* With limited retries an init or application container ends.
InitEnds == (RunOnce /\ RetryCountLimit >= 0) ~> (exit # "none")

\* In a sidecar an error of a background call ends the process with an error.
FailStop ==
    (Mode = "sidecar" /\ \E c \in Background : pc[c] = "send") ~> (exit = "error")

\* An edit of a labelled Secret is followed by an attempt that starts after it,
\* even if events keep coming and some are dropped by the full channel.
EditsServed == dirty ~> (~dirty \/ exit # "none")

\* "Periodic provider in standalone mode should keep working": without a quit
\* request the standalone process does not leave its wait.
StandaloneKeepsRunning ==
    (Mode = "standalone" /\ ~CanQuit) => pc["main"] \notin {"shutdown", "grace"}
====
