---------------------------- MODULE SecretInformer ----------------------------
(***************************************************************************)
(* The Secret informer between the Kubernetes API and the provider: the    *)
(* handlers that pick the relevant edits, the work queue, the worker that  *)
(* passes events on to a bounded channel, the goroutine that waits for the *)
(* cache, and Stop, which two goroutines may call. entrypoint.go starts    *)
(* it, runs the provider and stops it.                                     *)
(*                                                                         *)
(* What an event carries is in K8sProvider; here events are only counted.  *)
(* The provider is reduced to its list of the selected Secrets and its     *)
(* writes to their data, the reflector of client-go to what it delivers.   *)
(***************************************************************************)
EXTENDS Naturals, Sequences

CONSTANTS
    Secrets,     \* names of Kubernetes Secrets
    Maps,        \* values of the conjur-map, with the next two
    NilData,     \* the Secret has no Data
    NoMap,       \* it has Data, but no conjur-map
    Annotations, \* values of an annotation of a secret group, with the next two
    NoAnnotation,    \* the Secret does not have it
    EmptyAnnotation, \* it has it with an empty value
    Manifests,   \* what users apply
    Absent,      \* the Secret does not exist
    Unlisted,    \* the provider's last list does not have the Secret
    EventsCap,   \* capacity of informerEventsChan (10 in the code)
    MaxEdits,    \* bound on the edits of users
    MaxDeltas    \* bound on undelivered changes that the provider adds to

\* The annotations of a secret group, conjur-secrets.x and secret-file-template.x.
Groups == [specs : Annotations, template : Annotations]

\* The label of a Secret: "true" as the provider selects it, another spelling that
\* ParseBool takes for true ("True", "1", "t"), or neither.
Labels == {"true", "truthy", "no"}

States == [label : Labels, map : Maps, groups : Groups, data : {"new", "old"}]
Contents == [map : Maps, groups : Groups]

ASSUME SortsAssumption ==
    /\ {NilData, NoMap} \subseteq Maps /\ NilData # NoMap
    /\ {NoAnnotation, EmptyAnnotation} \subseteq Annotations
    /\ Absent \notin States /\ Unlisted \notin Contents
ASSUME ManifestsAssumption == Manifests \subseteq [label : Labels, map : Maps, groups : Groups]
ASSUME BoundsAssumption ==
    EventsCap \in Nat \ {0} /\ MaxEdits \in Nat /\ MaxDeltas \in Nat

VARIABLES
    cluster,    \* the Secrets in the API server
    edits,      \* edits of users so far
    reflector,  \* the informer of client-go
    synced,     \* informer.HasSynced()
    deltas,     \* per Secret, the changes not yet given to the handlers
    queue,      \* number of events in si.queue
    queueDown,  \* queue.ShutDown() was called
    worker,     \* runWorker
    events,     \* number of events in informerEventsChan
    entry,      \* where the entry point stands
    stop,       \* where its and the cache-sync goroutine's call of Stop stand
    once,       \* stopOnce
    stopCh,     \* stopCh is closed
    started,    \* the first call of the provider is over
    batch,      \* the informer goroutine of the scheduler owes a run
    listed,     \* per Secret, what the provider's last list said
    silent      \* history: Secrets with an edit that is no event, not listed since

apiVars  == <<cluster, edits, reflector, synced, deltas>>
workVars == <<queue, worker, events>>
stopVars == <<entry, stop, once, stopCh, queueDown>>
provVars == <<started, batch, listed, silent>>
vars == <<apiVars, workVars, stopVars, provVars>>

Stoppers == {"entry", "sync"}

\* The Secrets that users make.
Applied(d) == {[label |-> m.label, map |-> m.map, groups |-> m.groups, data |-> d] : m \in Manifests}

Init ==
    /\ cluster \in [Secrets -> Applied("old") \cup {Absent}]
    /\ edits = 0
    /\ reflector = "off" /\ synced = FALSE /\ deltas = [s \in Secrets |-> <<>>]
    /\ queue = 0 /\ queueDown = FALSE /\ worker = "off" /\ events = 0
    /\ entry = "start" /\ stop = [c \in Stoppers |-> "none"]
    /\ once = "no" /\ stopCh = FALSE
    /\ started = FALSE /\ batch = FALSE
    /\ listed = [s \in Secrets |-> Unlisted] /\ silent = Secrets

-----------------------------------------------------------------------------
(***************************************************************************)
(* Start.                                                                  *)
(***************************************************************************)
\* The informer, the goroutine that waits for the cache and the worker start.
Start ==
    /\ entry = "start"
    /\ entry' = "provide"
    /\ reflector' = "listing"
    /\ stop' = [stop EXCEPT !["sync"] = "waiting"]
    /\ worker' = "get"
    /\ UNCHANGED <<cluster, edits, synced, deltas, queue, events, once, stopCh, queueDown,
                   provVars>>

\* The handlers cannot be registered: the entry point calls Stop and goes on.
StartFails ==
    /\ entry = "start"
    /\ entry' = "failed"
    /\ stop' = [stop EXCEPT !["entry"] = "once"]
    /\ UNCHANGED <<apiVars, workVars, once, stopCh, queueDown, provVars>>

\* WaitForCacheSync returns: the cache is filled, or stopCh was closed first.
CacheSynced ==
    /\ stop["sync"] = "waiting" /\ synced
    /\ stop' = [stop EXCEPT !["sync"] = "done"]
    /\ UNCHANGED <<apiVars, workVars, entry, once, stopCh, queueDown, provVars>>

CacheNotSynced ==
    /\ stop["sync"] = "waiting" /\ stopCh
    /\ stop' = [stop EXCEPT !["sync"] = "once"]
    /\ UNCHANGED <<apiVars, workVars, entry, once, stopCh, queueDown, provVars>>

-----------------------------------------------------------------------------
(***************************************************************************)
(* The informer of client-go: it lists, then watches, and delivers the     *)
(* changes of each Secret in order.                                        *)
(***************************************************************************)
InitialList ==
    /\ reflector = "listing"
    /\ reflector' = "watching"
    /\ deltas' = [s \in Secrets |->
                    IF cluster[s] = Absent THEN <<>>
                    ELSE <<[old |-> Absent, new |-> cluster[s]]>>]
    /\ UNCHANGED <<cluster, edits, synced, workVars, stopVars, provVars>>

\* The list is in the cache; the handlers may have seen some of it or none.
HasSynced ==
    /\ reflector = "watching" /\ ~synced
    /\ synced' = TRUE
    /\ UNCHANGED <<cluster, edits, reflector, deltas, workVars, stopVars, provVars>>

\* stopCh is closed: the informer ends and forgets what it has not delivered.
ReflectorEnds ==
    /\ stopCh /\ reflector \in {"listing", "watching"}
    /\ reflector' = "ended"
    /\ deltas' = [s \in Secrets |-> <<>>]
    /\ UNCHANGED <<cluster, edits, synced, workVars, stopVars, provVars>>

-----------------------------------------------------------------------------
(***************************************************************************)
(* The handlers.                                                           *)
(***************************************************************************)
\* strconv.ParseBool of the label.
hasManagedByProviderLabel(x) == x # Absent /\ x.label # "no"

\* Data that come or go count as a change of the conjur-map.
conjurMapChanged(old, new) == old.map # new.map

labelsChanged(old, new) == hasManagedByProviderLabel(old) # hasManagedByProviderLabel(new)

\* The value of a key of a Go map: a key that is missing reads as an empty value.
Lookup(a) == IF a = NoAnnotation THEN EmptyAnnotation ELSE a

relevantAnnotationsChanged(old, new) ==
    \/ Lookup(old.groups.specs) # Lookup(new.groups.specs)
    \/ Lookup(old.groups.template) # Lookup(new.groups.template)

\* Mutants: the label alone is no reason; every update is one.
LabelIgnored(old, new) ==
    /\ hasManagedByProviderLabel(new)
    /\ conjurMapChanged(old, new) \/ relevantAnnotationsChanged(old, new)
EveryUpdate(old, new) == hasManagedByProviderLabel(new)
RelevantUpdate(old, new) ==
    /\ hasManagedByProviderLabel(new)
    /\ \/ conjurMapChanged(old, new)
       \/ labelsChanged(old, new)
       \/ relevantAnnotationsChanged(old, new)

RelevantDelta(d) ==
    IF d.old = Absent THEN hasManagedByProviderLabel(d.new) ELSE RelevantUpdate(d.old, d.new)

\* onAdd or onUpdate: nothing before the sync, else the relevant changes are
\* queued. A queue that is shut down takes no more.
Handle(s) ==
    /\ reflector = "watching" /\ deltas[s] # <<>>
    /\ deltas' = [deltas EXCEPT ![s] = Tail(@)]
    /\ queue' = IF synced /\ RelevantDelta(Head(deltas[s])) /\ ~queueDown
                THEN queue + 1 ELSE queue
    /\ UNCHANGED <<cluster, edits, reflector, synced, worker, events, stopVars, provVars>>

-----------------------------------------------------------------------------
(***************************************************************************)
(* The worker and the notifier.                                            *)
(***************************************************************************)
\* processNextItem: queue.Get returns an item as long as there is one.
GetItem ==
    /\ worker = "get" /\ queue > 0
    /\ queue' = queue - 1
    /\ worker' = "notify"
    /\ UNCHANGED <<apiVars, events, stopVars, provVars>>

GetQuit ==
    /\ worker = "get" /\ queue = 0 /\ queueDown
    /\ worker' = "done"
    /\ UNCHANGED <<apiVars, queue, events, stopVars, provVars>>

HasRoom == events < EventsCap

\* NotifySecretEvent: the channel has room, or stays full for three seconds.
EventSent ==
    /\ worker = "notify" /\ HasRoom
    /\ events' = events + 1
    /\ worker' = "get"
    /\ UNCHANGED <<apiVars, queue, stopVars, provVars>>

\* Mutant: there is no timeout.
NoTimeout == FALSE
TimesOut == events = EventsCap

\* Mutant: processNextItem returns false after an error.
QuitAfterError == "done"
AfterError == "get"

\* The error is logged and the event is discarded.
EventDropped ==
    /\ worker = "notify" /\ TimesOut
    /\ worker' = AfterError
    /\ UNCHANGED <<apiVars, queue, events, stopVars, provVars>>

WorkerStep == GetItem \/ GetQuit \/ EventSent \/ EventDropped

-----------------------------------------------------------------------------
(***************************************************************************)
(* Stop, called by c.                                                      *)
(***************************************************************************)
StopAt(c, label) == stop' = [stop EXCEPT ![c] = label]

\* stopOnce.Do runs its function for the first caller.
ShutDownQueue(c) ==
    /\ stop[c] = "once" /\ once = "no"
    /\ once' = "running"
    /\ queueDown' = TRUE
    /\ StopAt(c, "close")
    /\ UNCHANGED <<apiVars, workVars, entry, stopCh, provVars>>

CloseStopCh(c) ==
    /\ stop[c] = "close"
    /\ stopCh' = TRUE
    /\ StopAt(c, "shutdown")
    /\ UNCHANGED <<apiVars, workVars, entry, once, queueDown, provVars>>

ReflectorGone == reflector \in {"off", "ended"}

\* factory.Shutdown returns when the informer has ended.
FactoryShutdown(c) ==
    /\ stop[c] = "shutdown" /\ ReflectorGone
    /\ once' = "done"
    /\ StopAt(c, "wait")
    /\ UNCHANGED <<apiVars, workVars, entry, stopCh, queueDown, provVars>>

\* Another caller waits until the first one is done.
StopAgain(c) ==
    /\ stop[c] = "once" /\ once = "done"
    /\ StopAt(c, "wait")
    /\ UNCHANGED <<apiVars, workVars, entry, once, stopCh, queueDown, provVars>>

\* Mutant: Stop does not wait for the worker.
NoWait == TRUE
WorkerGone == worker \in {"off", "done"}

\* workerWg.Wait returns, and so does Stop.
StopReturns(c) ==
    /\ stop[c] = "wait" /\ WorkerGone
    /\ IF c = "entry"
       THEN /\ entry' = IF entry = "failed" THEN "provide" ELSE "exit"
            /\ StopAt(c, "none")
       ELSE /\ StopAt(c, "done")
            /\ UNCHANGED entry
    /\ UNCHANGED <<apiVars, workVars, once, stopCh, queueDown, provVars>>

StopStep(c) ==
    \/ ShutDownQueue(c) \/ CloseStopCh(c) \/ FactoryShutdown(c) \/ StopAgain(c) \/ StopReturns(c)

-----------------------------------------------------------------------------
(***************************************************************************)
(* The provider and the entry point.                                       *)
(***************************************************************************)
\* The provider lists by the selector managed-by-provider=true.
Selected(x) == x # Absent /\ x.label = "true"

\* What the provider reads: to it there is a conjur-map or there is none.
Content(x) == [map |-> IF x.map = NilData THEN NoMap ELSE x.map, groups |-> x.groups]

\* While the informer watches, a change of s is delivered some time.
Deliver(s, old, new) ==
    IF reflector = "watching" THEN Append(deltas[s], [old |-> old, new |-> new]) ELSE deltas[s]

\* A write replaces the data and leaves the rest as it was read. The first one
\* to a Secret without Data is an update that counts as relevant.
Written(x) == [label |-> x.label, map |-> IF x.map = NilData THEN NoMap ELSE x.map,
               groups |-> x.groups,
               data |-> IF x.data = "old" THEN "new" ELSE "old"]

\* A call of the provider lists the selected Secrets and may write to their
\* data: its own writes come back as updates.
ProviderCall ==
    /\ listed' = [s \in Secrets |->
                    IF Selected(cluster[s]) THEN Content(cluster[s]) ELSE Unlisted]
    /\ silent' = {}
    /\ \E W \in SUBSET {s \in Secrets : Selected(cluster[s]) /\ Len(deltas[s]) < MaxDeltas} :
          /\ cluster' = [s \in Secrets |->
                           IF s \in W THEN Written(cluster[s]) ELSE cluster[s]]
          /\ deltas' = [s \in Secrets |->
                          IF s \in W THEN Deliver(s, cluster[s], cluster'[s]) ELSE deltas[s]]
    /\ UNCHANGED <<edits, reflector, synced, workVars, stopVars>>

FirstCall ==
    /\ entry = "provide" /\ ~started
    /\ started' = TRUE
    /\ ProviderCall
    /\ UNCHANGED batch

\* The first call may fail for good; the goroutines are started all the same.
FirstCallFails ==
    /\ entry = "provide" /\ ~started
    /\ started' = TRUE
    /\ UNCHANGED <<apiVars, workVars, stopVars, batch, listed, silent>>

TakeEvent ==
    /\ entry = "provide" /\ started /\ events > 0
    /\ events' = events - 1
    /\ batch' = TRUE
    /\ UNCHANGED <<apiVars, queue, worker, stopVars, started, listed, silent>>

\* The debounce timer expires or the maximum delay has passed.
RunBatch ==
    /\ entry = "provide" /\ batch
    /\ batch' = FALSE
    /\ ProviderCall
    /\ UNCHANGED started

PeriodicCall ==
    /\ entry = "provide" /\ started
    /\ ProviderCall
    /\ UNCHANGED <<started, batch>>

\* RunSecretsProvider returns, at the latest when a later call fails; the
\* deferred function calls Stop.
Leave ==
    /\ entry = "provide"
    /\ entry' = "leaving"
    /\ StopAt("entry", "once")
    /\ UNCHANGED <<apiVars, workVars, once, stopCh, queueDown, provVars>>

-----------------------------------------------------------------------------
(***************************************************************************)
(* Users of the cluster.                                                   *)
(***************************************************************************)
\* An annotation that the Secret has without a value, or does not have.
SameText(a, b) == a = b \/ {a, b} = {NoAnnotation, EmptyAnnotation}

\* Nothing has changed but the spelling of a label that parses as true, or an
\* annotation without a value has come or gone. To the provider that may be a change:
\* its selector is exact, and it asks whether the template annotation exists.
Respelled(old, new) ==
    /\ old # Absent /\ new # Absent
    /\ {old.label, new.label} \subseteq {"true", "truthy"}
    /\ old.map = new.map
    /\ SameText(old.groups.specs, new.groups.specs)
    /\ SameText(old.groups.template, new.groups.template)

\* The provider knows the current content of s or need not know it.
Known(s) == Selected(cluster[s]) => listed[s] = Content(cluster[s])

Edit(s, new) ==
    /\ edits < MaxEdits /\ edits' = edits + 1
    /\ cluster' = [cluster EXCEPT ![s] = new]
    /\ silent' = IF ~synced \/ (Respelled(cluster[s], new) /\ Known(s)) THEN silent \cup {s}
                 ELSE IF Respelled(cluster[s], new) THEN silent ELSE silent \ {s}
    /\ UNCHANGED <<reflector, synced, workVars, stopVars, started, batch, listed>>

\* A manifest is applied: the label, the conjur-map or the annotations change.
Apply(s) ==
    \E new \in Applied(IF cluster[s] = Absent THEN "old" ELSE cluster[s].data) :
        /\ new # cluster[s]
        /\ Edit(s, new)
        /\ deltas' = [deltas EXCEPT ![s] = Deliver(s, cluster[s], new)]

\* There is no handler for deletions.
Delete(s) ==
    /\ cluster[s] # Absent
    /\ Edit(s, Absent)
    /\ UNCHANGED deltas

Users == \E s \in Secrets : Apply(s) \/ Delete(s)

-----------------------------------------------------------------------------
Next ==
    \/ Start \/ StartFails \/ CacheSynced \/ CacheNotSynced
    \/ InitialList \/ HasSynced \/ ReflectorEnds
    \/ \E s \in Secrets : Handle(s)
    \/ WorkerStep
    \/ \E c \in Stoppers : StopStep(c)
    \/ FirstCall \/ FirstCallFails \/ TakeEvent \/ RunBatch \/ PeriodicCall \/ Leave
    \/ Users

Spec == Init /\ [][Next]_vars

\* Every goroutine that can run does; the API server answers; calls end. Edits,
\* periodic calls and the end of the provider need not happen.
Fairness ==
    /\ WF_vars(Start \/ StartFails) /\ WF_vars(CacheSynced \/ CacheNotSynced)
    /\ WF_vars(InitialList) /\ WF_vars(HasSynced) /\ WF_vars(ReflectorEnds)
    /\ \A s \in Secrets : WF_vars(Handle(s))
    /\ WF_vars(WorkerStep)
    /\ \A c \in Stoppers : WF_vars(StopStep(c))
    /\ WF_vars(FirstCall \/ FirstCallFails) /\ WF_vars(TakeEvent) /\ WF_vars(RunBatch)

FairSpec == Spec /\ Fairness

-----------------------------------------------------------------------------
(***************************************************************************)
(* Properties.                                                             *)
(***************************************************************************)
Delta == [old : States \cup {Absent}, new : States]

\* Every variable holds a value the Go code could hold, and the channel of
\* events never exceeds its capacity.
TypeOK ==
    /\ cluster \in [Secrets -> States \cup {Absent}]
    /\ edits \in 0..MaxEdits
    /\ reflector \in {"off", "listing", "watching", "ended"} /\ synced \in BOOLEAN
    /\ deltas \in [Secrets -> Seq(Delta)]
    /\ queue \in Nat /\ queueDown \in BOOLEAN
    /\ worker \in {"off", "get", "notify", "done"}
    /\ events \in 0..EventsCap
    /\ entry \in {"start", "failed", "provide", "leaving", "exit"}
    /\ stop \in [Stoppers -> {"none", "waiting", "once", "close", "shutdown", "wait", "done"}]
    /\ once \in {"no", "running", "done"} /\ stopCh \in BOOLEAN
    /\ started \in BOOLEAN /\ batch \in BOOLEAN
    /\ listed \in [Secrets -> Contents \cup {Unlisted}]
    /\ silent \subseteq Secrets

\* A run of the provider is certain to follow: an event is on its way to the
\* scheduler or has reached it.
RunAhead == queue > 0 \/ worker = "notify" \/ events > 0 \/ batch

\* While the informer runs, an edit of a selected Secret that the provider has
\* not listed is still to be given to the handlers as a relevant change, or a
\* run lies ahead: no edit after the sync is forgotten by the handlers, the
\* queue, the timeout of the full channel or the provider's own writes. The
\* exceptions (silent) are edits that only respell the label or an annotation,
\* made when the provider knew the Secret: no handler takes them for a change.
NoEditForgotten ==
    ~queueDown =>
        \A s \in Secrets :
            \/ Known(s) \/ s \in silent \/ RunAhead
            \/ synced /\ \E i \in DOMAIN deltas[s] : RelevantDelta(deltas[s][i])

\* When the entry point is past its last Stop nothing of the informer is left:
\* no worker that could still send, no handler that could still queue, no event
\* in the queue, whoever called Stop before.
StopLeavesNothing ==
    entry = "exit" => worker \in {"off", "done"} /\ reflector \in {"off", "ended"} /\ queue = 0

\* Stop returns, although the worker may be blocked on a channel that nobody
\* reads any more and the cache-sync goroutine may be in Stop too.
StopEnds == (entry = "leaving") ~> (entry = "exit")

\* While the informer runs, the provider comes to list every edit made after
\* the sync, also when the channel was full and events were dropped; but for the
\* edits that only respell the label or an annotation.
EditsListed ==
    <>[](queueDown \/ entry # "provide" \/ \A s \in Secrets : Known(s) \/ s \in silent)

\* The provider's own writes do not make it run again: without edits the
\* events come to an end, however often a call writes.
NoFeedback == <>[](~batch \/ entry # "provide")
====
