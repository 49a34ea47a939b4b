------------------------- MODULE SecretInformerProofs -------------------------
(***************************************************************************)
(* Theorems about SecretInformer, for any Secrets, any capacity of the     *)
(* channel and any number of edits.                                        *)
(***************************************************************************)
EXTENDS SecretInformer, TLAPS

ApiType ==
    /\ cluster \in [Secrets -> States \cup {Absent}]
    /\ edits \in 0..MaxEdits
    /\ reflector \in {"off", "listing", "watching", "ended"}
    /\ deltas \in [Secrets -> Seq(Delta)]

WorkType ==
    /\ queue \in Nat /\ worker \in {"off", "get", "notify", "done"}
    /\ events \in 0..EventsCap

StopType ==
    /\ entry \in {"start", "failed", "provide", "leaving", "exit"}
    /\ stop \in [Stoppers -> {"none", "waiting", "once", "close", "shutdown", "wait", "done"}]
    /\ once \in {"no", "running", "done"}

FlagType ==
    /\ synced \in BOOLEAN /\ queueDown \in BOOLEAN /\ stopCh \in BOOLEAN
    /\ started \in BOOLEAN /\ batch \in BOOLEAN

ListType ==
    /\ listed \in [Secrets -> Contents \cup {Unlisted}]
    /\ silent \subseteq Secrets

\* A write of the provider changes the data of a Secret and nothing else.
LEMMA WriteFacts ==
    ASSUME NEW x \in States
    PROVE  /\ Written(x) \in States /\ Written(x) # Absent
           /\ Written(x).label = x.label /\ Content(Written(x)) = Content(x)
  BY SortsAssumption DEF States, Written, Content

\* What users apply are Secrets, with the data that were there.
LEMMA AppliedFacts ==
    ASSUME NEW d \in {"new", "old"}
    PROVE  \A x \in Applied(d) : x \in States /\ x.data = d
  BY ManifestsAssumption DEF Applied, States

\* A selected Secret is a Secret.
LEMMA SelectedIsState ==
    ASSUME ApiType, NEW s \in Secrets, Selected(cluster[s])
    PROVE  cluster[s] \in States
  BY DEF ApiType, Selected

\* What a call of the provider does to the Secrets: their data may change.
LEMMA ProviderCallFacts ==
    ASSUME ApiType, ProviderCall, NEW s \in Secrets
    PROVE  /\ cluster'[s] \in States \cup {Absent}
           /\ deltas'[s] \in Seq(Delta)
           /\ Selected(cluster'[s]) <=> Selected(cluster[s])
           /\ Selected(cluster[s]) => Content(cluster'[s]) = Content(cluster[s])
<1>1. PICK W \in SUBSET {t \in Secrets : Selected(cluster[t]) /\ Len(deltas[t]) < MaxDeltas} :
          /\ cluster' = [t \in Secrets |->
                           IF t \in W THEN Written(cluster[t]) ELSE cluster[t]]
          /\ deltas' = [t \in Secrets |->
                          IF t \in W THEN Deliver(t, cluster[t], cluster'[t]) ELSE deltas[t]]
  BY DEF ProviderCall
<1>2. CASE s \notin W
  <2>1. cluster'[s] = cluster[s] /\ deltas'[s] = deltas[s]
    BY <1>1, <1>2
  <2> QED BY <2>1 DEF ApiType, Selected, Content
<1>3. CASE s \in W
  <2>1. Selected(cluster[s]) BY <1>3
  <2>2. cluster[s] \in States BY <2>1, SelectedIsState
  <2>3. cluster'[s] = Written(cluster[s]) BY <1>1, <1>3
  <2>4. /\ Written(cluster[s]) \in States /\ Written(cluster[s]) # Absent
        /\ Written(cluster[s]).label = cluster[s].label
        /\ Content(Written(cluster[s])) = Content(cluster[s])
    BY <2>2, WriteFacts
  <2>5. deltas'[s] = Deliver(s, cluster[s], cluster'[s]) BY <1>1, <1>3
  <2>6. [old |-> cluster[s], new |-> cluster'[s]] \in Delta BY <2>2, <2>3, <2>4 DEF Delta
  <2>7. deltas'[s] \in Seq(Delta) BY <2>5, <2>6 DEF Deliver, ApiType
  <2>8. Selected(cluster'[s])
    BY <2>1, <2>3, <2>4 DEF Selected
  <2>9. Content(cluster'[s]) = Content(cluster[s]) BY <2>3, <2>4
  <2> QED BY <2>1, <2>3, <2>4, <2>7, <2>8, <2>9
<1> QED BY <1>2, <1>3

\* Every step keeps Secrets and changes well formed: edits, writes of the
\* provider and what is delivered to the handlers.
LEMMA ApiTypeStep == ApiType /\ [Next]_vars => ApiType'
<1> SUFFICES ASSUME ApiType, [Next]_vars PROVE ApiType'
  OBVIOUS
<1> USE BoundsAssumption
<1>1. CASE UNCHANGED apiVars
  BY <1>1 DEF apiVars, ApiType
<1>2. CASE ProviderCall
  <2>1. edits' = edits /\ reflector' = reflector BY <1>2 DEF ProviderCall
  <2>2. cluster' = [s \in Secrets |-> cluster'[s]] /\ deltas' = [s \in Secrets |-> deltas'[s]]
    BY <1>2 DEF ProviderCall
  <2>3. \A s \in Secrets : cluster'[s] \in States \cup {Absent} /\ deltas'[s] \in Seq(Delta)
    BY <1>2, ProviderCallFacts
  <2> QED BY <2>1, <2>2, <2>3 DEF ApiType
<1>3. CASE Start
  BY <1>3 DEF Start, ApiType
<1>4. CASE InitialList
  <2>1. \A s \in Secrets : cluster[s] # Absent => <<[old |-> Absent, new |-> cluster[s]]>> \in Seq(Delta)
    BY DEF ApiType, Delta
  <2>2. <<>> \in Seq(Delta) OBVIOUS
  <2> QED BY <1>4, <2>1, <2>2 DEF InitialList, ApiType
<1>5. CASE HasSynced
  BY <1>5 DEF HasSynced, ApiType
<1>6. CASE ReflectorEnds
  <2>2. <<>> \in Seq(Delta) OBVIOUS
  <2> QED BY <1>6, <2>2 DEF ReflectorEnds, ApiType
<1>7. ASSUME NEW s \in Secrets, Handle(s) PROVE ApiType'
  <2>1. Tail(deltas[s]) \in Seq(Delta) BY <1>7 DEF Handle, ApiType
  <2> QED BY <1>7, <2>1 DEF Handle, ApiType
<1>8. ASSUME NEW s \in Secrets, Apply(s) PROVE ApiType'
  <2>0. (IF cluster[s] = Absent THEN "old" ELSE cluster[s].data) \in {"new", "old"}
    BY DEF ApiType, States
  <2>1. PICK new \in States : Edit(s, new) /\ deltas' = [deltas EXCEPT ![s] = Deliver(s, cluster[s], new)]
    BY <1>8, <2>0, AppliedFacts DEF Apply
  <2>2. [old |-> cluster[s], new |-> new] \in Delta BY DEF Delta, ApiType
  <2>3. Deliver(s, cluster[s], new) \in Seq(Delta) BY <2>2 DEF Deliver, ApiType
  <2> QED BY <2>1, <2>3 DEF Edit, ApiType
<1>9. ASSUME NEW s \in Secrets, Delete(s) PROVE ApiType'
  BY <1>9 DEF Delete, Edit, ApiType
<1>10. CASE UNCHANGED vars
  BY <1>1, <1>10 DEF vars
<1> QED
  BY <1>1, <1>2, <1>3, <1>4, <1>5, <1>6, <1>7, <1>8, <1>9, <1>10
  DEF Next, StartFails, CacheSynced, CacheNotSynced, WorkerStep, GetItem, GetQuit, EventSent,
      EventDropped, StopStep, ShutDownQueue, CloseStopCh, FactoryShutdown, StopAgain, StopReturns,
      FirstCall, FirstCallFails, TakeEvent, RunBatch, PeriodicCall, Leave, Users

\* Every step keeps the queue and the channel within their bounds.
LEMMA WorkTypeStep == WorkType /\ [Next]_vars => WorkType'
<1> SUFFICES ASSUME WorkType, [Next]_vars PROVE WorkType'
  OBVIOUS
<1> USE BoundsAssumption DEF WorkType
<1>1. CASE UNCHANGED workVars
  BY <1>1 DEF workVars
<1>2. CASE Start
  BY <1>2 DEF Start
<1>3. ASSUME NEW s \in Secrets, Handle(s) PROVE WorkType'
  BY <1>3 DEF Handle
<1>4. CASE GetItem
  BY <1>4 DEF GetItem
<1>5. CASE GetQuit
  BY <1>5 DEF GetQuit
<1>6. CASE EventSent
  BY <1>6 DEF EventSent, HasRoom
<1>7. CASE EventDropped
  BY <1>7 DEF EventDropped, AfterError
<1>8. CASE TakeEvent
  BY <1>8 DEF TakeEvent
<1>9. CASE UNCHANGED vars
  BY <1>1, <1>9 DEF vars
<1> QED
  BY <1>1, <1>2, <1>3, <1>4, <1>5, <1>6, <1>7, <1>8, <1>9
  DEF Next, StartFails, CacheSynced, CacheNotSynced, InitialList, HasSynced, ReflectorEnds,
      WorkerStep, StopStep, ShutDownQueue, CloseStopCh, FactoryShutdown, StopAgain, StopReturns,
      FirstCall, FirstCallFails, RunBatch, PeriodicCall, ProviderCall, Leave, Users, Apply, Delete, Edit

\* Every step keeps the entry point and the two calls of Stop at known points.
LEMMA StopTypeStep == StopType /\ [Next]_vars => StopType'
<1> SUFFICES ASSUME StopType, [Next]_vars PROVE StopType'
  OBVIOUS
<1> USE DEF StopType, Stoppers
<1>1. CASE UNCHANGED stopVars
  BY <1>1 DEF stopVars
<1>2. CASE Start
  BY <1>2 DEF Start
<1>3. CASE StartFails
  BY <1>3 DEF StartFails
<1>4. CASE CacheSynced
  BY <1>4 DEF CacheSynced
<1>5. CASE CacheNotSynced
  BY <1>5 DEF CacheNotSynced
<1>6. CASE Leave
  BY <1>6 DEF Leave, StopAt
<1>7. ASSUME NEW c \in Stoppers, StopStep(c) PROVE StopType'
  BY <1>7 DEF StopStep, StopAt, ShutDownQueue, CloseStopCh, FactoryShutdown, StopAgain, StopReturns
<1>8. CASE UNCHANGED vars
  BY <1>1, <1>8 DEF vars
<1> QED
  BY <1>1, <1>2, <1>3, <1>4, <1>5, <1>6, <1>7, <1>8
  DEF Next, InitialList, HasSynced, ReflectorEnds, Handle, WorkerStep, GetItem, GetQuit, EventSent,
      EventDropped, FirstCall, FirstCallFails, TakeEvent, RunBatch, PeriodicCall, ProviderCall, Users, Apply, Delete, Edit

\* Every step keeps the flags Boolean.
LEMMA FlagTypeStep == FlagType /\ [Next]_vars => FlagType'
<1> SUFFICES ASSUME FlagType, [Next]_vars PROVE FlagType'
  OBVIOUS
<1> USE DEF FlagType
<1>1. CASE UNCHANGED <<synced, queueDown, stopCh, started, batch>>
  BY <1>1
<1>2. CASE HasSynced
  BY <1>2 DEF HasSynced, stopVars, provVars
<1>3. CASE FirstCall
  BY <1>3 DEF FirstCall, ProviderCall, stopVars
<1>3a. CASE FirstCallFails
  BY <1>3a DEF FirstCallFails, apiVars, stopVars
<1>4. CASE TakeEvent
  BY <1>4 DEF TakeEvent, apiVars, stopVars
<1>5. CASE RunBatch
  BY <1>5 DEF RunBatch, ProviderCall, stopVars
<1>6. ASSUME NEW c \in Stoppers, ShutDownQueue(c) \/ CloseStopCh(c) PROVE FlagType'
  BY <1>6 DEF ShutDownQueue, CloseStopCh, apiVars, provVars
<1> QED
  BY <1>1, <1>2, <1>3, <1>3a, <1>4, <1>5, <1>6
  DEF Next, vars, apiVars, stopVars, provVars, Start, StartFails, CacheSynced, CacheNotSynced,
      InitialList, ReflectorEnds, Handle, WorkerStep, GetItem, GetQuit, EventSent, EventDropped,
      StopStep, FactoryShutdown, StopAgain, StopReturns, PeriodicCall, ProviderCall, Leave,
      Users, Apply, Delete, Edit

\* Every step keeps the provider's list a list of contents.
LEMMA ListTypeStep == ApiType /\ ListType /\ [Next]_vars => ListType'
<1> SUFFICES ASSUME ApiType, ListType, [Next]_vars PROVE ListType'
  OBVIOUS
<1> USE DEF ListType
<1>1. CASE UNCHANGED <<listed, silent>>
  BY <1>1
<1>2. CASE ProviderCall
  <2>1. ASSUME NEW s \in Secrets, Selected(cluster[s])
        PROVE Content(cluster[s]) \in Contents
    BY <2>1, SelectedIsState, SortsAssumption DEF Content, Contents, States
  <2> QED BY <1>2, <2>1 DEF ProviderCall
<1>3. ASSUME NEW s \in Secrets, Apply(s) \/ Delete(s) PROVE ListType'
  BY <1>3 DEF Apply, Delete, Edit
<1> QED
  BY <1>1, <1>2, <1>3
  DEF Next, vars, provVars, Start, StartFails, CacheSynced, CacheNotSynced,
      InitialList, HasSynced, ReflectorEnds, Handle, WorkerStep, GetItem, GetQuit, EventSent,
      EventDropped, StopStep, ShutDownQueue, CloseStopCh, FactoryShutdown, StopAgain, StopReturns,
      FirstCall, FirstCallFails, TakeEvent, RunBatch, PeriodicCall, Leave, Users

TypeInv == ApiType /\ WorkType /\ StopType /\ FlagType /\ ListType

\* The parts of the type invariant hold in every state.
LEMMA TypeInvHolds == Spec => []TypeInv
<1>1. Init => TypeInv
  <2> SUFFICES ASSUME Init PROVE TypeInv
    OBVIOUS
  <2>1. <<>> \in Seq(Delta) OBVIOUS
  <2>2. ApiType
    <3>1. Applied("old") \subseteq States BY AppliedFacts
    <3>2. cluster \in [Secrets -> States \cup {Absent}] BY <3>1 DEF Init
    <3> QED BY <2>1, <3>2, BoundsAssumption DEF Init, ApiType
  <2>3. WorkType BY BoundsAssumption DEF Init, WorkType
  <2>4. StopType BY DEF Init, StopType, Stoppers
  <2>5. FlagType BY DEF Init, FlagType
  <2>6. ListType BY DEF Init, ListType
  <2> QED BY <2>2, <2>3, <2>4, <2>5, <2>6 DEF TypeInv
<1>2. TypeInv /\ [Next]_vars => TypeInv'
  BY ApiTypeStep, WorkTypeStep, StopTypeStep, FlagTypeStep, ListTypeStep DEF TypeInv
<1> QED BY <1>1, <1>2, PTL DEF Spec

\* Type correctness, for any capacity and any Secrets: what the handlers are
\* given are changes of Secrets, and informerEventsChan never exceeds its capacity.
THEOREM TypeCorrect == Spec => []TypeOK
<1>1. TypeInv => TypeOK
  BY DEF TypeInv, ApiType, WorkType, StopType, FlagType, ListType, TypeOK
<1> QED BY <1>1, TypeInvHolds, PTL

-----------------------------------------------------------------------------
\* Where the calls of Stop stand and what they have done: only the first
\* caller is inside stopOnce.Do, and whoever is past it finds the queue shut
\* down and the informer ended.
StopInv ==
    /\ entry = "start" =>
          worker = "off" /\ reflector = "off" /\ once = "no" /\ \A c \in Stoppers : stop[c] = "none"
    /\ once = "no" <=> ~queueDown
    /\ stopCh => queueDown
    /\ \A c \in Stoppers : stop[c] \in {"close", "shutdown"} => once = "running"
    /\ ~(stop["entry"] \in {"close", "shutdown"} /\ stop["sync"] \in {"close", "shutdown"})
    /\ \A c \in Stoppers : stop[c] = "wait" => once = "done"
    /\ once = "done" => reflector \in {"off", "ended"}
    /\ stop["entry"] # "none" => entry \in {"failed", "leaving"}
    /\ entry = "exit" => once = "done" /\ worker \in {"off", "done"}

\* The worker leaves only an empty queue behind, and the queue of an informer
\* that was not started is empty.
WorkerInv ==
    /\ worker = "off" => queue = 0 /\ reflector = "off"
    /\ worker = "done" => queue = 0 /\ queueDown

\* After the sync the informer watches until stopCh is closed.
SyncInv ==
    /\ synced => reflector \in {"watching", "ended"}
    /\ reflector = "ended" => stopCh

\* Every step keeps StopInv: of two concurrent calls of Stop one does the work
\* and the other waits for it.
LEMMA StopInvStep == TypeInv /\ StopInv /\ [Next]_vars => StopInv'
<1> SUFFICES ASSUME TypeInv, StopInv, [Next]_vars PROVE StopInv'
  OBVIOUS
<1> USE DEF StopInv, Stoppers, TypeInv, StopType
<1>1. CASE UNCHANGED <<stopVars, worker, reflector>>
  BY <1>1 DEF stopVars
<1>2. CASE Start
  BY <1>2 DEF Start
<1>3. CASE StartFails
  BY <1>3 DEF StartFails, apiVars, workVars
<1>4. CASE CacheSynced
  BY <1>4 DEF CacheSynced, apiVars, workVars
<1>5. CASE CacheNotSynced
  BY <1>5 DEF CacheNotSynced, apiVars, workVars
<1>6. CASE InitialList
  BY <1>6 DEF InitialList, stopVars, workVars
<1>7. CASE ReflectorEnds
  BY <1>7 DEF ReflectorEnds, stopVars, workVars
<1>8. CASE WorkerStep
  BY <1>8 DEF WorkerStep, GetItem, GetQuit, EventSent, EventDropped, AfterError, stopVars, apiVars
<1>9. CASE Leave
  BY <1>9 DEF Leave, StopAt, apiVars, workVars
<1>10. ASSUME NEW c \in Stoppers, ShutDownQueue(c) PROVE StopInv'
  BY <1>10 DEF ShutDownQueue, StopAt, apiVars, workVars
<1>11. ASSUME NEW c \in Stoppers, CloseStopCh(c) PROVE StopInv'
  BY <1>11 DEF CloseStopCh, StopAt, apiVars, workVars
<1>12. ASSUME NEW c \in Stoppers, FactoryShutdown(c) PROVE StopInv'
  BY <1>12 DEF FactoryShutdown, ReflectorGone, StopAt, apiVars, workVars
<1>13. ASSUME NEW c \in Stoppers, StopAgain(c) PROVE StopInv'
  BY <1>13 DEF StopAgain, StopAt, apiVars, workVars
<1>14. ASSUME NEW c \in Stoppers, StopReturns(c) PROVE StopInv'
  BY <1>14 DEF StopReturns, WorkerGone, StopAt, apiVars, workVars
<1>15. CASE UNCHANGED vars
  BY <1>1, <1>15 DEF vars, apiVars, workVars
<1> QED
  BY <1>1, <1>2, <1>3, <1>4, <1>5, <1>6, <1>7, <1>8, <1>9, <1>10, <1>11, <1>12, <1>13, <1>14, <1>15
  DEF Next, workVars, apiVars, HasSynced, Handle, StopStep, FirstCall, FirstCallFails, TakeEvent, RunBatch,
      PeriodicCall, ProviderCall, Users, Apply, Delete, Edit

\* Every step keeps WorkerInv: a queue that is shut down takes no more events,
\* so the worker leaves it empty.
LEMMA WorkerInvStep == TypeInv /\ StopInv /\ WorkerInv /\ [Next]_vars => WorkerInv'
<1> SUFFICES ASSUME TypeInv, StopInv, WorkerInv, [Next]_vars PROVE WorkerInv'
  OBVIOUS
<1> USE DEF WorkerInv
<1>1. CASE UNCHANGED <<worker, queue, reflector, queueDown>>
  BY <1>1
<1>2. CASE Start
  BY <1>2 DEF Start
<1>3. CASE InitialList
  BY <1>3 DEF InitialList, stopVars, workVars
<1>4. CASE ReflectorEnds
  BY <1>4 DEF ReflectorEnds, stopVars, workVars
<1>5. ASSUME NEW s \in Secrets, Handle(s) PROVE WorkerInv'
  BY <1>5 DEF Handle, stopVars
<1>6. CASE WorkerStep
  BY <1>6 DEF WorkerStep, GetItem, GetQuit, EventSent, EventDropped, AfterError, stopVars, apiVars
<1>7. ASSUME NEW c \in Stoppers, ShutDownQueue(c) PROVE WorkerInv'
  BY <1>7 DEF ShutDownQueue, apiVars, workVars
<1> QED
  BY <1>1, <1>2, <1>3, <1>4, <1>5, <1>6, <1>7
  DEF Next, vars, workVars, apiVars, stopVars, StartFails, CacheSynced, CacheNotSynced, HasSynced,
      StopStep, CloseStopCh, FactoryShutdown, StopAgain, StopReturns, FirstCall, FirstCallFails, TakeEvent, RunBatch,
      PeriodicCall, ProviderCall, Leave, Users, Apply, Delete, Edit

\* Every step keeps SyncInv.
LEMMA SyncInvStep == TypeInv /\ StopInv /\ SyncInv /\ [Next]_vars => SyncInv'
<1> SUFFICES ASSUME TypeInv, StopInv, SyncInv, [Next]_vars PROVE SyncInv'
  OBVIOUS
<1> USE DEF SyncInv
<1>1. CASE UNCHANGED <<synced, reflector, stopCh>>
  BY <1>1
<1>2. CASE Start
  BY <1>2 DEF Start, StopInv
<1>3. CASE InitialList
  BY <1>3 DEF InitialList, stopVars
<1>4. CASE HasSynced
  BY <1>4 DEF HasSynced, stopVars
<1>5. CASE ReflectorEnds
  BY <1>5 DEF ReflectorEnds, stopVars
<1>6. ASSUME NEW c \in Stoppers, CloseStopCh(c) PROVE SyncInv'
  BY <1>6 DEF CloseStopCh, apiVars
<1> QED
  BY <1>1, <1>2, <1>3, <1>4, <1>5, <1>6
  DEF Next, vars, apiVars, stopVars, StartFails, CacheSynced, CacheNotSynced, Handle, WorkerStep,
      GetItem, GetQuit, EventSent, EventDropped, StopStep, ShutDownQueue, FactoryShutdown, StopAgain,
      StopReturns, FirstCall, FirstCallFails, TakeEvent, RunBatch, PeriodicCall, ProviderCall, Leave, Users, Apply,
      Delete, Edit

ControlInv == TypeInv /\ StopInv /\ WorkerInv /\ SyncInv

\* The invariants of the goroutines hold in every state.
LEMMA ControlInvHolds == Spec => []ControlInv
<1>1. Init => StopInv /\ WorkerInv /\ SyncInv
  BY DEF Init, StopInv, WorkerInv, SyncInv, Stoppers
<1>2. ControlInv /\ [Next]_vars => StopInv' /\ WorkerInv' /\ SyncInv'
  BY StopInvStep, WorkerInvStep, SyncInvStep DEF ControlInv
<1> QED BY <1>1, <1>2, TypeInvHolds, PTL DEF Spec, ControlInv

\* Once the entry point is past its last Stop no goroutine of the informer can
\* send or queue an event, and the queue is empty, whoever else called Stop.
THEOREM StopLeavesNothingHolds == Spec => []StopLeavesNothing
<1>1. ControlInv => StopLeavesNothing
  BY DEF ControlInv, StopInv, WorkerInv, StopLeavesNothing
<1> QED BY <1>1, ControlInvHolds, PTL

-----------------------------------------------------------------------------
\* A relevant change of s has not reached the handlers.
Undelivered(s) == \E i \in DOMAIN deltas[s] : RelevantDelta(deltas[s][i])

\* What NoEditForgotten says of one Secret.
Remembered(s) == Known(s) \/ s \in silent \/ RunAhead \/ (synced /\ Undelivered(s))

\* An edit that leaves a Secret labelled and does more than respell is a relevant
\* change: what the handlers compare is all else that the provider reads.
LEMMA EditIsRelevant ==
    ASSUME NEW old \in States \cup {Absent}, NEW new \in States,
           ~Respelled(old, new), hasManagedByProviderLabel(new)
    PROVE  RelevantDelta([old |-> old, new |-> new])
<1>1. CASE old = Absent
  BY <1>1 DEF RelevantDelta
<1>2. CASE old # Absent
  <2>1. old \in States /\ new # Absent BY <1>2, SortsAssumption
  <2>2. CASE old.label = "no"
    BY <1>2, <2>2 DEF RelevantDelta, RelevantUpdate, labelsChanged, hasManagedByProviderLabel
  <2>3. CASE old.map # new.map
    BY <1>2, <2>3 DEF RelevantDelta, RelevantUpdate, conjurMapChanged
  <2>4. CASE old.label # "no" /\ old.map = new.map
    <3>1. {old.label, new.label} \subseteq {"true", "truthy"}
      BY <2>1, <2>4 DEF States, Labels, hasManagedByProviderLabel
    <3>2. ~(SameText(old.groups.specs, new.groups.specs)
            /\ SameText(old.groups.template, new.groups.template))
      BY <2>1, <2>4, <1>2, <3>1 DEF Respelled
    <3>3. \A a, b : Lookup(a) = Lookup(b) => SameText(a, b)
      BY DEF Lookup, SameText
    <3>4. relevantAnnotationsChanged(old, new)
      BY <3>2, <3>3 DEF relevantAnnotationsChanged
    <3> QED BY <1>2, <3>4 DEF RelevantDelta, RelevantUpdate
  <2> QED BY <2>2, <2>3, <2>4
<1> QED BY <1>1, <1>2

\* A change that is appended for the handlers is still to be delivered.
LEMMA AppendedIsUndelivered ==
    ASSUME NEW q \in Seq(Delta), NEW d \in Delta
    PROVE  /\ RelevantDelta(d) => \E i \in DOMAIN Append(q, d) : RelevantDelta(Append(q, d)[i])
           /\ (\E i \in DOMAIN q : RelevantDelta(q[i]))
                 => \E i \in DOMAIN Append(q, d) : RelevantDelta(Append(q, d)[i])
<1>1. Len(q) + 1 \in DOMAIN Append(q, d) /\ Append(q, d)[Len(q) + 1] = d OBVIOUS
<1>2. \A i \in DOMAIN q : i \in DOMAIN Append(q, d) /\ Append(q, d)[i] = q[i] OBVIOUS
<1> QED BY <1>1, <1>2

\* If the first change is not the relevant one, the rest holds one.
LEMMA RelevantInTail ==
    ASSUME NEW q \in Seq(Delta), q # <<>>, ~RelevantDelta(Head(q)),
           NEW i \in DOMAIN q, RelevantDelta(q[i])
    PROVE  \E j \in DOMAIN Tail(q) : RelevantDelta(Tail(q)[j])
<1>1. i # 1 BY DEF RelevantDelta
<1>2. i - 1 \in DOMAIN Tail(q) /\ Tail(q)[i - 1] = q[i] BY <1>1
<1> QED BY <1>2

\* Every step keeps each edit remembered until the provider lists it.
LEMMA NoEditForgottenStep == ControlInv /\ NoEditForgotten /\ [Next]_vars => NoEditForgotten'
<1> SUFFICES ASSUME ControlInv, NoEditForgotten, [Next]_vars, ~queueDown',
                    NEW s \in Secrets
             PROVE  Remembered(s)'
  BY DEF NoEditForgotten, Remembered, Undelivered
<1>a. /\ ApiType /\ WorkType /\ FlagType /\ StopInv /\ WorkerInv /\ SyncInv
  BY DEF ControlInv, TypeInv
<1>b. ~queueDown => Remembered(s)
  BY DEF NoEditForgotten, Remembered, Undelivered
<1>1. CASE UNCHANGED <<cluster, listed, silent, synced, deltas, queue, worker, events, batch,
                       queueDown>>
  BY <1>1, <1>b DEF Remembered, Known, RunAhead, Undelivered
<1>2. CASE ProviderCall
  <2>1. Known(s)'
    BY <1>2, <1>a, ProviderCallFacts DEF Known, ProviderCall
  <2> QED BY <2>1 DEF Remembered
<1>3. CASE Start
  BY <1>3, <1>a, <1>b DEF Start, StopInv, provVars, Remembered, Known, RunAhead, Undelivered
<1>4. CASE InitialList
  <2>1. ~synced BY <1>4, <1>a DEF InitialList, SyncInv
  <2> QED BY <1>4, <1>b, <2>1
    DEF InitialList, workVars, stopVars, provVars, Remembered, Known, RunAhead
<1>5. CASE HasSynced
  BY <1>5, <1>b DEF HasSynced, workVars, stopVars, provVars, Remembered, Known, RunAhead, Undelivered
<1>6. CASE ReflectorEnds
  BY <1>6, <1>a DEF ReflectorEnds, stopVars, StopInv
<1>7. ASSUME NEW t \in Secrets, Handle(t) PROVE Remembered(s)'
  <2>1. ~queueDown BY <1>7 DEF Handle, stopVars
  <2>2. /\ UNCHANGED <<cluster, listed, silent, synced, worker, events, batch>>
        /\ queue' \in {queue, queue + 1}
    BY <1>7 DEF Handle, provVars
  <2>3. CASE Known(s) \/ s \in silent \/ RunAhead
    BY <2>2, <2>3, <1>a DEF Remembered, Known, RunAhead, WorkType
  <2>4. CASE synced /\ Undelivered(s)
    <3>1. PICK i \in DOMAIN deltas[s] : RelevantDelta(deltas[s][i]) BY <2>4 DEF Undelivered
    <3>2. CASE t # s
      <4>1. deltas'[s] = deltas[s] BY <1>7, <3>2, <1>a DEF Handle, ApiType
      <4> QED BY <2>2, <2>4, <4>1 DEF Remembered, Undelivered
    <3>3. CASE t = s /\ RelevantDelta(Head(deltas[s]))
      <4>1. queue' = queue + 1 BY <1>7, <2>1, <2>4, <3>3 DEF Handle
      <4> QED BY <4>1, <1>a DEF Remembered, RunAhead, WorkType
    <3>4. CASE t = s /\ ~RelevantDelta(Head(deltas[s]))
      <4>1. deltas'[s] = Tail(deltas[s]) /\ deltas[s] # <<>> /\ deltas[s] \in Seq(Delta)
        BY <1>7, <3>4, <1>a DEF Handle, ApiType
      <4>2. \E j \in DOMAIN Tail(deltas[s]) : RelevantDelta(Tail(deltas[s])[j])
        BY <4>1, <3>1, <3>4, RelevantInTail
      <4> QED BY <2>2, <2>4, <4>1, <4>2 DEF Remembered, Undelivered
    <3> QED BY <3>2, <3>3, <3>4
  <2> QED BY <1>b, <2>1, <2>3, <2>4 DEF Remembered
<1>8. CASE WorkerStep
  <2>0. UNCHANGED <<apiVars, stopVars, provVars>>
    BY <1>8 DEF WorkerStep, GetItem, GetQuit, EventSent, EventDropped
  <2>1. ~queueDown /\ UNCHANGED <<cluster, listed, silent, synced, deltas, batch>>
    BY <2>0 DEF apiVars, stopVars, provVars
  <2>2. RunAhead => RunAhead'
    BY <1>8, <1>a, <2>1, BoundsAssumption
    DEF WorkerStep, GetItem, GetQuit, EventSent, EventDropped, TimesOut, RunAhead, WorkType
  <2> QED BY <1>b, <2>1, <2>2 DEF Remembered, Known, Undelivered
<1>9. CASE TakeEvent
  BY <1>9 DEF TakeEvent, Remembered, RunAhead
<1>10. ASSUME NEW t \in Secrets, Apply(t) PROVE Remembered(s)'
  <2>0. (IF cluster[t] = Absent THEN "old" ELSE cluster[t].data) \in {"new", "old"}
    BY <1>a DEF ApiType, States
  <2>1. PICK new \in States :
           /\ Edit(t, new)
           /\ deltas' = [deltas EXCEPT ![t] = Deliver(t, cluster[t], new)]
    BY <1>10, <2>0, AppliedFacts DEF Apply
  <2>2. ~queueDown /\ UNCHANGED <<listed, synced, reflector, queue, worker, events, batch>>
    BY <2>1 DEF Edit, workVars, stopVars
  <2>3. CASE t # s
    <3>1. cluster'[s] = cluster[s] /\ deltas'[s] = deltas[s] /\ (s \in silent => s \in silent')
      BY <2>1, <2>3, <1>a DEF Edit, ApiType
    <3> QED BY <1>b, <2>2, <3>1 DEF Remembered, Known, RunAhead, Undelivered
  <2>4. CASE t = s /\ ~synced
    BY <2>1, <2>4 DEF Edit, Remembered
  <2>5. CASE t = s /\ synced
    <3>1. cluster'[s] = new BY <2>1, <2>5, <1>a DEF Edit, ApiType
    <3>2. CASE ~Selected(new)
      BY <3>1, <3>2 DEF Remembered, Known
    <3>4. CASE Respelled(cluster[s], new) /\ Known(s)
      BY <2>1, <2>5, <3>4 DEF Edit, Remembered
    <3>0. reflector = "watching" BY <2>2, <2>5, <1>a DEF SyncInv, StopInv
    <3>5. CASE Respelled(cluster[s], new) /\ ~Known(s)
      <4>1. silent' = silent BY <2>1, <2>5, <3>5 DEF Edit
      <4>2. Undelivered(s) => Undelivered(s)'
        <5> DEFINE d == [old |-> cluster[s], new |-> new]
        <5>1. d \in Delta /\ deltas[s] \in Seq(Delta) BY <1>a DEF ApiType, Delta
        <5>2. deltas'[s] = Append(deltas[s], d) BY <2>1, <2>5, <3>0, <1>a DEF Deliver, ApiType
        <5> HIDE DEF d
        <5> QED BY <5>1, <5>2, AppendedIsUndelivered DEF Undelivered
      <4> QED BY <1>b, <2>2, <3>5, <4>1, <4>2 DEF Remembered, RunAhead
    <3>3. CASE Selected(new) /\ ~Respelled(cluster[s], new)
      <4>0. hasManagedByProviderLabel(new) BY <3>3 DEF Selected, hasManagedByProviderLabel
      <4>1. reflector = "watching" BY <2>2, <2>5, <1>a DEF SyncInv, StopInv
      <4> DEFINE d == [old |-> cluster[s], new |-> new]
      <4>2. d \in Delta /\ deltas[s] \in Seq(Delta) BY <1>a DEF ApiType, Delta
      <4>3. deltas'[s] = Append(deltas[s], d) BY <2>1, <2>5, <4>1, <1>a DEF Deliver, ApiType
      <4>4. RelevantDelta(d) BY <3>3, <4>0, <1>a, EditIsRelevant DEF ApiType
      <4> HIDE DEF d
      <4>5. \E i \in DOMAIN Append(deltas[s], d) : RelevantDelta(Append(deltas[s], d)[i])
        BY <4>2, <4>4, AppendedIsUndelivered
      <4> QED BY <2>2, <2>5, <4>3, <4>5 DEF Remembered, Undelivered
    <3> QED BY <3>2, <3>3, <3>4, <3>5
  <2> QED BY <2>3, <2>4, <2>5
<1>11. ASSUME NEW t \in Secrets, Delete(t) PROVE Remembered(s)'
  <2>2. ~queueDown /\ UNCHANGED <<listed, synced, deltas, queue, worker, events, batch>>
    BY <1>11 DEF Delete, Edit, workVars, stopVars
  <2>3. CASE t = s
    <3>1. cluster'[s] = Absent BY <1>11, <2>3, <1>a DEF Delete, Edit, ApiType
    <3> QED BY <3>1 DEF Remembered, Known, Selected
  <2>4. CASE t # s
    <3>1. cluster'[s] = cluster[s] /\ (s \in silent => s \in silent')
      BY <1>11, <2>4, <1>a DEF Delete, Edit, ApiType
    <3> QED BY <1>b, <2>2, <3>1 DEF Remembered, Known, RunAhead, Undelivered
  <2> QED BY <2>3, <2>4
<1>12. ASSUME NEW c \in Stoppers, ShutDownQueue(c) PROVE Remembered(s)'
  BY <1>12 DEF ShutDownQueue
<1> QED
  BY <1>1, <1>2, <1>3, <1>4, <1>5, <1>6, <1>7, <1>8, <1>9, <1>10, <1>11, <1>12
  DEF Next, vars, apiVars, workVars, stopVars, provVars, StartFails, CacheSynced, CacheNotSynced,
      StopStep, CloseStopCh, FactoryShutdown, StopAgain, StopReturns, FirstCall, FirstCallFails,
      RunBatch, PeriodicCall, Leave, Users

\* No edit of a selected Secret after the sync is forgotten while the informer
\* runs, unless it only respells the label or an annotation of a Secret that the
\* provider knows: until the provider lists it, a relevant change waits for the handlers
\* or an event for the provider, although events are dropped when the channel
\* is full. For any Secrets, any capacity and any number of edits.
THEOREM NoEditForgottenHolds == Spec => []NoEditForgotten
<1>1. Init => NoEditForgotten
  BY DEF Init, NoEditForgotten
<1> QED BY <1>1, ControlInvHolds, NoEditForgottenStep, PTL DEF Spec
====
