------------------------- MODULE RunSecretsProviderProofs -------------------------
(***************************************************************************)
(* Proofs about the scheduler. Every invariant is carried over a step by   *)
(* one lemma with one case per action; the named invariants below (Phases, *)
(* Ended, Results, Delivery, CounterInv, BudgetInv, LatestInv, MainInv)    *)
(* are the strengthenings the safety properties need.                      *)
(***************************************************************************)
EXTENDS RunSecretsProvider, TLAPS, SequenceTheorems

\* What a configuration of RunSecretsProvider is known to be.
LEMMA ConfigFacts ==
    ASSUME TypeOK
    PROVE  /\ RetryCountLimit \in Int
           /\ RetryEnabled \in BOOLEAN /\ Periodic \in BOOLEAN /\ Informer \in BOOLEAN
  BY ConfigAssumption DEF TypeOK, ControlType, ConfigType, RetryCountLimit, RetryEnabled,
     Periodic, Informer

\* No step of RunSecretsProvider or its surroundings changes the configuration.
LEMMA ConfigFrozen == [Next]_vars => config' = config
  BY DEF Next, vars, MainStep, PeriodicStep, InformerStep, Time, Environment, CallStep, Reset, Op,
      Attempt, NextBackOff, Increment, Notify, SleepEnds, setReady, SetSecretsUpdated,
      SendError, SeeQuit, CopyScripts, InitialError, SetSecretsProvided, Spawn, Shutdown,
      Return, TakeTick, TakeEvent, TakeTimer, Cleanup, Tick, DebounceExpires, MaxDelayPasses,
      NotifySecretEvent, ProviderQuit, Signalled, Kill, AppStarts, AppRestarts, Restart

\* A step keeps the types of the labels, results, counters and timer states that
\* the goroutines of RunSecretsProvider work on.
LEMMA ControlTypeStep == TypeOK /\ [Next]_vars => ControlType'
<1> SUFFICES ASSUME TypeOK, [Next]_vars
             PROVE  ControlType'
  OBVIOUS
<1> USE DEF TypeOK, Goto, fileVars, chanVars, batchVars, appVars, histVars, procVars, ControlType,
         Callers, Labels, CallLabels
<1>1. ASSUME NEW c \in Callers, Reset(c) PROVE ControlType'
  BY <1>1 DEF Reset, CountAfterReset
<1>2. ASSUME NEW c \in Callers, Op(c) PROVE ControlType'
  BY <1>2 DEF Op, Attempt, Outcomes, CountAttempt
<1>3. ASSUME NEW c \in Callers, NextBackOff(c) PROVE ControlType'
  BY <1>3 DEF NextBackOff
<1>4. ASSUME NEW c \in Callers, Increment(c) PROVE ControlType'
  BY <1>4 DEF Increment, CountsAfterRetry
<1>5. ASSUME NEW c \in Callers, Notify(c) PROVE ControlType'
  BY <1>5 DEF Notify
<1>6. ASSUME NEW c \in Callers, SleepEnds(c) PROVE ControlType'
  BY <1>6 DEF SleepEnds
<1>7. ASSUME NEW c \in Callers, setReady(c) PROVE ControlType'
  BY <1>7 DEF setReady
<1>8. ASSUME NEW c \in Callers, SetSecretsUpdated(c) PROVE ControlType'
  BY <1>8 DEF SetSecretsUpdated, PassEnds
<1>9. ASSUME NEW c \in Callers, SendError(c) PROVE ControlType'
  BY <1>9 DEF SendError, PassEnds
<1>10. ASSUME NEW c \in Callers, SeeQuit(c) PROVE ControlType'
  BY <1>10 DEF SeeQuit
<1>11. CASE CopyScripts
  BY <1>11 DEF CopyScripts, CallStart, Exit
<1>12. CASE InitialError
  BY <1>12 DEF InitialError, Exit
<1>13. CASE SetSecretsProvided
  BY <1>13 DEF SetSecretsProvided, Exit
<1>14. CASE Spawn
  BY <1>14 DEF Spawn
<1>15. CASE Shutdown
  BY <1>15 DEF Shutdown
<1>16. CASE Return
  BY <1>16 DEF Return, Exit
<1>17. CASE TakeTick
  BY <1>17 DEF TakeTick, CallStart
<1>18. CASE TakeEvent
  <2>1. pc' \in [Callers -> Labels]
    BY <1>18 DEF TakeEvent, runProvideSecrets, CallStart
  <2>2. eventCount' \in 0..2
    <3>1. eventCount' = IF eventCount = 0 THEN 1 ELSE 2
      BY <1>18, Zenon DEF TakeEvent
    <3> QED
      BY <3>1
  <2>3. timer' \in {"nil", "armed", "fired"}
    BY <1>18, Zenon DEF TakeEvent
  <2> QED
    BY <1>18, <2>1, <2>2, <2>3 DEF TakeEvent
<1>19. CASE TakeTimer
  BY <1>19 DEF TakeTimer, runProvideSecrets, CallStart
<1>20. CASE Cleanup
  BY <1>20 DEF Cleanup, Attempt, Outcomes, CountAttempt
<1>21. CASE Tick
  BY <1>21 DEF Tick
<1>22. CASE DebounceExpires
  BY <1>22 DEF DebounceExpires
<1>23. CASE MaxDelayPasses
  BY <1>23 DEF MaxDelayPasses
<1>24. CASE NotifySecretEvent
  BY <1>24 DEF NotifySecretEvent
<1>25. CASE ProviderQuit
  BY <1>25 DEF ProviderQuit
<1>26. CASE Signalled
  BY <1>26 DEF Signalled, Exit
<1>27. CASE Kill
  BY <1>27 DEF Kill, Exit
<1>28. CASE AppStarts
  BY <1>28 DEF AppStarts
<1>29. CASE AppRestarts
  BY <1>29 DEF AppRestarts
<1>30. CASE Restart
  BY <1>30 DEF Restart, ProcessStart
<1>31. CASE UNCHANGED vars
  BY <1>31 DEF vars
<1> QED
  BY <1>1, <1>2, <1>3, <1>4, <1>5, <1>6, <1>7, <1>8, <1>9, <1>10, <1>11, <1>12, <1>13, <1>14, <1>15, <1>16,
     <1>17, <1>18, <1>19, <1>20, <1>21, <1>22, <1>23, <1>24, <1>25, <1>26, <1>27, <1>28, <1>29, <1>30, <1>31
  DEF Next, MainStep, PeriodicStep, InformerStep, Time, Environment, CallStep, Callers

\* A step keeps every flag (readiness, sentinel files, channels) a Boolean.
LEMMA FlagTypeStep == TypeOK /\ [Next]_vars => FlagType'
<1> SUFFICES ASSUME TypeOK, [Next]_vars
             PROVE  FlagType'
  OBVIOUS
<1> USE DEF TypeOK, Goto, fileVars, chanVars, batchVars, appVars, histVars, procVars, FlagType
<1>1. ASSUME NEW c \in Callers, Reset(c) PROVE FlagType'
  BY <1>1 DEF Reset, CountAfterReset
<1>2. ASSUME NEW c \in Callers, Op(c) PROVE FlagType'
  BY <1>2 DEF Op, Attempt
<1>3. ASSUME NEW c \in Callers, NextBackOff(c) PROVE FlagType'
  BY <1>3 DEF NextBackOff
<1>4. ASSUME NEW c \in Callers, Increment(c) PROVE FlagType'
  BY <1>4 DEF Increment, CountsAfterRetry
<1>5. ASSUME NEW c \in Callers, Notify(c) PROVE FlagType'
  BY <1>5 DEF Notify, ReadyAfterRetry
<1>6. ASSUME NEW c \in Callers, SleepEnds(c) PROVE FlagType'
  BY <1>6 DEF SleepEnds
<1>7. ASSUME NEW c \in Callers, setReady(c) PROVE FlagType'
  BY <1>7 DEF setReady, ReadyAfterCall, Failed
<1>8. ASSUME NEW c \in Callers, SetSecretsUpdated(c) PROVE FlagType'
  BY <1>8 DEF SetSecretsUpdated, PassEnds
<1>9. ASSUME NEW c \in Callers, SendError(c) PROVE FlagType'
  BY <1>9 DEF SendError, ErrorAfterReceive, PassEnds
<1>10. ASSUME NEW c \in Callers, SeeQuit(c) PROVE FlagType'
  BY <1>10 DEF SeeQuit
<1>11. CASE CopyScripts
  <2>1. provided' \in BOOLEAN /\ updatedFile' \in BOOLEAN /\ unseen' \in BOOLEAN
        /\ dirty' \in BOOLEAN /\ delivered' \in BOOLEAN
    BY <1>11 DEF CopyScripts
  <2>2. CASE Exit("error")
    BY <2>1, <2>2 DEF Exit
  <2>3. CASE UNCHANGED <<mainErr, ready, chanVars, batchVars, appVars>>
    BY <2>1, <2>3
  <2> QED
    BY <1>11, <2>2, <2>3 DEF CopyScripts
<1>12. CASE InitialError
  BY <1>12 DEF InitialError, Exit
<1>13. CASE SetSecretsProvided
  <2>1. provided' \in BOOLEAN
    BY <1>13, Zenon DEF SetSecretsProvided
  <2>2. updatedFile' \in BOOLEAN /\ unseen' \in BOOLEAN /\ dirty' \in BOOLEAN
        /\ delivered' \in BOOLEAN
    BY <1>13 DEF SetSecretsProvided
  <2>3. PICK o \in StatusOutcomes :
          \/ Exit(IF MustSignalProvided /\ o.err THEN "error" ELSE "ok")
          \/ UNCHANGED <<mainErr, ready, chanVars, batchVars, lossy>>
    BY <1>13 DEF SetSecretsProvided
  <2> QED
    BY <2>1, <2>2, <2>3 DEF Exit
<1>14. CASE Spawn
  BY <1>14, ConfigFacts DEF Spawn
<1>15. CASE Shutdown
  BY <1>15 DEF Shutdown
<1>16. CASE Return
  BY <1>16 DEF Return, Exit
<1>17. CASE TakeTick
  BY <1>17 DEF TakeTick
<1>18. CASE TakeEvent
  BY <1>18 DEF TakeEvent, runProvideSecrets
<1>19. CASE TakeTimer
  BY <1>19 DEF TakeTimer, runProvideSecrets
<1>20. CASE Cleanup
  BY <1>20 DEF Cleanup, Attempt
<1>21. CASE Tick
  BY <1>21 DEF Tick
<1>22. CASE DebounceExpires
  BY <1>22 DEF DebounceExpires
<1>23. CASE MaxDelayPasses
  BY <1>23 DEF MaxDelayPasses
<1>24. CASE NotifySecretEvent
  BY <1>24 DEF NotifySecretEvent
<1>25. CASE ProviderQuit
  BY <1>25 DEF ProviderQuit
<1>26. CASE Signalled
  BY <1>26 DEF Signalled, Exit
<1>27. CASE Kill
  BY <1>27 DEF Kill, Exit
<1>28. CASE AppStarts
  BY <1>28 DEF AppStarts
<1>29. CASE AppRestarts
  BY <1>29 DEF AppRestarts
<1>30. CASE Restart
  BY <1>30 DEF Restart
<1>31. CASE UNCHANGED vars
  BY <1>31 DEF vars
<1> QED
  BY <1>1, <1>2, <1>3, <1>4, <1>5, <1>6, <1>7, <1>8, <1>9, <1>10, <1>11, <1>12, <1>13, <1>14, <1>15, <1>16,
     <1>17, <1>18, <1>19, <1>20, <1>21, <1>22, <1>23, <1>24, <1>25, <1>26, <1>27, <1>28, <1>29, <1>30, <1>31
  DEF Next, MainStep, PeriodicStep, InformerStep, Time, Environment, CallStep, Callers


\* A step keeps the InformerEvents channel within its capacity: the notifier
\* sends only while there is room, the informer goroutine only removes.
LEMMA QueueTypeStep == TypeOK /\ [Next]_vars => QueueType'
<1> SUFFICES ASSUME TypeOK, [Next]_vars
             PROVE  QueueType'
  OBVIOUS
<1> USE ConfigAssumption DEF TypeOK, QueueType
<1>1. CASE UNCHANGED events
  BY <1>1
<1>2. CASE events' = <<>>
  BY <1>2
<1>3. CASE TakeEvent
  <2>1. events # <<>> /\ events' = Tail(events)
    BY <1>3 DEF TakeEvent
  <2>2. Tail(events) \in Seq(BOOLEAN) /\ Len(Tail(events)) = Len(events) - 1
    BY <2>1, HeadTailProperties
  <2>3. Len(events) \in Nat
    BY LenProperties
  <2> QED
    BY <2>1, <2>2, <2>3
<1>4. CASE NotifySecretEvent
  <2>1. CASE Len(events) < EventsCap /\ \E r \in BOOLEAN : events' = Append(events, r)
    <3>1. PICK r \in BOOLEAN : events' = Append(events, r)
      BY <2>1
    <3>2. events' \in Seq(BOOLEAN) /\ Len(events') = Len(events) + 1 /\ Len(events) \in Nat
      BY <3>1, AppendProperties, LenProperties
    <3> QED
      BY <2>1, <3>2
  <2> QED
    <3>1. Len(events) \in Nat
      BY LenProperties
    <3> QED
      BY <1>1, <1>4, <2>1, <3>1 DEF NotifySecretEvent, ChannelFull
<1> QED
  BY <1>1, <1>2, <1>3, <1>4
  DEF Next, vars, MainStep, PeriodicStep, InformerStep, Time, Environment, CallStep, Reset, Op,
      Attempt, NextBackOff, Increment, Notify, SleepEnds, setReady, SetSecretsUpdated,
      SendError, SeeQuit, CopyScripts, InitialError, SetSecretsProvided, Spawn, Shutdown,
      Return, TakeTick, TakeTimer, Cleanup, Tick, DebounceExpires, MaxDelayPasses,
      ProviderQuit, Signalled, Kill, AppStarts, AppRestarts, Restart, Exit

\* The state in which the process starts is well typed.
LEMMA InitTypeOK == Init => TypeOK
<1>1. Init => ControlType
  BY DEF Init, ControlType, ProcessStart, Callers, Labels, CallLabels
<1>2. Init => FlagType
  BY DEF Init, FlagType
<1>3. Init => QueueType
  BY ConfigAssumption DEF Init, QueueType
<1> QED
  BY <1>1, <1>2, <1>3 DEF TypeOK

\* A step of any goroutine, timer or environment keeps TypeOK.
LEMMA TypeStep == TypeOK /\ [Next]_vars => TypeOK'
  BY ControlTypeStep, FlagTypeStep, QueueTypeStep DEF TypeOK

\* Every variable keeps its type (TypeOK).
THEOREM TypeCorrect == Spec => []TypeOK
  BY InitTypeOK, TypeStep, PTL DEF Spec

-----------------------------------------------------------------------------
MainLabels == {"copy", "reset", "op", "next", "store", "notify", "sleep", "ready", "status",
               "spawn", "wait", "signal", "shutdown", "grace", "gone"}
BackgroundLabels == CallLabels \cup {"off", "idle", "status", "send", "done", "gone"}

\* The background goroutines run only while RunSecretsProvider waits for them
\* or shuts them down, and only the configured ones are ever started.
Phases ==
    /\ pc["main"] \in MainLabels
    /\ \A c \in Callers \ {"main"} :
          /\ pc[c] \in BackgroundLabels
          /\ pc[c] \notin {"off", "gone"} =>
                c \in Background /\ pc["main"] \in {"wait", "shutdown", "grace"}

\* Nothing of a process is left once it has ended.
Ended ==
    exit # "none" => /\ ~ready
                     /\ \A c \in Callers : pc[c] = "gone" /\ result[c] = "none"

\* The result of a call is an error while it retries, and is there to be
\* looked at from the last attempt on.
Results ==
    \A c \in Callers :
       /\ pc[c] \in {"next", "store", "notify", "sleep"} => result[c] = "error"
       /\ pc[c] \in {"ready", "status"} => result[c] # "none"

\* Who is ready, or is about to be, has delivered.
Delivery ==
    /\ ready => delivered
    /\ \A c \in Callers : result[c] \in {"unchanged", "updated"} => delivered

\* A step keeps the order of the phases of RunSecretsProvider: the background
\* goroutines run only once the initial call of main is over.
LEMMA PhasesStep == TypeOK /\ Phases /\ [Next]_vars => Phases'
<1> SUFFICES ASSUME TypeOK, Phases, [Next]_vars
             PROVE  Phases'
  OBVIOUS
<1> USE DEF TypeOK, ControlType, Goto, procVars, fileVars, chanVars, batchVars, appVars, histVars,
         Phases, MainLabels, BackgroundLabels, CallLabels, Callers, Background, Periodic, Informer
<1>1. ASSUME NEW c \in Callers, Reset(c) PROVE Phases'
  BY <1>1 DEF Reset, CountAfterReset
<1>2. ASSUME NEW c \in Callers, Op(c) PROVE Phases'
  BY <1>2 DEF Op, Attempt, Outcomes
<1>3. ASSUME NEW c \in Callers, NextBackOff(c) PROVE Phases'
  BY <1>3 DEF NextBackOff
<1>4. ASSUME NEW c \in Callers, Increment(c) PROVE Phases'
  BY <1>4 DEF Increment, CountsAfterRetry
<1>5. ASSUME NEW c \in Callers, Notify(c) PROVE Phases'
  BY <1>5 DEF Notify, ReadyAfterRetry
<1>6. ASSUME NEW c \in Callers, SleepEnds(c) PROVE Phases'
  BY <1>6 DEF SleepEnds
<1>7. ASSUME NEW c \in Callers, setReady(c) PROVE Phases'
  BY <1>7 DEF setReady, ReadyAfterCall, Failed
<1>8. ASSUME NEW c \in Callers, SetSecretsUpdated(c) PROVE Phases'
  BY <1>8 DEF SetSecretsUpdated, PassEnds, Failed, MustSignalUpdate
<1>9. ASSUME NEW c \in Callers, SendError(c) PROVE Phases'
  BY <1>9 DEF SendError, PassEnds
<1>10. ASSUME NEW c \in Callers, SeeQuit(c) PROVE Phases'
  BY <1>10 DEF SeeQuit
<1>11. CASE CopyScripts
  BY <1>11 DEF CopyScripts, CallStart, Exit
<1>12. CASE InitialError
  BY <1>12 DEF InitialError, Exit
<1>13. CASE SetSecretsProvided
  BY <1>13 DEF SetSecretsProvided, Exit
<1>14. CASE Spawn
  BY <1>14 DEF Spawn, Background
<1>15. CASE Shutdown
  BY <1>15 DEF Shutdown
<1>16. CASE Return
  BY <1>16 DEF Return, Exit
<1>17. CASE TakeTick
  BY <1>17 DEF TakeTick, CallStart
<1>18. CASE TakeEvent
  <2>1. pc["informer"] = "idle" /\ config' = config
    BY <1>18 DEF TakeEvent
  <2>2. pc' = pc \/ \E l \in {"cleanup", "reset", "op"} : Goto("informer", l)
    BY <1>18, Zenon DEF TakeEvent, runProvideSecrets, CallStart
  <2> QED
    BY <2>1, <2>2
<1>19. CASE TakeTimer
  BY <1>19 DEF TakeTimer, runProvideSecrets, CallStart
<1>20. CASE Cleanup
  BY <1>20 DEF Cleanup, Attempt, Outcomes
<1>21. CASE Tick
  BY <1>21 DEF Tick
<1>22. CASE DebounceExpires
  BY <1>22 DEF DebounceExpires
<1>23. CASE MaxDelayPasses
  BY <1>23 DEF MaxDelayPasses
<1>24. CASE NotifySecretEvent
  BY <1>24 DEF NotifySecretEvent
<1>25. CASE ProviderQuit
  BY <1>25 DEF ProviderQuit
<1>26. CASE Signalled
  BY <1>26 DEF Signalled, Exit
<1>27. CASE Kill
  BY <1>27 DEF Kill, Exit
<1>28. CASE AppStarts
  BY <1>28 DEF AppStarts
<1>29. CASE AppRestarts
  BY <1>29 DEF AppRestarts
<1>30. CASE Restart
  BY <1>30 DEF Restart, ProcessStart
<1>31. CASE UNCHANGED vars
  BY <1>31 DEF vars
<1> QED
  BY <1>1, <1>2, <1>3, <1>4, <1>5, <1>6, <1>7, <1>8, <1>9, <1>10, <1>11, <1>12, <1>13, <1>14, <1>15, <1>16,
     <1>17, <1>18, <1>19, <1>20, <1>21, <1>22, <1>23, <1>24, <1>25, <1>26, <1>27, <1>28, <1>29, <1>30, <1>31
  DEF Next, MainStep, PeriodicStep, InformerStep, Time, Environment, CallStep, Callers

\* A step keeps what holds of an ended process: no goroutine and no readiness.
LEMMA EndedStep == TypeOK /\ Phases /\ Ended /\ [Next]_vars => Ended'
<1> SUFFICES ASSUME TypeOK, Phases, Ended, [Next]_vars
             PROVE  Ended'
  OBVIOUS
<1> USE DEF TypeOK, ControlType, Goto, procVars, fileVars, chanVars, batchVars, appVars, histVars, Ended
<1>1. ASSUME NEW c \in Callers, Reset(c) PROVE Ended'
  BY <1>1 DEF Reset, CountAfterReset
<1>2. ASSUME NEW c \in Callers, Op(c) PROVE Ended'
  BY <1>2 DEF Op, Attempt, Outcomes
<1>3. ASSUME NEW c \in Callers, NextBackOff(c) PROVE Ended'
  BY <1>3 DEF NextBackOff
<1>4. ASSUME NEW c \in Callers, Increment(c) PROVE Ended'
  BY <1>4 DEF Increment, CountsAfterRetry
<1>5. ASSUME NEW c \in Callers, Notify(c) PROVE Ended'
  BY <1>5 DEF Notify, ReadyAfterRetry
<1>6. ASSUME NEW c \in Callers, SleepEnds(c) PROVE Ended'
  BY <1>6 DEF SleepEnds
<1>7. ASSUME NEW c \in Callers, setReady(c) PROVE Ended'
  BY <1>7 DEF setReady, ReadyAfterCall, Failed
<1>8. ASSUME NEW c \in Callers, SetSecretsUpdated(c) PROVE Ended'
  BY <1>8 DEF SetSecretsUpdated, PassEnds, Failed, MustSignalUpdate
<1>9. ASSUME NEW c \in Callers, SendError(c) PROVE Ended'
  BY <1>9 DEF SendError, PassEnds
<1>10. ASSUME NEW c \in Callers, SeeQuit(c) PROVE Ended'
  BY <1>10 DEF SeeQuit
<1>11. CASE CopyScripts
  BY <1>11 DEF CopyScripts, CallStart, Exit
<1>12. CASE InitialError
  BY <1>12 DEF InitialError, Exit
<1>13. CASE SetSecretsProvided
  BY <1>13 DEF SetSecretsProvided, Exit
<1>14. CASE Spawn
  BY <1>14 DEF Spawn, Callers
<1>15. CASE Shutdown
  BY <1>15 DEF Shutdown
<1>16. CASE Return
  BY <1>16 DEF Return, Exit
<1>17. CASE TakeTick
  BY <1>17 DEF TakeTick, CallStart
<1>18. CASE TakeEvent
  BY <1>18 DEF TakeEvent, runProvideSecrets, CallStart
<1>19. CASE TakeTimer
  BY <1>19 DEF TakeTimer, runProvideSecrets, CallStart
<1>20. CASE Cleanup
  BY <1>20 DEF Cleanup, Attempt, Outcomes
<1>21. CASE Tick
  BY <1>21 DEF Tick
<1>22. CASE DebounceExpires
  BY <1>22 DEF DebounceExpires
<1>23. CASE MaxDelayPasses
  BY <1>23 DEF MaxDelayPasses
<1>24. CASE NotifySecretEvent
  BY <1>24 DEF NotifySecretEvent
<1>25. CASE ProviderQuit
  BY <1>25 DEF ProviderQuit
<1>26. CASE Signalled
  BY <1>26 DEF Signalled, Exit
<1>27. CASE Kill
  BY <1>27 DEF Kill, Exit
<1>28. CASE AppStarts
  BY <1>28 DEF AppStarts
<1>29. CASE AppRestarts
  BY <1>29 DEF AppRestarts
<1>30. CASE Restart
  BY <1>30 DEF Restart, ProcessStart
<1>31. CASE UNCHANGED vars
  BY <1>31 DEF vars
<1> QED
  BY <1>1, <1>2, <1>3, <1>4, <1>5, <1>6, <1>7, <1>8, <1>9, <1>10, <1>11, <1>12, <1>13, <1>14, <1>15, <1>16,
     <1>17, <1>18, <1>19, <1>20, <1>21, <1>22, <1>23, <1>24, <1>25, <1>26, <1>27, <1>28, <1>29, <1>30, <1>31
  DEF Next, MainStep, PeriodicStep, InformerStep, Time, Environment, CallStep, Callers

\* A step keeps the tie between where a goroutine stands and the result it holds.
LEMMA ResultsStep == TypeOK /\ Results /\ Phases /\ [Next]_vars => Results'
<1> SUFFICES ASSUME TypeOK, Results, Phases, [Next]_vars
             PROVE  Results'
  OBVIOUS
<1> USE DEF TypeOK, ControlType, Goto, procVars, fileVars, chanVars, batchVars, appVars, histVars, Results
<1>1. ASSUME NEW c \in Callers, Reset(c) PROVE Results'
  BY <1>1 DEF Reset, CountAfterReset
<1>2. ASSUME NEW c \in Callers, Op(c) PROVE Results'
  BY <1>2 DEF Op, Attempt, Outcomes
<1>3. ASSUME NEW c \in Callers, NextBackOff(c) PROVE Results'
  BY <1>3 DEF NextBackOff
<1>4. ASSUME NEW c \in Callers, Increment(c) PROVE Results'
  BY <1>4 DEF Increment, CountsAfterRetry
<1>5. ASSUME NEW c \in Callers, Notify(c) PROVE Results'
  BY <1>5 DEF Notify, ReadyAfterRetry
<1>6. ASSUME NEW c \in Callers, SleepEnds(c) PROVE Results'
  BY <1>6 DEF SleepEnds
<1>7. ASSUME NEW c \in Callers, setReady(c) PROVE Results'
  BY <1>7 DEF setReady, ReadyAfterCall, Failed
<1>8. ASSUME NEW c \in Callers, SetSecretsUpdated(c) PROVE Results'
  BY <1>8 DEF SetSecretsUpdated, PassEnds, Failed, MustSignalUpdate
<1>9. ASSUME NEW c \in Callers, SendError(c) PROVE Results'
  BY <1>9 DEF SendError, PassEnds
<1>10. ASSUME NEW c \in Callers, SeeQuit(c) PROVE Results'
  BY <1>10 DEF SeeQuit
<1>11. CASE CopyScripts
  BY <1>11 DEF CopyScripts, CallStart, Exit
<1>12. CASE InitialError
  BY <1>12 DEF InitialError, Exit
<1>13. CASE SetSecretsProvided
  BY <1>13 DEF SetSecretsProvided, Exit
<1>14. CASE Spawn
  BY <1>14 DEF Spawn
<1>15. CASE Shutdown
  BY <1>15 DEF Shutdown
<1>16. CASE Return
  BY <1>16 DEF Return, Exit
<1>17. CASE TakeTick
  BY <1>17 DEF TakeTick, CallStart
<1>18. CASE TakeEvent
  BY <1>18 DEF TakeEvent, runProvideSecrets, CallStart
<1>19. CASE TakeTimer
  BY <1>19 DEF TakeTimer, runProvideSecrets, CallStart
<1>20. CASE Cleanup
  BY <1>20 DEF Cleanup, Attempt, Outcomes
<1>21. CASE Tick
  BY <1>21 DEF Tick
<1>22. CASE DebounceExpires
  BY <1>22 DEF DebounceExpires
<1>23. CASE MaxDelayPasses
  BY <1>23 DEF MaxDelayPasses
<1>24. CASE NotifySecretEvent
  BY <1>24 DEF NotifySecretEvent
<1>25. CASE ProviderQuit
  BY <1>25 DEF ProviderQuit
<1>26. CASE Signalled
  BY <1>26 DEF Signalled, Exit
<1>27. CASE Kill
  BY <1>27 DEF Kill, Exit
<1>28. CASE AppStarts
  BY <1>28 DEF AppStarts
<1>29. CASE AppRestarts
  BY <1>29 DEF AppRestarts
<1>30. CASE Restart
  BY <1>30 DEF Restart, ProcessStart
<1>31. CASE UNCHANGED vars
  BY <1>31 DEF vars
<1> QED
  BY <1>1, <1>2, <1>3, <1>4, <1>5, <1>6, <1>7, <1>8, <1>9, <1>10, <1>11, <1>12, <1>13, <1>14, <1>15, <1>16,
     <1>17, <1>18, <1>19, <1>20, <1>21, <1>22, <1>23, <1>24, <1>25, <1>26, <1>27, <1>28, <1>29, <1>30, <1>31
  DEF Next, MainStep, PeriodicStep, InformerStep, Time, Environment, CallStep, Callers

\* A step keeps: readiness and successful results exist only after a delivery.
LEMMA DeliveryStep == TypeOK /\ Ended /\ Results /\ Delivery /\ [Next]_vars => Delivery'
<1> SUFFICES ASSUME TypeOK, Ended, Results, Delivery, [Next]_vars
             PROVE  Delivery'
  OBVIOUS
<1> USE DEF TypeOK, ControlType, Goto, procVars, fileVars, chanVars, batchVars, appVars, histVars,
         Results, Delivery
<1>1. ASSUME NEW c \in Callers, Reset(c) PROVE Delivery'
  BY <1>1 DEF Reset, CountAfterReset
<1>2. ASSUME NEW c \in Callers, Op(c) PROVE Delivery'
  <2>1. PICK o \in Outcomes : Attempt(c, o)
    BY <1>2 DEF Op
  <2>2. ready' = ready /\ result' = [result EXCEPT ![c] = o.ret]
    BY <2>1 DEF Attempt
  <2>3. delivered \/ o.ret # "error" => delivered'
    BY <2>1, Zenon DEF Attempt
  <2> QED
    BY <2>2, <2>3
<1>3. ASSUME NEW c \in Callers, NextBackOff(c) PROVE Delivery'
  BY <1>3 DEF NextBackOff
<1>4. ASSUME NEW c \in Callers, Increment(c) PROVE Delivery'
  BY <1>4 DEF Increment, CountsAfterRetry
<1>5. ASSUME NEW c \in Callers, Notify(c) PROVE Delivery'
  BY <1>5 DEF Notify, ReadyAfterRetry
<1>6. ASSUME NEW c \in Callers, SleepEnds(c) PROVE Delivery'
  BY <1>6 DEF SleepEnds
<1>7. ASSUME NEW c \in Callers, setReady(c) PROVE Delivery'
  BY <1>7 DEF setReady, ReadyAfterCall, Failed
<1>8. ASSUME NEW c \in Callers, SetSecretsUpdated(c) PROVE Delivery'
  BY <1>8 DEF SetSecretsUpdated, PassEnds, Failed, MustSignalUpdate
<1>9. ASSUME NEW c \in Callers, SendError(c) PROVE Delivery'
  BY <1>9 DEF SendError, PassEnds
<1>10. ASSUME NEW c \in Callers, SeeQuit(c) PROVE Delivery'
  BY <1>10 DEF SeeQuit
<1>11. CASE CopyScripts
  BY <1>11 DEF CopyScripts, CallStart, Exit
<1>12. CASE InitialError
  BY <1>12 DEF InitialError, Exit
<1>13. CASE SetSecretsProvided
  BY <1>13 DEF SetSecretsProvided, Exit
<1>14. CASE Spawn
  BY <1>14 DEF Spawn
<1>15. CASE Shutdown
  BY <1>15 DEF Shutdown
<1>16. CASE Return
  BY <1>16 DEF Return, Exit
<1>17. CASE TakeTick
  BY <1>17 DEF TakeTick, CallStart
<1>18. CASE TakeEvent
  BY <1>18 DEF TakeEvent, runProvideSecrets, CallStart
<1>19. CASE TakeTimer
  BY <1>19 DEF TakeTimer, runProvideSecrets, CallStart
<1>20. CASE Cleanup
  <2>1. PICK o \in Outcomes : Attempt("informer", o)
    BY <1>20 DEF Cleanup
  <2>2. ready' = ready /\ result' = [result EXCEPT !["informer"] = o.ret]
    BY <2>1 DEF Attempt
  <2>3. delivered \/ o.ret # "error" => delivered'
    BY <2>1, Zenon DEF Attempt
  <2> QED
    BY <2>2, <2>3
<1>21. CASE Tick
  BY <1>21 DEF Tick
<1>22. CASE DebounceExpires
  BY <1>22 DEF DebounceExpires
<1>23. CASE MaxDelayPasses
  BY <1>23 DEF MaxDelayPasses
<1>24. CASE NotifySecretEvent
  BY <1>24 DEF NotifySecretEvent
<1>25. CASE ProviderQuit
  BY <1>25 DEF ProviderQuit
<1>26. CASE Signalled
  BY <1>26 DEF Signalled, Exit
<1>27. CASE Kill
  BY <1>27 DEF Kill, Exit
<1>28. CASE AppStarts
  BY <1>28 DEF AppStarts
<1>29. CASE AppRestarts
  BY <1>29 DEF AppRestarts
<1>30. CASE Restart
  BY <1>30 DEF Restart, Ended
<1>31. CASE UNCHANGED vars
  BY <1>31 DEF vars
<1> QED
  BY <1>1, <1>2, <1>3, <1>4, <1>5, <1>6, <1>7, <1>8, <1>9, <1>10, <1>11, <1>12, <1>13, <1>14, <1>15, <1>16,
     <1>17, <1>18, <1>19, <1>20, <1>21, <1>22, <1>23, <1>24, <1>25, <1>26, <1>27, <1>28, <1>29, <1>30, <1>31
  DEF Next, MainStep, PeriodicStep, InformerStep, Time, Environment, CallStep, Callers


\* The inductive invariant behind the readiness theorem.
ReadyInv == TypeOK /\ Phases /\ Ended /\ Results /\ Delivery

\* The inductive invariant of the readiness theorem holds in every state.
LEMMA ReadyInvHolds == Spec => []ReadyInv
<1>1. Init => ReadyInv
  <2> SUFFICES ASSUME Init PROVE ReadyInv
    OBVIOUS
  <2>1. TypeOK
    BY InitTypeOK
  <2>2. Phases /\ Ended /\ Results /\ Delivery
    BY DEF Init, ProcessStart, Phases, MainLabels, BackgroundLabels, Ended, Results, Delivery,
           Callers
  <2> QED
    BY <2>1, <2>2 DEF ReadyInv
<1>2. ReadyInv /\ [Next]_vars => ReadyInv'
  BY TypeStep, PhasesStep, EndedStep, ResultsStep, DeliveryStep DEF ReadyInv
<1> QED
  BY <1>1, <1>2, PTL DEF Spec

\* /readyz answers 200 only after an attempt of this process has succeeded
\* (ReadyOnlyAfterDelivery), in every mode and for every retry limit.
THEOREM ReadyOnlyAfterDeliveryHolds == Spec => []ReadyOnlyAfterDelivery
<1>1. ReadyInv => ReadyOnlyAfterDelivery
  BY DEF ReadyInv, Delivery, ReadyOnlyAfterDelivery
<1> QED
  BY <1>1, ReadyInvHolds, PTL

-----------------------------------------------------------------------------
\* What the unsynchronised increments of retryCount can reach: a goroutine
\* past the test of NextBackOff saw a count below the limit, and when two are
\* there at once the count itself is below the limit.
CounterInv ==
    RetryCountLimit >= 0 =>
       /\ retryCount <= RetryCountLimit + 1
       /\ \A c \in Callers : pc[c] = "store" =>
             seen[c] < RetryCountLimit /\ retryCount <= RetryCountLimit
       /\ \A c, d \in Callers : c # d /\ pc[c] = "store" /\ pc[d] = "store" =>
             retryCount < RetryCountLimit

\* A step keeps the bound on the shared retryCount: two goroutines that both
\* passed the test of NextBackOff leave it at most one past the limit.
LEMMA CounterStep == TypeOK /\ Phases /\ CounterInv /\ [Next]_vars => CounterInv'
<1> SUFFICES ASSUME TypeOK, Phases, CounterInv, [Next]_vars
             PROVE  CounterInv'
  OBVIOUS
<1>0. RetryCountLimit \in Int
  BY ConfigFacts
<1> USE <1>0 DEF TypeOK, ControlType, Goto, procVars, fileVars, chanVars, batchVars, appVars,
         histVars, CounterInv, RetryCountLimit
<1>1. ASSUME NEW c \in Callers, Reset(c) PROVE CounterInv'
  BY <1>1 DEF Reset, CountAfterReset
<1>2. ASSUME NEW c \in Callers, Op(c) PROVE CounterInv'
  BY <1>2 DEF Op, Attempt, Outcomes
<1>3. ASSUME NEW c \in Callers, NextBackOff(c) PROVE CounterInv'
  BY <1>3 DEF NextBackOff, Stop
<1>4. ASSUME NEW c \in Callers, Increment(c) PROVE CounterInv'
  BY <1>4 DEF Increment, CountsAfterRetry, Phases, MainLabels, BackgroundLabels, Callers
<1>5. ASSUME NEW c \in Callers, Notify(c) PROVE CounterInv'
  BY <1>5 DEF Notify, ReadyAfterRetry
<1>6. ASSUME NEW c \in Callers, SleepEnds(c) PROVE CounterInv'
  BY <1>6 DEF SleepEnds
<1>7. ASSUME NEW c \in Callers, setReady(c) PROVE CounterInv'
  BY <1>7 DEF setReady, ReadyAfterCall, Failed
<1>8. ASSUME NEW c \in Callers, SetSecretsUpdated(c) PROVE CounterInv'
  BY <1>8 DEF SetSecretsUpdated, PassEnds, Failed, MustSignalUpdate
<1>9. ASSUME NEW c \in Callers, SendError(c) PROVE CounterInv'
  BY <1>9 DEF SendError, PassEnds
<1>10. ASSUME NEW c \in Callers, SeeQuit(c) PROVE CounterInv'
  BY <1>10 DEF SeeQuit
<1>11. CASE CopyScripts
  <2>1. CASE Exit("error")
    BY <1>11, <2>1 DEF CopyScripts, Exit
  <2>2. CASE Goto("main", CallStart) /\ UNCHANGED <<seen, retryCount, appVars>>
    BY <1>11, <2>2 DEF CopyScripts, CallStart
  <2> QED
    BY <1>11, <2>1, <2>2 DEF CopyScripts
<1>12. CASE InitialError
  BY <1>12 DEF InitialError, Exit
<1>13. CASE SetSecretsProvided
  <2>1. ASSUME NEW status, Exit(status) PROVE CounterInv'
    BY <1>13, <2>1 DEF SetSecretsProvided, Exit
  <2>2. CASE Goto("main", "spawn") /\ UNCHANGED <<seen, retryCount, lossy>>
             /\ result' = [result EXCEPT !["main"] = "none"]
    BY <1>13, <2>2 DEF SetSecretsProvided
  <2> QED
    BY <1>13, <2>1, <2>2 DEF SetSecretsProvided
<1>14. CASE Spawn
  BY <1>14 DEF Spawn
<1>15. CASE Shutdown
  BY <1>15 DEF Shutdown
<1>16. CASE Return
  BY <1>16 DEF Return, Exit
<1>17. CASE TakeTick
  BY <1>17 DEF TakeTick, CallStart
<1>18. CASE TakeEvent
  <2>1. pc["informer"] = "idle" /\ UNCHANGED <<config, result, seen, retryCount, updatedFile, appVars>>
    BY <1>18 DEF TakeEvent
  <2>2. pc' = pc \/ \E l \in {"cleanup", "reset", "op"} : Goto("informer", l)
    BY <1>18, Zenon DEF TakeEvent, runProvideSecrets, CallStart
  <2> QED
    BY <2>1, <2>2
<1>19. CASE TakeTimer
  BY <1>19 DEF TakeTimer, runProvideSecrets, CallStart
<1>20. CASE Cleanup
  BY <1>20 DEF Cleanup, Attempt, Outcomes
<1>21. CASE Tick
  BY <1>21 DEF Tick
<1>22. CASE DebounceExpires
  BY <1>22 DEF DebounceExpires
<1>23. CASE MaxDelayPasses
  BY <1>23 DEF MaxDelayPasses
<1>24. CASE NotifySecretEvent
  BY <1>24 DEF NotifySecretEvent
<1>25. CASE ProviderQuit
  BY <1>25 DEF ProviderQuit
<1>26. CASE Signalled
  BY <1>26 DEF Signalled, Exit
<1>27. CASE Kill
  BY <1>27 DEF Kill, Exit
<1>28. CASE AppStarts
  BY <1>28 DEF AppStarts
<1>29. CASE AppRestarts
  BY <1>29 DEF AppRestarts
<1>30. CASE Restart
  BY <1>30 DEF Restart, ProcessStart
<1>31. CASE UNCHANGED vars
  BY <1>31 DEF vars
<1> QED
  BY <1>1, <1>2, <1>3, <1>4, <1>5, <1>6, <1>7, <1>8, <1>9, <1>10, <1>11, <1>12, <1>13, <1>14, <1>15, <1>16,
     <1>17, <1>18, <1>19, <1>20, <1>21, <1>22, <1>23, <1>24, <1>25, <1>26, <1>27, <1>28, <1>29, <1>30, <1>31
  DEF Next, MainStep, PeriodicStep, InformerStep, Time, Environment, CallStep, Callers

-----------------------------------------------------------------------------
\* With one background goroutine the count and the attempts of the running
\* call move together.
BudgetInv ==
    (OneBackground /\ RetryCountLimit >= 0) => \A c \in Callers :
       /\ pc[c] \notin {"op", "next", "store", "notify", "sleep", "ready"} => attempts[c] = 0
       /\ pc[c] = "op" => /\ attempts[c] = IF RetryEnabled THEN retryCount ELSE 0
                          /\ attempts[c] <= RetryCountLimit
       /\ pc[c] \in {"next", "store"} => /\ RetryEnabled
                                         /\ attempts[c] = retryCount + 1
                                         /\ retryCount <= RetryCountLimit
       /\ pc[c] = "store" => seen[c] = retryCount /\ retryCount < RetryCountLimit
       /\ pc[c] \in {"notify", "sleep"} => /\ RetryEnabled
                                           /\ attempts[c] = retryCount
                                           /\ retryCount <= RetryCountLimit
       /\ pc[c] = "ready" => attempts[c] <= RetryCountLimit + 1

\* At most one goroutine is inside a call of the wrapped provider.
InCall(c) == pc[c] \in {"reset", "op", "cleanup", "next", "store", "notify", "sleep", "ready"}

\* With at most one background goroutine, the calls of the wrapped provider
\* never overlap.
LEMMA OneInCall ==
    ASSUME TypeOK, Phases, OneBackground,
           NEW c \in Callers, NEW d \in Callers, c # d, InCall(c)
    PROVE  ~InCall(d)
  BY DEF Phases, MainLabels, BackgroundLabels, CallLabels, Callers, Background, OneBackground, InCall

\* Without overlapping calls, a step keeps retryCount in step with the attempts
\* of the call that is running.
LEMMA BudgetStep == TypeOK /\ Phases /\ Ended /\ BudgetInv /\ [Next]_vars => BudgetInv'
<1> SUFFICES ASSUME TypeOK, Phases, Ended, OneBackground, BudgetInv, [Next]_vars
             PROVE  BudgetInv'
  BY ConfigFrozen DEF BudgetInv, OneBackground, Periodic, Informer
<1>0. RetryCountLimit \in Int /\ RetryEnabled \in BOOLEAN
  BY ConfigFacts
<1> USE <1>0, OneInCall DEF TypeOK, ControlType, Goto, procVars, fileVars, chanVars, batchVars,
         appVars, histVars, BudgetInv, InCall, RetryCountLimit, RetryEnabled
<1>1. ASSUME NEW c \in Callers, Reset(c) PROVE BudgetInv'
  BY <1>1 DEF Reset, CountAfterReset
<1>2. ASSUME NEW c \in Callers, Op(c) PROVE BudgetInv'
  BY <1>2 DEF Op, Attempt, Outcomes, CountAttempt
<1>3. ASSUME NEW c \in Callers, NextBackOff(c) PROVE BudgetInv'
  BY <1>3 DEF NextBackOff, Stop
<1>4. ASSUME NEW c \in Callers, Increment(c) PROVE BudgetInv'
  BY <1>4 DEF Increment, CountsAfterRetry
<1>5. ASSUME NEW c \in Callers, Notify(c) PROVE BudgetInv'
  BY <1>5 DEF Notify, ReadyAfterRetry
<1>6. ASSUME NEW c \in Callers, SleepEnds(c) PROVE BudgetInv'
  BY <1>6 DEF SleepEnds
<1>7. ASSUME NEW c \in Callers, setReady(c) PROVE BudgetInv'
  BY <1>7 DEF setReady, ReadyAfterCall, Failed
<1>8. ASSUME NEW c \in Callers, SetSecretsUpdated(c) PROVE BudgetInv'
  BY <1>8 DEF SetSecretsUpdated, PassEnds, Failed, MustSignalUpdate
<1>9. ASSUME NEW c \in Callers, SendError(c) PROVE BudgetInv'
  BY <1>9 DEF SendError, PassEnds
<1>10. ASSUME NEW c \in Callers, SeeQuit(c) PROVE BudgetInv'
  BY <1>10 DEF SeeQuit
<1>11. CASE CopyScripts
  <2>1. CASE Exit("error")
    BY <1>11, <2>1 DEF CopyScripts, Exit
  <2>2. CASE Goto("main", CallStart) /\ UNCHANGED <<seen, retryCount, attempts>>
    <3>1. pc["main"] = "copy" /\ config' = config /\ (\A d \in Callers : ~InCall(d))
      BY <1>11 DEF CopyScripts, Phases, BackgroundLabels, CallLabels
    <3> QED
      BY <2>2, <3>1 DEF CallStart
  <2> QED
    BY <1>11, <2>1, <2>2 DEF CopyScripts
<1>12. CASE InitialError
  BY <1>12 DEF InitialError, Exit
<1>13. CASE SetSecretsProvided
  BY <1>13 DEF SetSecretsProvided, Exit
<1>14. CASE Spawn
  BY <1>14 DEF Spawn, Phases, BackgroundLabels, CallLabels
<1>15. CASE Shutdown
  BY <1>15 DEF Shutdown
<1>16. CASE Return
  BY <1>16 DEF Return, Exit
<1>17. CASE TakeTick
  BY <1>17 DEF TakeTick, CallStart
<1>18. CASE TakeEvent
  BY <1>18 DEF TakeEvent, runProvideSecrets, CallStart
<1>19. CASE TakeTimer
  BY <1>19 DEF TakeTimer, runProvideSecrets, CallStart
<1>20. CASE Cleanup
  BY <1>20 DEF Cleanup, Attempt, Outcomes, CountAttempt
<1>21. CASE Tick
  BY <1>21 DEF Tick
<1>22. CASE DebounceExpires
  BY <1>22 DEF DebounceExpires
<1>23. CASE MaxDelayPasses
  BY <1>23 DEF MaxDelayPasses
<1>24. CASE NotifySecretEvent
  BY <1>24 DEF NotifySecretEvent
<1>25. CASE ProviderQuit
  BY <1>25 DEF ProviderQuit
<1>26. CASE Signalled
  BY <1>26 DEF Signalled, Exit
<1>27. CASE Kill
  BY <1>27 DEF Kill, Exit
<1>28. CASE AppStarts
  BY <1>28 DEF AppStarts
<1>29. CASE AppRestarts
  BY <1>29 DEF AppRestarts
<1>30. CASE Restart
  BY <1>30 DEF Restart, ProcessStart, Ended
<1>31. CASE UNCHANGED vars
  BY <1>31 DEF vars
<1> QED
  BY <1>1, <1>2, <1>3, <1>4, <1>5, <1>6, <1>7, <1>8, <1>9, <1>10, <1>11, <1>12, <1>13, <1>14, <1>15, <1>16,
     <1>17, <1>18, <1>19, <1>20, <1>21, <1>22, <1>23, <1>24, <1>25, <1>26, <1>27, <1>28, <1>29, <1>30, <1>31
  DEF Next, MainStep, PeriodicStep, InformerStep, Time, Environment, CallStep, Callers

-----------------------------------------------------------------------------
\* A step keeps UpdateSignalled: an update by a successful background call is
\* announced or its announcement is still to come.
LEMMA UpdateStep == TypeOK /\ Phases /\ Ended /\ UpdateSignalled /\ [Next]_vars => UpdateSignalled'
<1> SUFFICES ASSUME TypeOK, Phases, Ended, UpdateSignalled, [Next]_vars
             PROVE  UpdateSignalled'
  OBVIOUS
<1> USE DEF TypeOK, ControlType, Goto, procVars, fileVars, chanVars, batchVars, appVars, histVars,
         UpdateSignalled, Background, Periodic, Informer
<1>1. ASSUME NEW c \in Callers, Reset(c) PROVE UpdateSignalled'
  BY <1>1 DEF Reset, CountAfterReset
<1>2. ASSUME NEW c \in Callers, Op(c) PROVE UpdateSignalled'
  BY <1>2 DEF Op, Attempt, Outcomes, Phases, BackgroundLabels
<1>3. ASSUME NEW c \in Callers, NextBackOff(c) PROVE UpdateSignalled'
  <2>1. PICK l \in {"ready", "store"} : Goto(c, l)
    BY <1>3 DEF NextBackOff
  <2>2. pc[c] = "next" /\ UNCHANGED <<config, result, updatedFile, appVars>>
    BY <1>3 DEF NextBackOff
  <2> QED
    BY <2>1, <2>2
<1>4. ASSUME NEW c \in Callers, Increment(c) PROVE UpdateSignalled'
  BY <1>4 DEF Increment, CountsAfterRetry
<1>5. ASSUME NEW c \in Callers, Notify(c) PROVE UpdateSignalled'
  BY <1>5 DEF Notify, ReadyAfterRetry
<1>6. ASSUME NEW c \in Callers, SleepEnds(c) PROVE UpdateSignalled'
  BY <1>6 DEF SleepEnds
<1>7. ASSUME NEW c \in Callers, setReady(c) PROVE UpdateSignalled'
  BY <1>7 DEF setReady, ReadyAfterCall, Failed
<1>8. ASSUME NEW c \in Callers, SetSecretsUpdated(c) PROVE UpdateSignalled'
  <2>1. PICK o \in StatusOutcomes :
          LET err == Failed(c) \/ (MustSignalUpdate(c) /\ o.err)
          IN /\ updatedFile' = (updatedFile \/ (MustSignalUpdate(c) /\ o.created))
             /\ Goto(c, IF err THEN "send" ELSE "idle")
             /\ IF err THEN UNCHANGED <<result, batchVars>> ELSE PassEnds(c)
    BY <1>8 DEF SetSecretsUpdated
  <2>2. pc[c] = "status" /\ c # "main" /\ UNCHANGED <<config, appVars>>
    BY <1>8 DEF SetSecretsUpdated
  <2>3. updatedFile => updatedFile'
    BY <2>1, Zenon
  <2>4. \A d \in Callers \ {c} : pc'[d] = pc[d] /\ result'[d] = result[d]
    BY <2>1, <2>2 DEF PassEnds
  <2>5. CASE result[c] = "updated" /\ o.created
    <3>1. updatedFile'
      BY <2>1, <2>5, Zenon DEF MustSignalUpdate
    <3> QED
      BY <3>1
  <2>6. CASE result[c] = "updated" /\ ~o.created
    <3>1. pc'[c] = "send"
      BY <2>1, <2>6 DEF MustSignalUpdate, StatusOutcomes
    <3>2. c \in Background
      BY <2>2 DEF Phases
    <3> QED
      BY <2>2, <3>1, <3>2
  <2>7. CASE result[c] # "updated"
    BY <2>2, <2>3, <2>4, <2>7 DEF Background, Callers
  <2> QED
    BY <2>5, <2>6, <2>7
<1>9. ASSUME NEW c \in Callers, SendError(c) PROVE UpdateSignalled'
  <2>1. pc'["main"] = "shutdown"
    BY <1>9 DEF SendError, Callers
  <2> QED
    BY <2>1
<1>10. ASSUME NEW c \in Callers, SeeQuit(c) PROVE UpdateSignalled'
  BY <1>10 DEF SeeQuit
<1>11. CASE CopyScripts
  <2>1. CASE Exit("error")
    BY <1>11, <2>1 DEF CopyScripts, Exit
  <2>2. CASE Goto("main", CallStart) /\ UNCHANGED <<result, appVars>>
    BY <1>11, <2>2 DEF CopyScripts, CallStart, Background, Callers
  <2> QED
    BY <1>11, <2>1, <2>2 DEF CopyScripts
<1>12. CASE InitialError
  BY <1>12 DEF InitialError, Exit
<1>13. CASE SetSecretsProvided
  <2>1. ASSUME NEW status, Exit(status) PROVE UpdateSignalled'
    BY <1>13, <2>1 DEF SetSecretsProvided, Exit
  <2>2. CASE Goto("main", "spawn") /\ UNCHANGED <<seen, retryCount, lossy>>
             /\ result' = [result EXCEPT !["main"] = "none"]
    BY <1>13, <2>2 DEF SetSecretsProvided, Background
  <2> QED
    BY <1>13, <2>1, <2>2 DEF SetSecretsProvided
<1>14. CASE Spawn
  BY <1>14 DEF Spawn, Phases, Background, Callers
<1>15. CASE Shutdown
  BY <1>15 DEF Shutdown
<1>16. CASE Return
  BY <1>16 DEF Return, Exit
<1>17. CASE TakeTick
  BY <1>17 DEF TakeTick, CallStart
<1>18. CASE TakeEvent
  <2>1. pc["informer"] = "idle" /\ UNCHANGED <<config, result, seen, retryCount, updatedFile, appVars>>
    BY <1>18 DEF TakeEvent
  <2>2. pc' = pc \/ \E l \in {"cleanup", "reset", "op"} : Goto("informer", l)
    BY <1>18, Zenon DEF TakeEvent, runProvideSecrets, CallStart
  <2> QED
    BY <2>1, <2>2 DEF Background, Callers
<1>19. CASE TakeTimer
  BY <1>19 DEF TakeTimer, runProvideSecrets, CallStart
<1>20. CASE Cleanup
  <2>1. PICK o \in Outcomes : Attempt("informer", o)
    BY <1>20 DEF Cleanup
  <2>2. pc["informer"] = "cleanup" /\ Goto("informer", "ready")
    BY <1>20 DEF Cleanup
  <2>3. UNCHANGED <<config, app, updatedFile>> /\ result' = [result EXCEPT !["informer"] = o.ret]
    BY <2>1 DEF Attempt
  <2>4. "informer" \in Background /\ "informer" \in Callers
    BY <2>2 DEF Phases, Callers
  <2>5. CASE app = "running" /\ o.changed /\ o.ret = "error"
    <3>1. lossy'
      BY <2>1, <2>5, Zenon DEF Attempt
    <3> QED
      BY <3>1
  <2>6. CASE o.ret = "updated"
    BY <2>2, <2>3, <2>4, <2>6
  <2>7. CASE ~(app = "running" /\ o.changed)
    <3>1. (unseen' => unseen) /\ (lossy => lossy')
      BY <2>1, <2>7, Zenon DEF Attempt
    <3> QED
      BY <2>2, <2>3, <3>1
  <2> QED
    BY <2>5, <2>6, <2>7 DEF Outcomes
<1>21. CASE Tick
  BY <1>21 DEF Tick
<1>22. CASE DebounceExpires
  BY <1>22 DEF DebounceExpires
<1>23. CASE MaxDelayPasses
  BY <1>23 DEF MaxDelayPasses
<1>24. CASE NotifySecretEvent
  BY <1>24 DEF NotifySecretEvent
<1>25. CASE ProviderQuit
  BY <1>25 DEF ProviderQuit
<1>26. CASE Signalled
  BY <1>26 DEF Signalled, Exit
<1>27. CASE Kill
  BY <1>27 DEF Kill, Exit
<1>28. CASE AppStarts
  BY <1>28 DEF AppStarts
<1>29. CASE AppRestarts
  BY <1>29 DEF AppRestarts
<1>30. CASE Restart
  BY <1>30 DEF Restart, Ended, Background, Callers
<1>31. CASE UNCHANGED vars
  BY <1>31 DEF vars
<1> QED
  BY <1>1, <1>2, <1>3, <1>4, <1>5, <1>6, <1>7, <1>8, <1>9, <1>10, <1>11, <1>12, <1>13, <1>14, <1>15, <1>16,
     <1>17, <1>18, <1>19, <1>20, <1>21, <1>22, <1>23, <1>24, <1>25, <1>26, <1>27, <1>28, <1>29, <1>30, <1>31
  DEF Next, MainStep, PeriodicStep, InformerStep, Time, Environment, CallStep, Callers

-----------------------------------------------------------------------------
\* A result that has not reached setReady is the result of the latest attempt,
\* and when there is none the flag agrees with that attempt.
LatestInv ==
    (OneBackground /\ HasServer) =>
       /\ \A c \in Callers : Unpublished(c) => (latest = "ok" <=> result[c] # "error")
       /\ exit = "none" /\ (\A c \in Callers : ~Unpublished(c)) => (ready <=> latest = "ok")

\* Without overlapping calls, a step keeps readiness equal to the result of the
\* latest attempt, or the goroutine that has this result is about to publish it.
LEMMA LatestStep == TypeOK /\ Phases /\ Ended /\ Results /\ LatestInv /\ [Next]_vars => LatestInv'
<1> SUFFICES ASSUME TypeOK, Phases, Ended, Results, OneBackground, LatestInv, [Next]_vars
             PROVE  LatestInv'
  BY ConfigFrozen DEF LatestInv, OneBackground, Periodic, Informer
<1> USE OneInCall DEF TypeOK, ControlType, Goto, procVars, fileVars, chanVars, batchVars, appVars, histVars,
         LatestInv, InCall, Unpublished, HasServer, Mode
<1>1. ASSUME NEW c \in Callers, Reset(c) PROVE LatestInv'
  BY <1>1 DEF Reset, CountAfterReset
<1>2. ASSUME NEW c \in Callers, Op(c) PROVE LatestInv'
  BY <1>2 DEF Op, Attempt, Outcomes
<1>3. ASSUME NEW c \in Callers, NextBackOff(c) PROVE LatestInv'
  BY <1>3 DEF NextBackOff
<1>4. ASSUME NEW c \in Callers, Increment(c) PROVE LatestInv'
  BY <1>4 DEF Increment, CountsAfterRetry
<1>5. ASSUME NEW c \in Callers, Notify(c) PROVE LatestInv'
  BY <1>5 DEF Notify, ReadyAfterRetry, Results
<1>6. ASSUME NEW c \in Callers, SleepEnds(c) PROVE LatestInv'
  BY <1>6 DEF SleepEnds
<1>7. ASSUME NEW c \in Callers, setReady(c) PROVE LatestInv'
  BY <1>7 DEF setReady, ReadyAfterCall, Failed, Results
<1>8. ASSUME NEW c \in Callers, SetSecretsUpdated(c) PROVE LatestInv'
  BY <1>8 DEF SetSecretsUpdated, PassEnds, Failed, MustSignalUpdate
<1>9. ASSUME NEW c \in Callers, SendError(c) PROVE LatestInv'
  BY <1>9 DEF SendError, PassEnds
<1>10. ASSUME NEW c \in Callers, SeeQuit(c) PROVE LatestInv'
  BY <1>10 DEF SeeQuit
<1>11. CASE CopyScripts
  BY <1>11 DEF CopyScripts, CallStart, Exit
<1>12. CASE InitialError
  BY <1>12 DEF InitialError, Exit
<1>13. CASE SetSecretsProvided
  BY <1>13 DEF SetSecretsProvided, Exit
<1>14. CASE Spawn
  BY <1>14 DEF Spawn, Phases, BackgroundLabels, CallLabels, Callers
<1>15. CASE Shutdown
  BY <1>15 DEF Shutdown
<1>16. CASE Return
  BY <1>16 DEF Return, Exit
<1>17. CASE TakeTick
  BY <1>17 DEF TakeTick, CallStart
<1>18. CASE TakeEvent
  BY <1>18 DEF TakeEvent, runProvideSecrets, CallStart
<1>19. CASE TakeTimer
  BY <1>19 DEF TakeTimer, runProvideSecrets, CallStart
<1>20. CASE Cleanup
  <2>1. PICK o \in Outcomes : Attempt("informer", o)
    BY <1>20 DEF Cleanup
  <2>2. pc["informer"] = "cleanup" /\ Goto("informer", "ready") /\ "informer" \in Callers
    BY <1>20 DEF Cleanup, Callers
  <2>3. /\ result' = [result EXCEPT !["informer"] = o.ret]
        /\ latest' = IF o.ret = "error" THEN "fail" ELSE "ok"
    BY <2>1 DEF Attempt
  <2>4. \A d \in Callers : d # "informer" => pc'[d] = pc[d] /\ ~InCall(d)
    BY <2>2
  <2> QED
    BY <2>2, <2>3, <2>4
<1>21. CASE Tick
  BY <1>21 DEF Tick
<1>22. CASE DebounceExpires
  BY <1>22 DEF DebounceExpires
<1>23. CASE MaxDelayPasses
  BY <1>23 DEF MaxDelayPasses
<1>24. CASE NotifySecretEvent
  BY <1>24 DEF NotifySecretEvent
<1>25. CASE ProviderQuit
  BY <1>25 DEF ProviderQuit
<1>26. CASE Signalled
  BY <1>26 DEF Signalled, Exit
<1>27. CASE Kill
  BY <1>27 DEF Kill, Exit
<1>28. CASE AppStarts
  BY <1>28 DEF AppStarts
<1>29. CASE AppRestarts
  BY <1>29 DEF AppRestarts
<1>30. CASE Restart
  BY <1>30 DEF Restart, Ended, ProcessStart
<1>31. CASE UNCHANGED vars
  BY <1>31 DEF vars
<1> QED
  BY <1>1, <1>2, <1>3, <1>4, <1>5, <1>6, <1>7, <1>8, <1>9, <1>10, <1>11, <1>12, <1>13, <1>14, <1>15, <1>16,
     <1>17, <1>18, <1>19, <1>20, <1>21, <1>22, <1>23, <1>24, <1>25, <1>26, <1>27, <1>28, <1>29, <1>30, <1>31
  DEF Next, MainStep, PeriodicStep, InformerStep, Time, Environment, CallStep, Callers

\* Only a NextBackOff at the limit takes a goroutine from "next" to "ready".
LEMMA GiveUpStep ==
    ASSUME TypeOK, [Next]_vars, NEW c \in Callers, pc[c] = "next", pc'[c] = "ready"
    PROVE  Stop
<1> USE DEF TypeOK, ControlType, Goto, Callers, procVars
<1>1. ASSUME NEW d \in Callers, Reset(d) PROVE Stop
  BY <1>1 DEF Reset, CountAfterReset
<1>2. ASSUME NEW d \in Callers, Op(d) PROVE Stop
  BY <1>2 DEF Op, Attempt
<1>3. ASSUME NEW d \in Callers, NextBackOff(d) PROVE Stop
  BY <1>3 DEF NextBackOff
<1>4. ASSUME NEW d \in Callers, Increment(d) PROVE Stop
  BY <1>4 DEF Increment, CountsAfterRetry
<1>5. ASSUME NEW d \in Callers, Notify(d) PROVE Stop
  BY <1>5 DEF Notify, ReadyAfterRetry
<1>6. ASSUME NEW d \in Callers, SleepEnds(d) PROVE Stop
  BY <1>6 DEF SleepEnds
<1>7. ASSUME NEW d \in Callers, setReady(d) PROVE Stop
  BY <1>7 DEF setReady, ReadyAfterCall, Failed
<1>8. ASSUME NEW d \in Callers, SetSecretsUpdated(d) PROVE Stop
  BY <1>8 DEF SetSecretsUpdated, PassEnds, Failed, MustSignalUpdate
<1>9. ASSUME NEW d \in Callers, SendError(d) PROVE Stop
  BY <1>9 DEF SendError, PassEnds
<1>10. ASSUME NEW d \in Callers, SeeQuit(d) PROVE Stop
  BY <1>10 DEF SeeQuit
<1>11. CASE CopyScripts
  BY <1>11 DEF CopyScripts, CallStart, Exit
<1>12. CASE InitialError
  BY <1>12 DEF InitialError, Exit
<1>13. CASE SetSecretsProvided
  BY <1>13 DEF SetSecretsProvided, Exit
<1>14. CASE Spawn
  BY <1>14 DEF Spawn
<1>15. CASE Shutdown
  BY <1>15 DEF Shutdown
<1>16. CASE Return
  BY <1>16 DEF Return, Exit
<1>17. CASE TakeTick
  BY <1>17 DEF TakeTick, CallStart
<1>18. CASE TakeEvent
  BY <1>18 DEF TakeEvent, runProvideSecrets, CallStart
<1>19. CASE TakeTimer
  BY <1>19 DEF TakeTimer, runProvideSecrets, CallStart
<1>20. CASE Cleanup
  BY <1>20 DEF Cleanup, Attempt, Outcomes
<1>21. CASE Tick
  BY <1>21 DEF Tick
<1>22. CASE DebounceExpires
  BY <1>22 DEF DebounceExpires
<1>23. CASE MaxDelayPasses
  BY <1>23 DEF MaxDelayPasses
<1>24. CASE NotifySecretEvent
  BY <1>24 DEF NotifySecretEvent
<1>25. CASE ProviderQuit
  BY <1>25 DEF ProviderQuit
<1>26. CASE Signalled
  BY <1>26 DEF Signalled, Exit
<1>27. CASE Kill
  BY <1>27 DEF Kill, Exit
<1>28. CASE AppStarts
  BY <1>28 DEF AppStarts
<1>29. CASE AppRestarts
  BY <1>29 DEF AppRestarts
<1>30. CASE Restart
  BY <1>30 DEF Restart, ProcessStart
<1>31. CASE UNCHANGED vars
  BY <1>31 DEF vars
<1> QED
  BY <1>1, <1>2, <1>3, <1>4, <1>5, <1>6, <1>7, <1>8, <1>9, <1>10, <1>11, <1>12, <1>13, <1>14, <1>15, <1>16,
     <1>17, <1>18, <1>19, <1>20, <1>21, <1>22, <1>23, <1>24, <1>25, <1>26, <1>27, <1>28, <1>29, <1>30, <1>31
  DEF Next, MainStep, PeriodicStep, InformerStep, Time, Environment, CallStep, Callers

-----------------------------------------------------------------------------
\* The inductive invariants hold in every initial state.
LEMMA InitInvs == Init => CounterInv /\ BudgetInv /\ UpdateSignalled /\ LatestInv
<1> SUFFICES ASSUME Init PROVE CounterInv /\ BudgetInv /\ UpdateSignalled /\ LatestInv
  OBVIOUS
<1> USE DEF Init, ProcessStart, Callers
<1>0. RetryCountLimit \in Int
  BY InitTypeOK, ConfigFacts
<1>1. CounterInv
  BY <1>0 DEF CounterInv
<1>2. BudgetInv
  BY <1>0 DEF BudgetInv
<1>3. UpdateSignalled
  BY DEF UpdateSignalled
<1>4. LatestInv
  BY DEF LatestInv, Unpublished
<1> QED
  BY <1>1, <1>2, <1>3, <1>4

\* The shared retryCount passes the limit by at most one (RetryCounterBound),
\* for every limit and whichever goroutines run.
THEOREM RetryCounterBoundHolds == Spec => []RetryCounterBound
<1> DEFINE IInv == ReadyInv /\ CounterInv
<1>1. Init => CounterInv
  BY InitInvs
<1>2. IInv /\ [Next]_vars => CounterInv'
  BY CounterStep DEF ReadyInv
<1>3. CounterInv => RetryCounterBound
  BY DEF CounterInv, RetryCounterBound
<1> QED
  BY <1>1, <1>2, <1>3, ReadyInvHolds, PTL DEF Spec

\* With at most one background goroutine a call makes at most
\* RetryCountLimit + 1 attempts (RetryBudget).
THEOREM RetryBudgetHolds == Spec => []RetryBudget
<1>1. Init => BudgetInv
  BY InitInvs
<1>2. ReadyInv /\ BudgetInv /\ [Next]_vars => BudgetInv'
  BY BudgetStep DEF ReadyInv
<1>3. ReadyInv /\ BudgetInv => RetryBudget
  BY ConfigFacts DEF ReadyInv, TypeOK, ControlType, BudgetInv, RetryBudget
<1> QED
  BY <1>1, <1>2, <1>3, ReadyInvHolds, PTL DEF Spec

\* With at most one background goroutine a call gives up only when it has made
\* RetryCountLimit + 1 attempts (GivesUpOnlyAtLimit).
THEOREM GivesUpOnlyAtLimitHolds == Spec => GivesUpOnlyAtLimit
<1> DEFINE Full == \A c \in Callers : OneBackground /\ pc[c] = "next" /\ pc'[c] = "ready"
                                        => attempts[c] = RetryCountLimit + 1
<1>1. Init => BudgetInv
  BY InitInvs
<1>2. ReadyInv /\ BudgetInv /\ [Next]_vars => BudgetInv'
  BY BudgetStep DEF ReadyInv
<1>3. ReadyInv /\ BudgetInv /\ [Next]_vars => [Full]_vars
  <2> SUFFICES ASSUME ReadyInv, BudgetInv, [Next]_vars, NEW c \in Callers,
                      OneBackground, pc[c] = "next", pc'[c] = "ready"
               PROVE  attempts[c] = RetryCountLimit + 1
    OBVIOUS
  <2>1. Stop
    BY GiveUpStep DEF ReadyInv
  <2> QED
    BY <2>1, ConfigFacts DEF Stop, BudgetInv, ReadyInv, TypeOK, ControlType
<1> QED
  BY <1>1, <1>2, <1>3, ReadyInvHolds, PTL DEF Spec, GivesUpOnlyAtLimit

\* A change made by a successful background call is announced by
\* CONJUR_SECRETS_UPDATED or is about to be (UpdateSignalled).
THEOREM UpdateSignalledHolds == Spec => []UpdateSignalled
<1>1. Init => UpdateSignalled
  BY InitInvs
<1>2. ReadyInv /\ UpdateSignalled /\ [Next]_vars => UpdateSignalled'
  BY UpdateStep DEF ReadyInv
<1> QED
  BY <1>1, <1>2, ReadyInvHolds, PTL DEF Spec

\* With at most one background goroutine /readyz agrees with the latest attempt
\* whenever no result is on its way to setReady (ReadyReflectsLatest).
THEOREM ReadyReflectsLatestHolds == Spec => []ReadyReflectsLatest
<1>1. Init => LatestInv
  BY InitInvs
<1>2. ReadyInv /\ LatestInv /\ [Next]_vars => LatestInv'
  BY LatestStep DEF ReadyInv
<1>3. ReadyInv /\ LatestInv => ReadyReflectsLatest
  BY DEF ReadyInv, TypeOK, FlagType, LatestInv, ReadyReflectsLatest
<1> QED
  BY <1>1, <1>2, <1>3, ReadyInvHolds, PTL DEF Spec

-----------------------------------------------------------------------------
\* What main knows between its first call and its end: the result it still holds
\* is that of the latest attempt, a container that runs once never gets to the
\* background goroutines and, past setReady, holds no error.
MainInv ==
    /\ pc["main"] \in {"next", "ready", "status"} => (latest = "ok" <=> result["main"] # "error")
    /\ RunOnce => pc["main"] \notin {"spawn", "wait", "signal", "shutdown", "grace"}
    /\ RunOnce /\ pc["main"] = "status" => result["main"] # "error"
    /\ InitExitContract

\* While the first call of main is running, no other goroutine is.
LEMMA MainAlone ==
    ASSUME TypeOK, Phases, NEW c \in Callers, pc[c] \notin {"off", "gone"},
           pc["main"] \notin {"wait", "shutdown", "grace"}
    PROVE  c = "main"
  BY DEF Phases, Callers

\* Every step keeps what main knows, up to the exit status of an init container.
LEMMA MainStepKeeps == ReadyInv /\ MainInv /\ [Next]_vars => MainInv'
<1> SUFFICES ASSUME TypeOK, Phases, Ended, Results, Delivery, MainInv, [Next]_vars
             PROVE  MainInv'
  BY DEF ReadyInv
<1> USE MainAlone DEF TypeOK, ControlType, Goto, procVars, fileVars, chanVars, batchVars, appVars, histVars,
         MainInv, InitExitContract, RunOnce, Mode, Callers
<1>1. ASSUME NEW c \in Callers, Reset(c) PROVE MainInv'
  BY <1>1 DEF Reset, CountAfterReset
<1>2. ASSUME NEW c \in Callers, Op(c) PROVE MainInv'
  BY <1>2 DEF Op, Attempt, Outcomes, Ended
<1>3. ASSUME NEW c \in Callers, NextBackOff(c) PROVE MainInv'
  BY <1>3 DEF NextBackOff
<1>4. ASSUME NEW c \in Callers, Increment(c) PROVE MainInv'
  BY <1>4 DEF Increment, CountsAfterRetry
<1>5. ASSUME NEW c \in Callers, Notify(c) PROVE MainInv'
  BY <1>5 DEF Notify, ReadyAfterRetry
<1>6. ASSUME NEW c \in Callers, SleepEnds(c) PROVE MainInv'
  BY <1>6 DEF SleepEnds
<1>7. ASSUME NEW c \in Callers, setReady(c) PROVE MainInv'
  BY <1>7 DEF setReady, ReadyAfterCall, Failed
<1>8. ASSUME NEW c \in Callers, SetSecretsUpdated(c) PROVE MainInv'
  BY <1>8 DEF SetSecretsUpdated, PassEnds
<1>9. ASSUME NEW c \in Callers, SendError(c) PROVE MainInv'
  BY <1>9 DEF SendError, PassEnds
<1>10. ASSUME NEW c \in Callers, SeeQuit(c) PROVE MainInv'
  BY <1>10 DEF SeeQuit
<1>11. CASE CopyScripts
  BY <1>11 DEF CopyScripts, CallStart, Exit
<1>12. CASE InitialError
  BY <1>12 DEF InitialError, Exit
<1>13. CASE SetSecretsProvided
  <2>1. PICK o \in StatusOutcomes :
          LET err == MustSignalProvided /\ o.err
          IN  /\ provided' = (provided \/ (MustSignalProvided /\ o.created))
              /\ \/ RunOnce /\ Exit(IF err THEN "error" ELSE "ok")
                 \/ ~RunOnce /\ Goto("main", "spawn") /\ exit' = exit
    BY <1>13 DEF SetSecretsProvided
  <2>2. UNCHANGED <<config, delivered, latest>> /\ pc["main"] = "status"
    BY <1>13 DEF SetSecretsProvided
  <2>3. CASE ~RunOnce
    BY <2>1, <2>2, <2>3 DEF Callers
  <2>4. CASE RunOnce
    <3>1. result["main"] \in {"unchanged", "updated"} /\ latest = "ok" /\ delivered
      BY <2>2, <2>4 DEF Results, Delivery, Callers
    <3>2. MustSignalProvided
      BY <3>1 DEF MustSignalProvided, Failed
    <3>3. ~o.err => o.created
      BY DEF StatusOutcomes
    <3>4. exit' = "ok" => provided'
      BY <2>1, <2>4, <3>2, <3>3, Zenon DEF Exit
    <3>5. pc'["main"] = "gone"
      BY <2>1, <2>4 DEF Exit, Callers
    <3> QED
      BY <2>2, <2>4, <3>1, <3>4, <3>5
  <2> QED
    BY <2>3, <2>4
<1>14. CASE Spawn
  BY <1>14 DEF Spawn
<1>15. CASE Shutdown
  BY <1>15 DEF Shutdown
<1>16. CASE Return
  BY <1>16 DEF Return, Exit
<1>17. CASE TakeTick
  BY <1>17 DEF TakeTick, CallStart
<1>18. CASE TakeEvent
  BY <1>18 DEF TakeEvent, runProvideSecrets, CallStart
<1>19. CASE TakeTimer
  BY <1>19 DEF TakeTimer, runProvideSecrets, CallStart
<1>20. CASE Cleanup
  BY <1>20 DEF Cleanup, Attempt, Outcomes, Ended
<1>21. CASE Tick
  BY <1>21 DEF Tick
<1>22. CASE DebounceExpires
  BY <1>22 DEF DebounceExpires
<1>23. CASE MaxDelayPasses
  BY <1>23 DEF MaxDelayPasses
<1>24. CASE NotifySecretEvent
  BY <1>24 DEF NotifySecretEvent
<1>25. CASE ProviderQuit
  BY <1>25 DEF ProviderQuit
<1>26. CASE Signalled
  BY <1>26 DEF Signalled, Exit
<1>27. CASE Kill
  BY <1>27 DEF Kill, Exit
<1>28. CASE AppStarts
  BY <1>28 DEF AppStarts
<1>29. CASE AppRestarts
  BY <1>29 DEF AppRestarts
<1>30. CASE Restart
  BY <1>30 DEF Restart, ProcessStart, Ended
<1>31. CASE UNCHANGED vars
  BY <1>31 DEF vars
<1> QED
  BY <1>1, <1>2, <1>3, <1>4, <1>5, <1>6, <1>7, <1>8, <1>9, <1>10, <1>11, <1>12, <1>13, <1>14, <1>15, <1>16,
     <1>17, <1>18, <1>19, <1>20, <1>21, <1>22, <1>23, <1>24, <1>25, <1>26, <1>27, <1>28, <1>29, <1>30, <1>31
  DEF Next, MainStep, PeriodicStep, InformerStep, Time, Environment, CallStep, Callers

\* What main knows holds in every state.
LEMMA MainInvHolds == Spec => []MainInv
<1>1. Init => MainInv
  BY DEF Init, ProcessStart, MainInv, InitExitContract, Callers
<1>2. ReadyInv /\ MainInv /\ [Next]_vars => MainInv'
  BY MainStepKeeps
<1> QED
  BY <1>1, <1>2, ReadyInvHolds, PTL DEF Spec

\* An init or application container that exits with status 0 has provided the
\* secrets with its last attempt and left CONJUR_SECRETS_PROVIDED behind
\* (InitExitContract), for every retry limit and with any number of restarts.
THEOREM InitExitContractHolds == Spec => []InitExitContract
<1>1. MainInv => InitExitContract
  BY DEF MainInv
<1> QED
  BY <1>1, MainInvHolds, PTL

\* Only SetSecretsProvided creates CONJUR_SECRETS_PROVIDED.
LEMMA OnlySetSecretsProvided ==
    ASSUME [Next]_vars, provided' # provided
    PROVE  SetSecretsProvided
  BY DEF Next, vars, MainStep, PeriodicStep, InformerStep, Time, Environment, CallStep, Reset, Op,
      Attempt, NextBackOff, Increment, Notify, SleepEnds, setReady, SetSecretsUpdated,
      SendError, SeeQuit, CopyScripts, InitialError, Spawn, Shutdown,
      Return, TakeTick, TakeEvent, TakeTimer, Cleanup, Tick, DebounceExpires, MaxDelayPasses,
      NotifySecretEvent, ProviderQuit, Signalled, Kill, AppStarts, AppRestarts, Restart,
      fileVars

\* CONJUR_SECRETS_PROVIDED appears only in a process that has provided the secrets
\* with its latest attempt (ProvidedOnlyAfterDelivery).
THEOREM ProvidedOnlyAfterDeliveryHolds == Spec => ProvidedOnlyAfterDelivery
<1>1. ReadyInv /\ MainInv /\ [Next]_vars => [provided' # provided => delivered /\ latest = "ok"]_vars
  <2> SUFFICES ASSUME ReadyInv, MainInv, [Next]_vars, provided' # provided
               PROVE  delivered /\ latest = "ok"
    OBVIOUS
  <2>1. SetSecretsProvided
    BY OnlySetSecretsProvided
  <2>2. pc["main"] = "status" /\ ~Failed("main")
    <3>1. pc["main"] = "status"
      BY <2>1 DEF SetSecretsProvided
    <3>2. \E o \in StatusOutcomes : provided' = (provided \/ (MustSignalProvided /\ o.created))
      BY <2>1, Zenon DEF SetSecretsProvided
    <3>3. provided \in BOOLEAN
      BY DEF ReadyInv, TypeOK, FlagType
    <3>4. MustSignalProvided
      BY <3>2, <3>3
    <3> QED
      BY <3>1, <3>4 DEF MustSignalProvided
  <2> QED
    BY <2>2 DEF ReadyInv, TypeOK, ControlType, Results, Delivery, MainInv, Failed, Callers
<1> QED
  BY <1>1, ReadyInvHolds, MainInvHolds, PTL DEF Spec, ProvidedOnlyAfterDelivery
====
