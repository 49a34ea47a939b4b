--------------------------- MODULE K8sProviderProofs ---------------------------
(***************************************************************************)
(* Proofs about K8sProvider, for all Secrets, keys, variables, values and  *)
(* configurations. Frames says which actions may change which variables;   *)
(* each invariant is then shown for those actions only. The invariants are *)
(*   TypeInv      the types, and that an existing Secret has a manifest of *)
(*                the configuration;                                       *)
(*   ControlInv   what the step of the call says of its results;           *)
(*   DeliverInv   what the call has computed and dealt with, and what the  *)
(*                checksums stand for, is in the Secrets;                  *)
(*   SnapshotInv  the snapshot is the Secret as long as nobody wrote to it,*)
(*                and the destinations are those of its manifest;          *)
(*   SanitizeInv  what a call without sanitization never does;             *)
(*   FilledInv    with sanitization every destination gets an entry;       *)
(*   PermittedInv as long as no variable is revoked every variable that is *)
(*                provided is fetched;                                     *)
(*   OriginalInv  without invalid entries a call processes only Secrets of *)
(*                its snapshot.                                            *)
(***************************************************************************)
EXTENDS K8sProvider, TLAPS

-----------------------------------------------------------------------------
(***************************************************************************)
(* Go maps and manifests.                                                  *)
(***************************************************************************)
\* Put adds or replaces one entry of a map (Put).
LEMMA PutFacts ==
    ASSUME NEW S, NEW T, NEW f, PartialFunction(f, S, T), NEW x \in S, NEW y \in T
    PROVE  /\ PartialFunction(Put(f, x, y), S, T)
           /\ DOMAIN Put(f, x, y) = DOMAIN f \cup {x}
           /\ Put(f, x, y)[x] = y
           /\ \A z \in DOMAIN f \ {x} : Put(f, x, y)[z] = f[z]
  BY DEF PartialFunction, Put

\* A map without entries is a map of any type (EmptyMap).
LEMMA EmptyFacts ==
    ASSUME NEW S, NEW T
    PROVE  PartialFunction(EmptyMap, S, T) /\ DOMAIN EmptyMap = {}
  BY DEF PartialFunction, EmptyMap

\* The manifests of a configuration, and the manifest of a Secret that does not
\* exist, have the parts that Manifests gives them.
LEMMA ManifestFacts ==
    ASSUME config \in Configs, NEW m \in config.manifests \cup {NoManifest}
    PROVE  /\ m.map \in [Keys -> Vars \cup {NoVar, BadEntry}]
           /\ m.base64 \in SUBSET Keys
           /\ m.all \in BOOLEAN /\ m.garbled \in BOOLEAN
           /\ m.groups \in [Keys -> Groups \cup {NoGroup, BadSpecs}]
           /\ m.garbled => ~m.all /\ \A k \in Keys : m.map[k] = NoVar
<1>1. CASE m \in config.manifests
  <2>1. config.manifests \subseteq Manifests
    BY ConfigAssumption DEF ConfigType
  <2>2. m \in Manifests
    BY <1>1, <2>1
  <2> QED
    BY <2>2 DEF Manifests
<1>2. CASE m = NoManifest
  BY <1>2 DEF NoManifest, NoMap, NoGroups
<1> QED
  BY <1>1, <1>2

-----------------------------------------------------------------------------
(***************************************************************************)
(* Frames: which actions change which variables.                           *)
(***************************************************************************)
\* A Secret is written by the provider, and the provider learns of it; a Secret is
\* written by a user; a required Secret is read; an
\* update is found needless.
Writes(s)    == updateSecret(s) \/ AnswerLost(s)
WriteStep    == \E s \in Secrets : Writes(s)
UpdateStep   == \E s \in Secrets : updateSecret(s)
UserStep     == \E s \in Secrets : EditMap(s) \/ Relabel(s) \/ Delete(s) \/ Create(s)
RequiredStep == \E s \in Secrets : RetrieveRequired(s)
SkipStep     == \E s \in Secrets : SkipUnchanged(s)

\* The configuration never changes, the Secrets only by a write, the snapshot and
\* the destinations only when Secrets are read or the call ends, the computed data
\* only when Conjur answered; a call that updates or returns no error gets there
\* along few ways.
Frame ==
    /\ config' = config
    /\ cluster' = cluster \/ WriteStep \/ UserStep
    /\ UNCHANGED prevSecretsChecksums \/ UpdateStep \/ prevSecretsChecksums' = EmptyMap
    /\ UNCHANGED sumVars \/ WriteStep \/ (prevSecretsChecksums' = EmptyMap /\ step' = "idle")
    /\ UNCHANGED <<original, dests, base64, allDests, secretsGroups>>
         \/ ListLabelled \/ RequiredStep \/ ClearCall
    /\ UNCHANGED fresh \/ ListLabelled \/ RequiredStep \/ ClearCall \/ WriteStep \/ UserStep
    /\ UNCHANGED newData \/ RetrieveSecrets \/ RemoveAll \/ ClearCall
    /\ UNCHANGED keysToRemoveCumulative \/ TakeEvent \/ keysToRemoveCumulative' = EmptyMap
    /\ UNCHANGED queue \/ TakeEvent \/ UserStep \/ queue' = <<>>
    /\ UNCHANGED changes \/ Change
    /\ \/ UNCHANGED <<step, todo, newData, ret>>
       \/ ListLabelled \/ RetrieveSecrets \/ SkipStep \/ UpdateStep \/ UpdatesDone
       \/ step' \notin {"update", "return"} \/ (step' = "return" /\ ret' = "error")

\* Whether or not the answer arrives, the update was applied (updateSecret, AnswerLost).
LEMMA WritesApplied ==
    ASSUME NEW s, Writes(s)
    PROVE  Applied(s)
  BY DEF Writes, updateSecret, AnswerLost

\* Every step keeps within the frame (Next).
LEMMA Frames == [Next]_vars => Frame
<1> SUFFICES ASSUME [Next]_vars PROVE Frame
  OBVIOUS
<1>1. CASE ListLabelled
  BY <1>1 DEF ListLabelled, Frame, envVars, sumVars, destVars, passVars, infVars
<1>2. CASE ListVariables
  BY <1>2 DEF ListVariables, Frame, envVars, sumVars, destVars, passVars, infVars
<1>3. CASE RetrieveSecrets
  BY <1>3 DEF RetrieveSecrets, Frame, envVars, sumVars, destVars, passVars, infVars
<1>4. CASE RemoveDeletedSecrets
  <2>1. RemoveAll
    BY <1>4 DEF RemoveDeletedSecrets
  <2>2. UNCHANGED changes \/ Change
    BY <1>4 DEF RemoveDeletedSecrets
  <2> QED
    BY <2>1, <2>2 DEF RemoveAll, Frame, envVars, sumVars, destVars, infVars
<1>5. CASE WipeNil
  BY <1>5 DEF WipeNil, Panic, Frame, envVars, sumVars, destVars, passVars, infVars
<1>6. CASE NothingRetrieved
  BY <1>6 DEF NothingRetrieved, Fail, Frame, envVars, sumVars, destVars, passVars, infVars
<1>7. CASE UpdatesDone
  BY <1>7 DEF UpdatesDone, Frame, envVars, sumVars, destVars, passVars, infVars
<1>8. CASE Unlock
  <2>1. ClearCall /\ InformerAfterRun
    BY <1>8 DEF Unlock
  <2>2. UNCHANGED queue /\ (UNCHANGED keysToRemoveCumulative \/ keysToRemoveCumulative' = EmptyMap)
    BY <2>1 DEF InformerAfterRun, infVars
  <2> QED
    BY <1>8, <2>1, <2>2 DEF Unlock, ClearCall, Frame, envVars, sumVars
<1>9. ASSUME NEW s \in Secrets, RetrieveRequired(s) PROVE Frame
  <2>1. RequiredStep
    BY <1>9 DEF RequiredStep
  <2> QED
    BY <1>9, <2>1 DEF RetrieveRequired, Frame, envVars, sumVars, destVars, passVars, infVars
<1>10. ASSUME NEW s \in Secrets, RequiredUnusable(s) PROVE Frame
  BY <1>10 DEF RequiredUnusable, Fail, Frame, envVars, sumVars, destVars, passVars, infVars
<1>11. ASSUME NEW s \in Secrets, SkipUnchanged(s) PROVE Frame
  <2>1. SkipStep
    BY <1>11 DEF SkipStep
  <2> QED
    BY <1>11, <2>1 DEF SkipUnchanged, Frame, envVars, sumVars, destVars, infVars
<1>12. ASSUME NEW s \in Secrets, updateSecret(s) PROVE Frame
  <2>1. WriteStep /\ UpdateStep
    BY <1>12 DEF WriteStep, UpdateStep, Writes
  <2> QED
    BY <1>12, <2>1 DEF updateSecret, Applied, Frame, envVars, sumVars, destVars, passVars, infVars
<1>13. ASSUME NEW s \in Secrets, UpdateFails(s) PROVE Frame
  BY <1>13 DEF UpdateFails, UpdateError, ChecksumsAfterError, Frame, envVars, sumVars, destVars,
     passVars, infVars
<1>14. ASSUME NEW s \in Secrets, NilOriginal(s) PROVE Frame
  BY <1>14 DEF NilOriginal, Panic, Frame, envVars, sumVars, destVars, passVars, infVars
<1>15. CASE TakeEvent
  BY <1>15 DEF TakeEvent, Frame, envVars, sumVars, destVars, passVars, infVars
<1>16. CASE RetrieveFails
  BY <1>16 DEF RetrieveFails, Fail, Frame, envVars, sumVars, destVars, passVars, infVars
<1>17. CASE ConjurFails
  BY <1>17 DEF ConjurFails, Fail, Frame, envVars, sumVars, destVars, passVars, infVars
<1>18. CASE RemoveByMistake
  <2>1. RemoveAll
    BY <1>18 DEF RemoveByMistake
  <2>2. UNCHANGED changes \/ Change
    BY <1>18 DEF RemoveByMistake
  <2> QED
    BY <2>1, <2>2 DEF RemoveAll, Frame, envVars, sumVars, destVars, infVars
<1>19. CASE NoClient
  BY <1>19 DEF NoClient, Panic, Frame, envVars, sumVars, destVars, passVars, infVars
<1>20. ASSUME NEW s \in Secrets, AnswerLost(s) PROVE Frame
  <2>1. WriteStep
    BY <1>20 DEF WriteStep, Writes
  <2> QED
    BY <1>20, <2>1 DEF AnswerLost, Applied, UpdateError, ChecksumsAfterError, Frame, destVars,
       infVars
<1>21. CASE Restart
  <2>1. ClearCall /\ (UNCHANGED changes \/ Change)
    BY <1>21 DEF Restart
  <2> QED
    BY <1>21, <2>1 DEF Restart, ClearCall, Frame, envVars, sumVars
<1>22. ASSUME NEW s \in Secrets, EditMap(s) PROVE Frame
  <2>1. UserStep /\ UserWrite(s)
    BY <1>22 DEF UserStep, EditMap
  <2> QED
    BY <2>1 DEF UserWrite, Frame, destVars, sumVars
<1>23. ASSUME NEW s \in Secrets, Relabel(s) PROVE Frame
  <2>1. UserStep /\ UserWrite(s)
    BY <1>23 DEF UserStep, Relabel
  <2> QED
    BY <2>1 DEF UserWrite, Frame, destVars, sumVars
<1>24. ASSUME NEW s \in Secrets, Delete(s) PROVE Frame
  <2>1. UserStep /\ UserWrite(s)
    BY <1>24 DEF UserStep, Delete
  <2> QED
    BY <2>1 DEF UserWrite, Frame, destVars, sumVars
<1>25. ASSUME NEW s \in Secrets, Create(s) PROVE Frame
  <2>1. UserStep /\ UserWrite(s)
    BY <1>25 DEF UserStep, Create
  <2> QED
    BY <2>1 DEF UserWrite, Frame, destVars, sumVars
<1>26. ASSUME NEW v \in Vars, Rotate(v) PROVE Frame
  BY <1>26 DEF Rotate, ConjurChange, Frame, envVars, sumVars, destVars, passVars, infVars
<1>27. ASSUME NEW v \in Vars, Revoke(v) PROVE Frame
  BY <1>27 DEF Revoke, ConjurChange, Frame, envVars, sumVars, destVars, passVars, infVars
<1>28. ASSUME NEW v \in Vars, Grant(v) PROVE Frame
  BY <1>28 DEF Grant, ConjurChange, Frame, envVars, sumVars, destVars, passVars, infVars
<1>29. ASSUME NEW c \in Callers, Lock(c) PROVE Frame
  BY <1>29 DEF Lock, Frame, envVars, sumVars, destVars, passVars, infVars
<1>30. CASE UNCHANGED vars
  BY <1>30 DEF vars, Frame, envVars, sumVars, destVars, passVars, infVars
<1> QED
  BY <1>1, <1>2, <1>3, <1>4, <1>5, <1>6, <1>7, <1>8, <1>9, <1>10, <1>11, <1>12, <1>13, <1>14,
     <1>15, <1>16, <1>17, <1>18, <1>19, <1>20, <1>21, <1>22, <1>23, <1>24, <1>25, <1>26, <1>27,
     <1>28, <1>29, <1>30 DEF Next, ProviderStep, Environment

-----------------------------------------------------------------------------
(***************************************************************************)
(* Types.                                                                  *)
(***************************************************************************)
\* A Secret that exists has a manifest that a user wrote.
LiveSpecs ==
    \A s \in Secrets : cluster[s].status # "deleted" => cluster[s].spec \in config.manifests

TypeInv == TypeOK /\ LiveSpecs

\* What the types say of one Secret (ClusterType).
LEMMA SecretTyped ==
    ASSUME TypeOK, NEW s \in Secrets
    PROVE  /\ cluster[s].status \in {"labelled", "unlabelled", "deleted"}
           /\ cluster[s].spec \in config.manifests \cup {NoManifest}
           /\ cluster[s].data \in [Keys -> DataValues]
  BY DEF TypeOK, ClusterType

\* The snapshot has a manifest of the configuration and data for each Secret
\* (originalK8sSecrets).
LEMMA OriginalTyped ==
    ASSUME TypeOK, NEW s \in DOMAIN original
    PROVE  /\ s \in Secrets
           /\ original[s].spec \in config.manifests
           /\ original[s].data \in [Keys -> DataValues]
  BY DEF TypeOK, PartialFunction

\* The destinations of a manifest are variables or nothing (Destinations).
LEMMA DestinationsTyped ==
    ASSUME NEW m
    PROVE  Destinations(m) \in [Keys -> Vars \cup {NoVar}]
  BY DEF Destinations

\* Invalid groups are not recorded (processSecretGroupAnnotations).
LEMMA RecordedTyped ==
    ASSUME config \in Configs, NEW m \in config.manifests \cup {NoManifest}
    PROVE  /\ RecordedGroups(m) \in [Keys -> Groups \cup {NoGroup}]
           /\ ~InvalidGroups(m) => m.groups \in [Keys -> Groups \cup {NoGroup}]
<1>1. m.groups \in [Keys -> Groups \cup {NoGroup, BadSpecs}]
  BY ManifestFacts
<1>2. CASE InvalidGroups(m)
  BY <1>2 DEF RecordedGroups, NoGroups
<1>3. CASE ~InvalidGroups(m)
  <2>1. \A k \in Keys : m.groups[k] # BadSpecs
    BY <1>3 DEF InvalidGroups
  <2>2. m.groups \in [Keys -> Groups \cup {NoGroup}]
    BY <1>1, <2>1
  <2> QED
    BY <1>3, <2>2 DEF RecordedGroups
<1> QED
  BY <1>2, <1>3

\* What Conjur returned for a set of variables is a part of it (Returned).
LEMMA ReturnedPart ==
    ASSUME NEW A, NEW D, NEW v2
    PROVE  Returned(A, D, v2) \subseteq A
  BY DEF Returned

\* The data that an update writes are of their type (UpdatedData).
LEMMA UpdatedTyped ==
    ASSUME TypeOK, NEW s \in DOMAIN original
    PROVE  UpdatedData(s) \in [Keys -> DataValues]
<1>1. newData[s] \in [Keys -> DataValues] /\ original[s].data \in [Keys -> DataValues]
  BY OriginalTyped DEF TypeOK
<1>2. Absent \in DataValues
  BY DEF DataValues
<1> QED
  BY <1>1, <1>2 DEF UpdatedData

\* The Secrets keep their type, and a manifest of the configuration while they exist,
\* through every update and every write of a user (updateSecret, UserWrite).
LEMMA ClusterStep == TypeInv /\ [Next]_vars => ClusterType' /\ LiveSpecs'
<1> SUFFICES ASSUME TypeInv, [Next]_vars PROVE ClusterType' /\ LiveSpecs'
  OBVIOUS
<1> USE DEF TypeInv
<1> DEFINE Objects == [status : {"labelled", "unlabelled", "deleted"},
                       spec : config.manifests \cup {NoManifest}, data : [Keys -> DataValues]]
<1>0. config' = config /\ Frame
  BY Frames DEF Frame
<1>1. CASE cluster' = cluster
  BY <1>0, <1>1 DEF TypeOK, ClusterType, LiveSpecs
<1>2. ASSUME NEW s \in Secrets, Writes(s) PROVE ClusterType' /\ LiveSpecs'
  <2>1. s \in DOMAIN original
    BY <1>2, WritesApplied DEF Applied
  <2>2. original[s].spec \in config.manifests /\ UpdatedData(s) \in [Keys -> DataValues]
    BY <2>1, OriginalTyped, UpdatedTyped
  <2>3. cluster' = [cluster EXCEPT ![s].spec = original[s].spec, ![s].data = UpdatedData(s)]
    BY <1>2, WritesApplied DEF Applied
  <2>4. cluster[s] \in Objects
    BY DEF TypeOK, ClusterType
  <2> DEFINE r == [cluster[s] EXCEPT !.spec = original[s].spec, !.data = UpdatedData(s)]
  <2>5. cluster' = [cluster EXCEPT ![s] = r] /\ r \in Objects /\ r.spec \in config.manifests
    BY <2>2, <2>3, <2>4
  <2> QED
    BY <1>0, <2>5 DEF TypeOK, ClusterType, LiveSpecs
<1>3. ASSUME NEW s \in Secrets, EditMap(s) PROVE ClusterType' /\ LiveSpecs'
  <2>1. PICK m \in config.manifests : cluster' = [cluster EXCEPT ![s].spec = m]
    BY <1>3 DEF EditMap
  <2>2. cluster[s] \in Objects
    BY DEF TypeOK, ClusterType
  <2> DEFINE r == [cluster[s] EXCEPT !.spec = m]
  <2>3. cluster' = [cluster EXCEPT ![s] = r] /\ r \in Objects /\ r.spec \in config.manifests
    BY <2>1, <2>2
  <2> QED
    BY <1>0, <2>3 DEF TypeOK, ClusterType, LiveSpecs
<1>4. ASSUME NEW s \in Secrets, Relabel(s) PROVE ClusterType' /\ LiveSpecs'
  <2>1. cluster[s].status # "deleted"
    BY <1>4 DEF Relabel
  <2>2. PICK x \in {"labelled", "unlabelled"} : cluster' = [cluster EXCEPT ![s].status = x]
    BY <1>4 DEF Relabel
  <2> QED
    BY <1>0, <2>1, <2>2 DEF TypeOK, ClusterType, LiveSpecs
<1>5. ASSUME NEW s \in Secrets, Delete(s) PROVE ClusterType' /\ LiveSpecs'
  <2>1. cluster' = [cluster EXCEPT ![s] = NoSecret]
    BY <1>5 DEF Delete
  <2>2. NoData \in [Keys -> DataValues]
    BY DEF NoData, DataValues
  <2> QED
    BY <1>0, <2>1, <2>2 DEF TypeOK, ClusterType, LiveSpecs, NoSecret
<1>6. ASSUME NEW s \in Secrets, Create(s) PROVE ClusterType' /\ LiveSpecs'
  <2>1. PICK m \in config.manifests :
           cluster' = [cluster EXCEPT ![s].status = "labelled", ![s].spec = m]
    BY <1>6 DEF Create
  <2>2. cluster[s] \in Objects
    BY DEF TypeOK, ClusterType
  <2> DEFINE r == [cluster[s] EXCEPT !.status = "labelled", !.spec = m]
  <2>3. cluster' = [cluster EXCEPT ![s] = r] /\ r \in Objects /\ r.spec \in config.manifests
    BY <2>1, <2>2
  <2> QED
    BY <1>0, <2>3 DEF TypeOK, ClusterType, LiveSpecs
<1> QED
  BY <1>0, <1>1, <1>2, <1>3, <1>4, <1>5, <1>6 DEF Frame, WriteStep, UserStep

\* The snapshot, the destinations and the groups that a call has read.
ReadType ==
    /\ PartialFunction(original, Secrets, [spec : config.manifests, data : [Keys -> DataValues]])
    /\ dests \in [Secrets -> [Keys -> Vars \cup {NoVar}]] /\ base64 \in [Secrets -> SUBSET Keys]
    /\ allDests \subseteq Secrets
    /\ secretsGroups \in [Secrets -> [Keys -> Groups \cup {NoGroup}]]

\* What a call reads keeps its type (ListLabelled, RetrieveRequired).
LEMMA ReadStep == TypeInv /\ [Next]_vars => ReadType'
<1> SUFFICES ASSUME TypeInv, [Next]_vars PROVE ReadType'
  OBVIOUS
<1> USE DEF TypeInv
<1>0. config' = config /\ Frame /\ config \in Configs
  BY Frames DEF Frame, TypeOK
<1>1. CASE UNCHANGED <<original, dests, base64, allDests, secretsGroups>>
  BY <1>0, <1>1 DEF TypeOK, ReadType
<1>2. CASE ListLabelled
  <2>1. \A s \in Labelled : /\ cluster[s].spec \in config.manifests
                            /\ cluster[s].data \in [Keys -> DataValues]
    BY SecretTyped DEF Labelled, LiveSpecs
  <2>2. PICK S \in SkippedSets :
           original' = [s \in Labelled \ S |-> [spec |-> cluster[s].spec, data |-> cluster[s].data]]
    BY <1>2 DEF ListLabelled
  <2>3. PartialFunction(original', Secrets, [spec : config'.manifests, data : [Keys -> DataValues]])
    <3>1. Labelled \subseteq Secrets
      BY DEF Labelled
    <3>2. DOMAIN original' = Labelled \ S
      BY <2>2
    <3>3. \A s \in Labelled \ S : original'[s] \in [spec : config.manifests, data : [Keys -> DataValues]]
      BY <2>1, <2>2
    <3> QED
      BY <1>0, <2>2, <3>1, <3>2, <3>3 DEF PartialFunction
  <2>4. dests' \in [Secrets -> [Keys -> Vars \cup {NoVar}]]
    BY <1>2 DEF ListLabelled
  <2>5. base64' \in [Secrets -> SUBSET Keys]
    <3>1. \A s \in Labelled : cluster[s].spec.base64 \in SUBSET Keys
      BY <1>0, <2>1, ManifestFacts
    <3> QED
      BY <1>2, <3>1 DEF ListLabelled
  <2>6. allDests' \subseteq Secrets
    BY <1>2 DEF ListLabelled, Labelled
  <2>7. secretsGroups' \in [Secrets -> [Keys -> Groups \cup {NoGroup}]]
    <3>1. \A s \in Labelled : RecordedGroups(cluster[s].spec) \in [Keys -> Groups \cup {NoGroup}]
      BY <1>0, <2>1, RecordedTyped
    <3>2. NoGroups \in [Keys -> Groups \cup {NoGroup}]
      BY DEF NoGroups
    <3> QED
      BY <1>2, <3>1, <3>2 DEF ListLabelled
  <2> QED
    BY <2>3, <2>4, <2>5, <2>6, <2>7 DEF ReadType
<1>3. ASSUME NEW s \in Secrets, RetrieveRequired(s) PROVE ReadType'
  <2>1. cluster[s].status # "deleted" /\ ~InvalidGroups(cluster[s].spec)
    BY <1>3 DEF RetrieveRequired, Unusable
  <2>2. /\ cluster[s].spec \in config.manifests
        /\ cluster[s].data \in [Keys -> DataValues]
    BY <2>1, SecretTyped DEF LiveSpecs
  <2>3. /\ cluster[s].spec.base64 \in SUBSET Keys
        /\ cluster[s].spec.groups \in [Keys -> Groups \cup {NoGroup}]
    BY <1>0, <2>1, <2>2, ManifestFacts, RecordedTyped
  <2>4. PartialFunction(original', Secrets, [spec : config'.manifests, data : [Keys -> DataValues]])
    <3> DEFINE x == [spec |-> cluster[s].spec, data |-> cluster[s].data]
               T == [spec : config.manifests, data : [Keys -> DataValues]]
    <3>1. x \in T
      BY <2>2
    <3>2. PartialFunction(original, Secrets, T)
      BY DEF TypeOK
    <3>3. original' = Put(original, s, x)
      BY <1>3 DEF RetrieveRequired
    <3> HIDE DEF x, T
    <3>4. PartialFunction(Put(original, s, x), Secrets, T)
      BY <3>1, <3>2, PutFacts
    <3> QED
      BY <1>0, <3>3, <3>4 DEF T
  <2>5. Destinations(cluster[s].spec) \in [Keys -> Vars \cup {NoVar}]
    BY DestinationsTyped
  <2>6. /\ dests' \in [Secrets -> [Keys -> Vars \cup {NoVar}]] /\ base64' \in [Secrets -> SUBSET Keys]
        /\ allDests' \subseteq Secrets
        /\ secretsGroups' \in [Secrets -> [Keys -> Groups \cup {NoGroup}]]
    BY <1>3, <2>3, <2>5 DEF RetrieveRequired, TypeOK
  <2> QED
    BY <2>4, <2>6 DEF ReadType
<1>4. CASE ClearCall
  <2>1. NoMap \in [Keys -> Vars \cup {NoVar}] /\ NoGroups \in [Keys -> Groups \cup {NoGroup}]
    BY DEF NoMap, NoGroups
  <2>2. PartialFunction(original', Secrets, [spec : config'.manifests, data : [Keys -> DataValues]])
    BY <1>4, EmptyFacts DEF ClearCall
  <2> QED
    BY <1>4, <2>1, <2>2 DEF ReadType, ClearCall, NoDests
<1> QED
  BY <1>0, <1>1, <1>2, <1>3, <1>4 DEF Frame, RequiredStep

\* The content of a key is of its type, whatever Conjur returned (createSecretData).
LEMMA ContentTyped ==
    ASSUME TypeOK, NEW got \in SUBSET Vars, NEW v \in Vars \cup {NoVar}, NEW d
    PROVE  /\ ValueFor(v, got) \in Values \cup {Absent, Blank}
           /\ Content(ValueFor(v, got), d) \in DataValues
<1>1. ValueFor(v, got) \in Values \cup {Absent, Blank}
  BY DEF ValueFor, MissingValue, TypeOK
<1> QED
  BY <1>1 DEF Content, DataValues

\* What is computed for all keys is of its type (createSecretData).
LEMMA CreatedTyped ==
    ASSUME TypeOK, NEW got \in SUBSET Vars, NEW first \in [Keys -> got \cup {NoVar}]
    PROVE  createSecretData(got, first) \in [Secrets -> [Keys -> DataValues]]
<1> SUFFICES ASSUME NEW s \in Secrets, NEW k \in Keys
             PROVE  createSecretData(got, first)[s][k] \in DataValues
  BY DEF createSecretData
<1>1. dests[s][k] \in Vars \cup {NoVar} /\ first[k] \in Vars \cup {NoVar}
  BY DEF TypeOK
<1>2. /\ Content(ValueFor(dests[s][k], got), k \in base64[s]) \in DataValues
      /\ ValueFor(first[k], got) \in Values \cup {Absent, Blank}
  BY <1>1, ContentTyped
<1>3. WipeStale(s, k, ValueFor(first[k], got)) \in DataValues
  BY <1>2 DEF WipeStale, DataValues
<1> QED
  BY <1>2, <1>3 DEF createSecretData

\* So is what the groups put in its place (populateGroupTemplateSecretData).
LEMMA PopulatedTyped ==
    ASSUME TypeOK, NEW got \in SUBSET Vars, NEW data \in [Secrets -> [Keys -> DataValues]]
    PROVE  populateGroupTemplateSecretData(got, data) \in [Secrets -> [Keys -> DataValues]]
<1> SUFFICES ASSUME NEW s \in Secrets, NEW k \in Keys
             PROVE  populateGroupTemplateSecretData(got, data)[s][k] \in DataValues
  BY DEF populateGroupTemplateSecretData
<1> DEFINE g == secretsGroups[s][k]
           x == [v \in g.vars |-> IF v \in got THEN conjur[v] ELSE Blank]
<1>1. ASSUME g \in Groups, g.template # "wrong" PROVE Render(g, x) \in DataValues
  <2>1. g.vars \in SUBSET Vars /\ g.template \in {"empty", "values", "text"}
    BY <1>1 DEF Groups
  <2>2. x \in [g.vars -> Values \cup {Blank}]
    BY <2>1 DEF TypeOK
  <2>3. g.template # "empty" => <<g.template, x>> \in Rendered
    BY <2>1, <2>2 DEF Rendered
  <2> HIDE DEF x
  <2> QED
    BY <2>3 DEF DataValues, Render
<1> QED
  BY <1>1 DEF populateGroupTemplateSecretData

\* The computed data keep their type (RetrieveSecrets, RemoveAll).
LEMMA NewDataStep == TypeInv /\ [Next]_vars => newData' \in [Secrets -> [Keys -> DataValues]]
<1> SUFFICES ASSUME TypeInv, [Next]_vars PROVE newData' \in [Secrets -> [Keys -> DataValues]]
  OBVIOUS
<1> USE DEF TypeInv
<1>1. CASE UNCHANGED newData
  BY <1>1 DEF TypeOK
<1>2. CASE RetrieveSecrets
  <2> DEFINE got == Returned(asked, denied, V2)
  <2>1. PICK first \in FirstOf(got) :
           newData' = populateGroupTemplateSecretData(got, createSecretData(got, first))
    BY <1>2 DEF RetrieveSecrets
  <2>2. got \in SUBSET Vars
    BY ReturnedPart DEF TypeOK
  <2> HIDE DEF got
  <2>3. first \in [Keys -> got \cup {NoVar}]
    BY <2>1 DEF FirstOf
  <2> QED
    BY <2>1, <2>2, <2>3, CreatedTyped, PopulatedTyped
<1>3. CASE RemoveAll
  <2> DEFINE data == [s \in Secrets |-> [k \in Keys |->
                        IF dests[s][k] # NoVar THEN Blank
                        ELSE IF s \in allDests THEN WipeStale(s, k, Absent) ELSE Absent]]
  <2>1. newData' = populateGroupTemplateSecretData({}, data)
    BY <1>3 DEF RemoveAll
  <2>2. \A s \in Secrets, k \in Keys : WipeStale(s, k, Absent) \in DataValues
    BY DEF WipeStale, DataValues
  <2>3. data \in [Secrets -> [Keys -> DataValues]]
    BY <2>2 DEF DataValues
  <2> HIDE DEF data
  <2> QED
    BY <2>1, <2>3, PopulatedTyped
<1>4. CASE ClearCall
  BY <1>4 DEF ClearCall, NoData, DataValues
<1> QED
  BY <1>1, <1>2, <1>3, <1>4, Frames DEF Frame

\* The events and the keys to remove stay what onUpdate and GetRemovedKeys make them.
KeysType ==
    /\ queue \in Seq([secret : Secrets, removed : SUBSET MapNames, added : SUBSET MapNames])
    /\ PartialFunction(keysToRemoveCumulative, Secrets, SUBSET MapNames)

\* Merging an event keeps the type of the keys to remove, and adds none without
\* sanitization (MergeReAddedKeys, GetRemovedKeys).
LEMMA MergeFacts ==
    ASSUME NEW f, PartialFunction(f, Secrets, SUBSET MapNames),
           NEW e \in [secret : Secrets, removed : SUBSET MapNames, added : SUBSET MapNames]
    PROVE  /\ PartialFunction(MergeKeys(f, e), Secrets, SUBSET MapNames)
           /\ ~SanitizeEnabled => DOMAIN MergeKeys(f, e) = DOMAIN f
<1> DEFINE kept == [s \in DOMAIN f |-> IF s = e.secret THEN f[s] \ e.added ELSE f[s]]
           removed == IF SanitizeEnabled THEN e.removed ELSE {}
           y == removed \cup (IF e.secret \in DOMAIN kept THEN kept[e.secret] ELSE {})
<1>1. PartialFunction(kept, Secrets, SUBSET MapNames) /\ DOMAIN kept = DOMAIN f
  BY DEF PartialFunction
<1>2. removed \in SUBSET MapNames /\ (~SanitizeEnabled => removed = {})
  OBVIOUS
<1>3. MergeKeys(f, e) = IF removed = {} THEN kept ELSE Put(kept, e.secret, y)
  BY DEF MergeKeys
<1>4. y \in SUBSET MapNames /\ e.secret \in Secrets
  BY <1>1, <1>2 DEF PartialFunction
<1> HIDE DEF kept, removed, y
<1>5. PartialFunction(Put(kept, e.secret, y), Secrets, SUBSET MapNames)
  BY <1>1, <1>4, PutFacts
<1> QED
  BY <1>1, <1>2, <1>3, <1>5

\* Events and keys to remove keep their type (Notify, TakeEvent).
LEMMA KeysStep == TypeInv /\ [Next]_vars => KeysType'
<1> SUFFICES ASSUME TypeInv, [Next]_vars PROVE KeysType'
  OBVIOUS
<1> DEFINE E == [secret : Secrets, removed : SUBSET MapNames, added : SUBSET MapNames]
<1>0. TypeOK /\ KeysType /\ queue \in Seq(E) /\ Frame
  BY Frames DEF TypeInv, TypeOK, KeysType
<1>1. ASSUME TakeEvent PROVE KeysType'
  <2>1. queue # <<>> /\ Head(queue) \in E /\ Tail(queue) \in Seq(E)
    <3> HIDE DEF E
    <3>1. queue # <<>>
      BY <1>1 DEF TakeEvent
    <3> QED
      BY <1>0, <3>1
  <2> QED
    BY <1>0, <1>1, <2>1, MergeFacts DEF TakeEvent, KeysType
<1>2. ASSUME NEW s \in Secrets, Notify(s) PROVE queue' \in Seq(E)
  <2>1. \A m : MapKeys(m) \in SUBSET MapNames
    BY DEF MapKeys, MapNames
  <2>2. PICK e \in E : queue' = Append(queue, e) \/ queue' = queue
    <3>1. /\ [secret |-> s, removed |-> {}, added |-> {}] \in E
          /\ \A m, n : [secret |-> s, removed |-> MapKeys(m) \ MapKeys(n),
                                      added   |-> MapKeys(n) \ MapKeys(m)] \in E
      BY <2>1
    <3> QED
      BY <1>2, <3>1 DEF Notify
  <2> HIDE DEF E
  <2> QED
    BY <1>0, <2>2
<1>3. queue' \in Seq(E)
  <2>1. CASE UserStep
    <3>1. PICK s \in Secrets : UserWrite(s)
      BY <2>1 DEF UserStep, EditMap, Relabel, Delete, Create
    <3> QED
      BY <1>2, <3>1 DEF UserWrite
  <2>2. <<>> \in Seq(E)
    OBVIOUS
  <2> QED
    BY <1>0, <1>1, <2>1, <2>2 DEF Frame, KeysType
<1>4. PartialFunction(keysToRemoveCumulative', Secrets, SUBSET MapNames)
  BY <1>0, <1>1, EmptyFacts DEF Frame, KeysType
<1> QED
  BY <1>3, <1>4 DEF KeysType

\* The checksums keep their type (updateSecret).
LEMMA ChecksumsStep ==
    TypeInv /\ [Next]_vars => PartialFunction(prevSecretsChecksums', Secrets, [Keys -> DataValues])
<1> SUFFICES ASSUME TypeInv, [Next]_vars
             PROVE  PartialFunction(prevSecretsChecksums', Secrets, [Keys -> DataValues])
  OBVIOUS
<1>0. TypeOK /\ PartialFunction(prevSecretsChecksums, Secrets, [Keys -> DataValues])
  BY DEF TypeInv, TypeOK
<1>1. ASSUME NEW s \in Secrets, updateSecret(s)
      PROVE  PartialFunction(prevSecretsChecksums', Secrets, [Keys -> DataValues])
  <2>1. newData[s] \in [Keys -> DataValues] /\ prevSecretsChecksums' = Put(prevSecretsChecksums, s, newData[s])
    BY <1>0, <1>1 DEF TypeOK, updateSecret, Applied
  <2> QED
    BY <1>0, <2>1, PutFacts
<1> QED
  BY <1>0, <1>1, Frames, EmptyFacts DEF Frame, UpdateStep

\* The variables that only enumerate the state of the call and of the environment.
ControlType ==
    /\ conjur \in [Vars -> Values] /\ denied \subseteq Vars
    /\ holder \in Callers \cup {"none"} /\ step \in Steps
    /\ fresh \subseteq Secrets /\ unsure \subseteq Secrets /\ asked \subseteq Vars /\ todo \subseteq Secrets
    /\ updated \in BOOLEAN /\ changed \in BOOLEAN /\ started \in BOOLEAN /\ batch \in BOOLEAN
    /\ ret \in {"none", "error", "updated", "unchanged"}

\* The control variables keep their type (every action).
LEMMA ControlStep == TypeInv /\ [Next]_vars => ControlType'
<1> SUFFICES ASSUME TypeInv, [Next]_vars PROVE ControlType'
  OBVIOUS
<1>0. ControlType
  BY DEF TypeInv, TypeOK, ControlType
<1>1. CASE ListLabelled
  BY <1>1, <1>0 DEF ListLabelled, ControlType, envVars, sumVars, destVars, passVars, infVars,
     Steps, Labelled
<1>2. CASE ListVariables
  BY <1>2, <1>0 DEF ListVariables, ControlType, envVars, sumVars, destVars, passVars, infVars,
     Steps, Requested
<1>3. CASE RetrieveSecrets
  BY <1>3, <1>0 DEF RetrieveSecrets, ControlType, envVars, sumVars, destVars, passVars, infVars,
     Steps, ToProcess
<1>4. CASE RemoveDeletedSecrets
  BY <1>4, <1>0 DEF RemoveDeletedSecrets, RemoveAll, ControlType, envVars, sumVars, destVars,
     passVars, infVars, Steps
<1>5. CASE WipeNil
  BY <1>5, <1>0 DEF WipeNil, Panic, ControlType, envVars, sumVars, destVars, passVars, infVars,
     Steps
<1>6. CASE NothingRetrieved
  BY <1>6, <1>0 DEF NothingRetrieved, Fail, ControlType, envVars, sumVars, destVars, passVars,
     infVars, Steps
<1>7. CASE UpdatesDone
  BY <1>7, <1>0 DEF UpdatesDone, ControlType, envVars, sumVars, destVars, passVars, infVars, Steps
<1>8. CASE Unlock
  BY <1>8, <1>0 DEF Unlock, ClearCall, InformerAfterRun, ControlType, envVars, sumVars, destVars,
     passVars, infVars, Steps
<1>9. ASSUME NEW s \in Secrets, RetrieveRequired(s) PROVE ControlType'
  BY <1>9, <1>0 DEF RetrieveRequired, ControlType, envVars, sumVars, destVars, passVars, infVars,
     Steps
<1>10. ASSUME NEW s \in Secrets, RequiredUnusable(s) PROVE ControlType'
  BY <1>10, <1>0 DEF RequiredUnusable, Fail, ControlType, envVars, sumVars, destVars, passVars,
     infVars, Steps
<1>11. ASSUME NEW s \in Secrets, SkipUnchanged(s) PROVE ControlType'
  BY <1>11, <1>0 DEF SkipUnchanged, ControlType, envVars, sumVars, destVars, passVars, infVars,
     Steps
<1>12. ASSUME NEW s \in Secrets, updateSecret(s) PROVE ControlType'
  BY <1>12, <1>0 DEF updateSecret, Applied, ControlType, envVars, sumVars, destVars, passVars,
     infVars, Steps, UpdatedAfter
<1>13. ASSUME NEW s \in Secrets, UpdateFails(s) PROVE ControlType'
  BY <1>13, <1>0 DEF UpdateFails, UpdateError, ChecksumsAfterError, ControlType, envVars,
     sumVars, destVars, passVars, infVars, Steps
<1>14. ASSUME NEW s \in Secrets, NilOriginal(s) PROVE ControlType'
  BY <1>14, <1>0 DEF NilOriginal, Panic, ControlType, envVars, sumVars, destVars, passVars,
     infVars, Steps
<1>15. CASE TakeEvent
  BY <1>15, <1>0 DEF TakeEvent, ControlType, envVars, sumVars, destVars, passVars, infVars, Steps
<1>16. CASE RetrieveFails
  BY <1>16, <1>0 DEF RetrieveFails, Fail, ControlType, envVars, sumVars, destVars, passVars,
     infVars, Steps
<1>17. CASE ConjurFails
  BY <1>17, <1>0 DEF ConjurFails, Fail, ControlType, envVars, sumVars, destVars, passVars,
     infVars, Steps
<1>18. CASE RemoveByMistake
  BY <1>18, <1>0 DEF RemoveByMistake, RemoveAll, ControlType, envVars, sumVars, destVars,
     passVars, infVars, Steps
<1>19. CASE NoClient
  BY <1>19, <1>0 DEF NoClient, Panic, ControlType, envVars, sumVars, destVars, passVars, infVars,
     Steps
<1>20. ASSUME NEW s \in Secrets, AnswerLost(s) PROVE ControlType'
  BY <1>20, <1>0 DEF AnswerLost, Applied, UpdateError, ChecksumsAfterError, ControlType, envVars,
     sumVars, destVars, passVars, infVars, Steps
<1>21. CASE Restart
  BY <1>21, <1>0 DEF Restart, ClearCall, ControlType, envVars, sumVars, destVars, passVars,
     infVars, Steps
<1>22. ASSUME NEW s \in Secrets, EditMap(s) PROVE ControlType'
  BY <1>22, <1>0 DEF EditMap, UserWrite, Touch, ControlType, envVars, sumVars, destVars,
     passVars, infVars, Steps
<1>23. ASSUME NEW s \in Secrets, Relabel(s) PROVE ControlType'
  BY <1>23, <1>0 DEF Relabel, UserWrite, Touch, ControlType, envVars, sumVars, destVars,
     passVars, infVars, Steps
<1>24. ASSUME NEW s \in Secrets, Delete(s) PROVE ControlType'
  BY <1>24, <1>0 DEF Delete, UserWrite, Touch, ControlType, envVars, sumVars, destVars, passVars,
     infVars, Steps
<1>25. ASSUME NEW s \in Secrets, Create(s) PROVE ControlType'
  BY <1>25, <1>0 DEF Create, UserWrite, Touch, ControlType, envVars, sumVars, destVars, passVars,
     infVars, Steps
<1>26. ASSUME NEW v \in Vars, Rotate(v) PROVE ControlType'
  BY <1>26, <1>0 DEF Rotate, ConjurChange, ControlType, envVars, sumVars, destVars, passVars,
     infVars, Steps
<1>27. ASSUME NEW v \in Vars, Revoke(v) PROVE ControlType'
  BY <1>27, <1>0 DEF Revoke, ConjurChange, ControlType, envVars, sumVars, destVars, passVars,
     infVars, Steps
<1>28. ASSUME NEW v \in Vars, Grant(v) PROVE ControlType'
  BY <1>28, <1>0 DEF Grant, ConjurChange, ControlType, envVars, sumVars, destVars, passVars,
     infVars, Steps
<1>29. ASSUME NEW c \in Callers, Lock(c) PROVE ControlType'
  BY <1>29, <1>0 DEF Lock, ControlType, envVars, sumVars, destVars, passVars, infVars, Steps
<1>30. CASE UNCHANGED vars
  BY <1>30, <1>0 DEF vars, ControlType, envVars, sumVars, destVars, passVars, infVars, Steps
<1> QED
  BY <1>1, <1>2, <1>3, <1>4, <1>5, <1>6, <1>7, <1>8, <1>9, <1>10, <1>11, <1>12, <1>13, <1>14,
     <1>15, <1>16, <1>17, <1>18, <1>19, <1>20, <1>21, <1>22, <1>23, <1>24, <1>25, <1>26, <1>27,
     <1>28, <1>29, <1>30 DEF Next, ProviderStep, Environment

\* Every step keeps TypeInv (Next).
LEMMA TypeStep == TypeInv /\ [Next]_vars => TypeInv'
<1> SUFFICES ASSUME TypeInv, [Next]_vars PROVE TypeInv'
  OBVIOUS
<1>1. config' = config /\ config \in Configs /\ (UNCHANGED changes \/ Change)
  BY Frames DEF Frame, TypeInv, TypeOK
<1>2. changes' \in 0..config'.maxChanges
  <2>1. config.maxChanges \in Nat /\ changes \in 0..config.maxChanges
    BY <1>1, ConfigAssumption DEF ConfigType, TypeInv, TypeOK
  <2> QED
    BY <1>1, <2>1 DEF Change
<1>3. ClusterType' /\ LiveSpecs'
  BY ClusterStep
<1>4. ReadType' /\ KeysType' /\ ControlType'
  BY ReadStep, KeysStep, ControlStep
<1>5. /\ PartialFunction(prevSecretsChecksums', Secrets, [Keys -> DataValues])
      /\ newData' \in [Secrets -> [Keys -> DataValues]]
  BY ChecksumsStep, NewDataStep
<1> QED
  BY <1>1, <1>2, <1>3, <1>4, <1>5 DEF TypeInv, TypeOK, ReadType, KeysType, ControlType

\* TypeInv holds at the start (Init).
LEMMA TypeInit == Init => TypeInv
<1> SUFFICES ASSUME Init PROVE TypeInv
  OBVIOUS
<1>1. /\ config \in Configs /\ config.existing \in SUBSET Secrets
      /\ config.manifests \in SUBSET Manifests /\ config.maxChanges \in Nat
  BY ConfigAssumption DEF Init, ConfigType
<1>2. NoData \in [Keys -> DataValues]
  BY DEF NoData, DataValues
<1>3. ClusterType /\ LiveSpecs
  <2>1. PICK m \in [config.existing -> config.manifests] :
           cluster = [s \in Secrets |->
                        IF s \in config.existing
                        THEN [status |-> "labelled", spec |-> m[s], data |-> NoData]
                        ELSE NoSecret]
    BY DEF Init
  <2> QED
    BY <1>1, <1>2, <2>1 DEF ClusterType, LiveSpecs, NoSecret
<1>4. ReadType
  <2>1. NoMap \in [Keys -> Vars \cup {NoVar}] /\ NoGroups \in [Keys -> Groups \cup {NoGroup}]
    BY DEF NoMap, NoGroups
  <2>2. PartialFunction(original, Secrets, [spec : config.manifests, data : [Keys -> DataValues]])
    BY EmptyFacts DEF Init
  <2> QED
    BY <2>1, <2>2 DEF Init, ReadType, NoDests
<1>5. KeysType /\ PartialFunction(prevSecretsChecksums, Secrets, [Keys -> DataValues])
  BY EmptyFacts DEF Init, KeysType
<1>6. ControlType
  BY DEF Init, ControlType, Steps
<1>7. newData \in [Secrets -> [Keys -> DataValues]] /\ changes \in 0..config.maxChanges
  BY <1>1, <1>2 DEF Init
<1> QED
  BY <1>1, <1>3, <1>4, <1>5, <1>6, <1>7 DEF TypeInv, TypeOK, ReadType, KeysType, ControlType

\* Every variable keeps the type of its Go counterpart, and the manifests that a
\* call reads are those that users wrote, through every interleaving of a call
\* with users, faults and restarts.
THEOREM TypeCorrect == Spec => []TypeOK
<1>1. Spec => []TypeInv
  BY TypeInit, TypeStep, PTL DEF Spec
<1>2. TypeInv => TypeOK
  BY DEF TypeInv
<1> QED
  BY <1>1, <1>2, PTL

-----------------------------------------------------------------------------
(***************************************************************************)
(* The contract with the scheduler.                                        *)
(***************************************************************************)
\* Between calls mu is free; a call has written nothing before Conjur answered,
\* and while it updates it remembers that it wrote; what it returns says so.
ControlInv ==
    /\ step = "idle" <=> holder = "none"
    /\ step \in {"idle", "retrieve", "list", "fetch"} =>
          ~changed /\ newData = [s \in Secrets |-> NoData]
    /\ step = "update" /\ changed => updated
    /\ step = "return" =>
          ret \in {"error", "updated", "unchanged"} /\ (ret = "unchanged" => ~changed)

\* At the start no call is running (Init).
LEMMA ControlInvInit == Init => ControlInv
  BY DEF Init, ControlInv

\* Every step keeps ControlInv (Next).
LEMMA ControlInvStep == TypeInv /\ ControlInv /\ [Next]_vars => ControlInv'
<1> SUFFICES ASSUME TypeInv, ControlInv, [Next]_vars PROVE ControlInv'
  OBVIOUS
<1>0. ControlType
  BY DEF TypeInv, TypeOK, ControlType
<1>1. CASE ListLabelled
  BY <1>1 DEF ListLabelled, ControlInv, envVars, sumVars, destVars, passVars, infVars
<1>2. CASE ListVariables
  BY <1>2 DEF ListVariables, ControlInv, envVars, sumVars, destVars, passVars, infVars
<1>3. CASE RetrieveSecrets
  BY <1>3 DEF RetrieveSecrets, ControlInv, envVars, sumVars, destVars, passVars, infVars
<1>4. CASE RemoveDeletedSecrets
  BY <1>4 DEF RemoveDeletedSecrets, RemoveAll, ControlInv, envVars, sumVars, destVars, passVars,
     infVars
<1>5. CASE WipeNil
  BY <1>5 DEF WipeNil, Panic, ControlInv, envVars, sumVars, destVars, passVars, infVars
<1>6. CASE NothingRetrieved
  BY <1>6 DEF NothingRetrieved, Fail, ControlInv, envVars, sumVars, destVars, passVars, infVars
<1>7. CASE UpdatesDone
  BY <1>7 DEF UpdatesDone, ControlInv, envVars, sumVars, destVars, passVars, infVars
<1>8. CASE Unlock
  BY <1>8 DEF Unlock, ClearCall, InformerAfterRun, ControlInv, envVars, sumVars, destVars,
     passVars, infVars
<1>9. ASSUME NEW s \in Secrets, RetrieveRequired(s) PROVE ControlInv'
  BY <1>9 DEF RetrieveRequired, ControlInv, envVars, sumVars, destVars, passVars, infVars
<1>10. ASSUME NEW s \in Secrets, RequiredUnusable(s) PROVE ControlInv'
  BY <1>10 DEF RequiredUnusable, Fail, ControlInv, envVars, sumVars, destVars, passVars, infVars
<1>11. ASSUME NEW s \in Secrets, SkipUnchanged(s) PROVE ControlInv'
  BY <1>11 DEF SkipUnchanged, ControlInv, envVars, sumVars, destVars, passVars, infVars
<1>12. ASSUME NEW s \in Secrets, updateSecret(s) PROVE ControlInv'
  BY <1>12, <1>0 DEF updateSecret, Applied, ControlInv, envVars, sumVars, destVars, passVars,
     infVars, UpdatedAfter
<1>13. ASSUME NEW s \in Secrets, UpdateFails(s) PROVE ControlInv'
  BY <1>13 DEF UpdateFails, UpdateError, ChecksumsAfterError, ControlInv, envVars, sumVars,
     destVars, passVars, infVars
<1>14. ASSUME NEW s \in Secrets, NilOriginal(s) PROVE ControlInv'
  BY <1>14 DEF NilOriginal, Panic, ControlInv, envVars, sumVars, destVars, passVars, infVars
<1>15. CASE TakeEvent
  BY <1>15 DEF TakeEvent, ControlInv, envVars, sumVars, destVars, passVars, infVars
<1>16. CASE RetrieveFails
  BY <1>16 DEF RetrieveFails, Fail, ControlInv, envVars, sumVars, destVars, passVars, infVars
<1>17. CASE ConjurFails
  BY <1>17 DEF ConjurFails, Fail, ControlInv, envVars, sumVars, destVars, passVars, infVars
<1>18. CASE RemoveByMistake
  BY <1>18 DEF RemoveByMistake, RemoveAll, ControlInv, envVars, sumVars, destVars, passVars, infVars
<1>19. CASE NoClient
  BY <1>19 DEF NoClient, Panic, ControlInv, envVars, sumVars, destVars, passVars, infVars
<1>20. ASSUME NEW s \in Secrets, AnswerLost(s) PROVE ControlInv'
  BY <1>20 DEF AnswerLost, Applied, UpdateError, ChecksumsAfterError, ControlInv, envVars,
     sumVars, destVars, passVars, infVars
<1>21. CASE Restart
  BY <1>21 DEF Restart, ClearCall, ControlInv, envVars, sumVars, destVars, passVars, infVars
<1>22. ASSUME NEW s \in Secrets, EditMap(s) PROVE ControlInv'
  BY <1>22 DEF EditMap, UserWrite, Touch, ControlInv, envVars, sumVars, destVars, passVars, infVars
<1>23. ASSUME NEW s \in Secrets, Relabel(s) PROVE ControlInv'
  BY <1>23 DEF Relabel, UserWrite, Touch, ControlInv, envVars, sumVars, destVars, passVars, infVars
<1>24. ASSUME NEW s \in Secrets, Delete(s) PROVE ControlInv'
  BY <1>24 DEF Delete, UserWrite, Touch, ControlInv, envVars, sumVars, destVars, passVars, infVars
<1>25. ASSUME NEW s \in Secrets, Create(s) PROVE ControlInv'
  BY <1>25 DEF Create, UserWrite, Touch, ControlInv, envVars, sumVars, destVars, passVars, infVars
<1>26. ASSUME NEW v \in Vars, Rotate(v) PROVE ControlInv'
  BY <1>26 DEF Rotate, ConjurChange, ControlInv, envVars, sumVars, destVars, passVars, infVars
<1>27. ASSUME NEW v \in Vars, Revoke(v) PROVE ControlInv'
  BY <1>27 DEF Revoke, ConjurChange, ControlInv, envVars, sumVars, destVars, passVars, infVars
<1>28. ASSUME NEW v \in Vars, Grant(v) PROVE ControlInv'
  BY <1>28 DEF Grant, ConjurChange, ControlInv, envVars, sumVars, destVars, passVars, infVars
<1>29. ASSUME NEW c \in Callers, Lock(c) PROVE ControlInv'
  BY <1>29 DEF Lock, ControlInv, envVars, sumVars, destVars, passVars, infVars, Callers
<1>30. CASE UNCHANGED vars
  BY <1>30 DEF vars, ControlInv, envVars, sumVars, destVars, passVars, infVars
<1> QED
  BY <1>1, <1>2, <1>3, <1>4, <1>5, <1>6, <1>7, <1>8, <1>9, <1>10, <1>11, <1>12, <1>13, <1>14,
     <1>15, <1>16, <1>17, <1>18, <1>19, <1>20, <1>21, <1>22, <1>23, <1>24, <1>25, <1>26, <1>27,
     <1>28, <1>29, <1>30 DEF Next, ProviderStep, Environment

\* The calls of K8sProvider, taken as the calls of ProviderContract, start free of
\* a call, and every step is one of the contract or leaves what it speaks of alone.
LEMMA ContractStep == ControlInv /\ [Next]_vars => [Contract!Next]_(Contract!vars)
<1> SUFFICES ASSUME ControlInv, [Next]_vars PROVE [Contract!Next]_(Contract!vars)
  OBVIOUS
<1>1. CASE ListLabelled
  BY <1>1 DEF ListLabelled, ControlInv, Contract!vars, envVars, sumVars, destVars, passVars, infVars
<1>2. CASE ListVariables
  BY <1>2 DEF ListVariables, ControlInv, Contract!vars, envVars, sumVars, destVars, passVars,
     infVars
<1>3. CASE RetrieveSecrets
  BY <1>3 DEF RetrieveSecrets, ControlInv, Contract!vars, envVars, sumVars, destVars, passVars,
     infVars
<1>4. CASE RemoveDeletedSecrets
  BY <1>4 DEF RemoveDeletedSecrets, RemoveAll, ControlInv, Contract!vars, envVars, sumVars,
     destVars, passVars, infVars
<1>5. CASE WipeNil
  BY <1>5 DEF WipeNil, Panic, ControlInv, Contract!vars, envVars, sumVars, destVars, passVars,
     infVars
<1>6. CASE NothingRetrieved
  BY <1>6 DEF NothingRetrieved, Fail, ControlInv, Contract!vars, envVars, sumVars, destVars,
     passVars, infVars
<1>7. CASE UpdatesDone
  BY <1>7 DEF UpdatesDone, ControlInv, Contract!vars, envVars, sumVars, destVars, passVars, infVars
<1>8. CASE Unlock
  <2>1. Contract!Return
    BY <1>8 DEF Unlock, ClearCall, ControlInv, Contract!Return, envVars, sumVars, destVars,
       passVars, infVars
  <2> QED
    BY <2>1 DEF Contract!Next
<1>9. ASSUME NEW s \in Secrets, RetrieveRequired(s) PROVE [Contract!Next]_(Contract!vars)
  BY <1>9 DEF RetrieveRequired, ControlInv, Contract!vars, envVars, sumVars, destVars, passVars,
     infVars
<1>10. ASSUME NEW s \in Secrets, RequiredUnusable(s) PROVE [Contract!Next]_(Contract!vars)
  BY <1>10 DEF RequiredUnusable, Fail, ControlInv, Contract!vars, envVars, sumVars, destVars,
     passVars, infVars
<1>11. ASSUME NEW s \in Secrets, SkipUnchanged(s) PROVE [Contract!Next]_(Contract!vars)
  BY <1>11 DEF SkipUnchanged, ControlInv, Contract!vars, envVars, sumVars, destVars, passVars,
     infVars
<1>12. ASSUME NEW s \in Secrets, updateSecret(s) PROVE [Contract!Next]_(Contract!vars)
  <2>1. Contract!ChangeTarget
    BY <1>12 DEF updateSecret, Applied, ControlInv, Contract!ChangeTarget, envVars, sumVars,
       destVars, passVars, infVars
  <2> QED
    BY <2>1 DEF Contract!Next
<1>13. ASSUME NEW s \in Secrets, UpdateFails(s) PROVE [Contract!Next]_(Contract!vars)
  BY <1>13 DEF UpdateFails, UpdateError, ChecksumsAfterError, ControlInv, Contract!vars, envVars,
     sumVars, destVars, passVars, infVars
<1>14. ASSUME NEW s \in Secrets, NilOriginal(s) PROVE [Contract!Next]_(Contract!vars)
  BY <1>14 DEF NilOriginal, Panic, ControlInv, Contract!vars, envVars, sumVars, destVars,
     passVars, infVars
<1>15. CASE TakeEvent
  BY <1>15 DEF TakeEvent, ControlInv, Contract!vars, envVars, sumVars, destVars, passVars, infVars
<1>16. CASE RetrieveFails
  BY <1>16 DEF RetrieveFails, Fail, ControlInv, Contract!vars, envVars, sumVars, destVars,
     passVars, infVars
<1>17. CASE ConjurFails
  BY <1>17 DEF ConjurFails, Fail, ControlInv, Contract!vars, envVars, sumVars, destVars,
     passVars, infVars
<1>18. CASE RemoveByMistake
  BY <1>18 DEF RemoveByMistake, RemoveAll, ControlInv, Contract!vars, envVars, sumVars, destVars,
     passVars, infVars
<1>19. CASE NoClient
  BY <1>19 DEF NoClient, Panic, ControlInv, Contract!vars, envVars, sumVars, destVars, passVars,
     infVars
<1>20. ASSUME NEW s \in Secrets, AnswerLost(s) PROVE [Contract!Next]_(Contract!vars)
  <2>1. Contract!ChangeTarget
    BY <1>20 DEF AnswerLost, Applied, UpdateError, ControlInv, Contract!ChangeTarget, envVars,
       sumVars, destVars, passVars, infVars
  <2> QED
    BY <2>1 DEF Contract!Next
<1>21. CASE Restart
  <2>1. Contract!Restart
    BY <1>21 DEF Restart, ClearCall, ControlInv, Contract!Restart, envVars, sumVars, destVars,
       passVars, infVars
  <2> QED
    BY <2>1 DEF Contract!Next
<1>22. ASSUME NEW s \in Secrets, EditMap(s) PROVE [Contract!Next]_(Contract!vars)
  BY <1>22 DEF EditMap, UserWrite, Touch, ControlInv, Contract!vars, envVars, sumVars, destVars,
     passVars, infVars
<1>23. ASSUME NEW s \in Secrets, Relabel(s) PROVE [Contract!Next]_(Contract!vars)
  BY <1>23 DEF Relabel, UserWrite, Touch, ControlInv, Contract!vars, envVars, sumVars, destVars,
     passVars, infVars
<1>24. ASSUME NEW s \in Secrets, Delete(s) PROVE [Contract!Next]_(Contract!vars)
  BY <1>24 DEF Delete, UserWrite, Touch, ControlInv, Contract!vars, envVars, sumVars, destVars,
     passVars, infVars
<1>25. ASSUME NEW s \in Secrets, Create(s) PROVE [Contract!Next]_(Contract!vars)
  BY <1>25 DEF Create, UserWrite, Touch, ControlInv, Contract!vars, envVars, sumVars, destVars,
     passVars, infVars
<1>26. ASSUME NEW v \in Vars, Rotate(v) PROVE [Contract!Next]_(Contract!vars)
  BY <1>26 DEF Rotate, ConjurChange, ControlInv, Contract!vars, envVars, sumVars, destVars,
     passVars, infVars
<1>27. ASSUME NEW v \in Vars, Revoke(v) PROVE [Contract!Next]_(Contract!vars)
  BY <1>27 DEF Revoke, ConjurChange, ControlInv, Contract!vars, envVars, sumVars, destVars,
     passVars, infVars
<1>28. ASSUME NEW v \in Vars, Grant(v) PROVE [Contract!Next]_(Contract!vars)
  BY <1>28 DEF Grant, ConjurChange, ControlInv, Contract!vars, envVars, sumVars, destVars,
     passVars, infVars
<1>29. ASSUME NEW c \in Callers, Lock(c) PROVE [Contract!Next]_(Contract!vars)
  <2>1. Contract!Call
    BY <1>29 DEF Lock, Callers, ControlInv, Contract!Call, envVars, sumVars, destVars, passVars,
       infVars
  <2> QED
    BY <2>1 DEF Contract!Next
<1>30. CASE UNCHANGED vars
  BY <1>30 DEF vars, ControlInv, Contract!vars, envVars, sumVars, destVars, passVars, infVars
<1> QED
  BY <1>1, <1>2, <1>3, <1>4, <1>5, <1>6, <1>7, <1>8, <1>9, <1>10, <1>11, <1>12, <1>13, <1>14,
     <1>15, <1>16, <1>17, <1>18, <1>19, <1>20, <1>21, <1>22, <1>23, <1>24, <1>25, <1>26, <1>27,
     <1>28, <1>29, <1>30 DEF Next, ProviderStep, Environment

\* Calls do not overlap, whichever goroutine makes them, and a call that has written
\* a Secret and returns no error reports "updated" (updated, mu): the provider
\* implements ProviderContract, for every number of Secrets and every fault.
THEOREM ImplementsContractHolds == Spec => ImplementsContract
<1>1. Init => Contract!Init
  BY DEF Init, Contract!Init
<1>2. Spec => [](TypeInv /\ ControlInv)
  BY TypeInit, TypeStep, ControlInvInit, ControlInvStep, PTL DEF Spec
<1> QED
  BY <1>1, <1>2, ContractStep, PTL DEF Spec, ImplementsContract, Contract!Spec

-----------------------------------------------------------------------------
(***************************************************************************)
(* Checksums and delivery.                                                 *)
(***************************************************************************)
\* The Secret holds every entry of d.
Holds(s, d) == \A k \in Keys : d[k] # Absent => cluster[s].data[k] = d[k]

\* As long as nobody deletes a Secret, it holds what its checksum stands for, and
\* what the call computed for it once the call has dealt with it; not so a Secret
\* that was updated later with its answer lost.
DeliverInv ==
    ~Deletes =>
       /\ \A s \in DOMAIN prevSecretsChecksums \ unsure : Holds(s, prevSecretsChecksums[s])
       /\ step = "update" => \A s \in Secrets \ (todo \cup unsure) : Holds(s, newData[s])
       /\ step = "return" /\ ret # "error" => \A s \in Secrets \ unsure : Holds(s, newData[s])

\* Only an update of the provider changes the data of a Secret, unless Secrets are
\* deleted.
LEMMA DataFrame ==
    ASSUME TypeInv, [Next]_vars, ~Deletes, NEW t \in Secrets, ~Writes(t)
    PROVE  cluster'[t].data = cluster[t].data
<1>0. t \in DOMAIN cluster
  BY DEF TypeInv, TypeOK, ClusterType
<1>1. ASSUME NEW s \in Secrets, s # t, Writes(s) PROVE cluster'[t].data = cluster[t].data
  <2>1. Applied(s)
    BY <1>1, WritesApplied
  <2> QED
    BY <1>0, <1>1, <2>1 DEF Applied
<1>2. ASSUME NEW s \in Secrets, EditMap(s) PROVE cluster'[t].data = cluster[t].data
  BY <1>0, <1>2 DEF EditMap
<1>3. ASSUME NEW s \in Secrets, Relabel(s) PROVE cluster'[t].data = cluster[t].data
  BY <1>0, <1>3 DEF Relabel
<1>4. ASSUME NEW s \in Secrets, Delete(s) \/ Create(s) PROVE FALSE
  BY <1>4 DEF Delete, Create
<1> QED
  BY <1>1, <1>2, <1>3, <1>4, Frames DEF Frame, WriteStep, UserStep

\* The same, after the step.
HoldsNext(s, d) == \A k \in Keys : d[k] # Absent => cluster'[s].data[k] = d[k]

\* A Secret holds what an update of it wrote (UpdatedData).
LEMMA WrittenHolds ==
    ASSUME TypeInv, NEW s \in Secrets, Applied(s)
    PROVE  HoldsNext(s, newData[s])
<1>1. cluster'[s].data = UpdatedData(s)
  BY DEF Applied, TypeInv, TypeOK, ClusterType
<1> QED
  BY <1>1 DEF HoldsNext, UpdatedData

\* At the start nothing is stored or computed (Init).
LEMMA DeliverInit == Init => DeliverInv
  BY EmptyFacts DEF Init, DeliverInv

\* An update writes what it stores the checksum of, and an equal checksum means that
\* the entries are there (updateSecret, SkipUnchanged).
LEMMA DeliverStep == TypeInv /\ ControlInv /\ DeliverInv /\ [Next]_vars => DeliverInv'
<1> DEFINE Checks == \A s \in DOMAIN prevSecretsChecksums' \ unsure' : HoldsNext(s, prevSecretsChecksums'[s])
           Results == /\ step' = "update" => \A s \in Secrets \ (todo' \cup unsure') : HoldsNext(s, newData'[s])
                      /\ step' = "return" /\ ret' # "error" => \A s \in Secrets \ unsure' : HoldsNext(s, newData'[s])
<1> SUFFICES ASSUME TypeInv, ControlInv, DeliverInv, [Next]_vars, ~Deletes PROVE Checks /\ Results
  BY Frames DEF Frame, DeliverInv, Deletes, Holds, HoldsNext
<1>1. \A t \in Secrets : ~Writes(t) => \A d : Holds(t, d) => HoldsNext(t, d)
  BY DataFrame DEF Holds, HoldsNext
<1>2. DOMAIN prevSecretsChecksums \subseteq Secrets /\ Frame
  BY Frames DEF TypeInv, TypeOK, PartialFunction
<1>3. /\ \A s \in DOMAIN prevSecretsChecksums \ unsure : Holds(s, prevSecretsChecksums[s])
      /\ step = "update" => \A s \in Secrets \ (todo \cup unsure) : Holds(s, newData[s])
      /\ step = "return" /\ ret # "error" => \A s \in Secrets \ unsure : Holds(s, newData[s])
  BY DEF DeliverInv
<1>4. \A t \in Secrets : HoldsNext(t, NoData)
  BY DEF HoldsNext, NoData
<1> HIDE DEF Checks, Results
<1>w. ASSUME NEW s \in Secrets, Applied(s)
      PROVE  \A t \in Secrets \ {s} : \A d : Holds(t, d) => HoldsNext(t, d)
  <2>1. \A t \in Secrets \ {s} : cluster'[t] = cluster[t]
    BY <1>w DEF Applied, TypeInv, TypeOK, ClusterType
  <2> QED
    BY <2>1 DEF Holds, HoldsNext
<1>5. ASSUME NEW s \in Secrets, updateSecret(s) PROVE Checks /\ Results
  <2>0. Applied(s)
    BY <1>5 DEF updateSecret
  <2>1. HoldsNext(s, newData[s])
    BY <2>0, WrittenHolds
  <2>2. \A t \in Secrets \ {s} : \A d : Holds(t, d) => HoldsNext(t, d)
    BY <2>0, <1>w
  <2>3. /\ prevSecretsChecksums' = Put(prevSecretsChecksums, s, newData[s]) /\ unsure' = unsure \ {s}
        /\ step \in {"update", "remove"} /\ UNCHANGED <<step, newData, ret>> /\ todo' = todo \ {s}
    BY <1>5 DEF updateSecret, Applied
  <2>4. Checks
    <3>1. \A t \in DOMAIN prevSecretsChecksums' :
             prevSecretsChecksums'[t] = IF t = s THEN newData[s] ELSE prevSecretsChecksums[t]
      BY <2>3 DEF Put
    <3>2. DOMAIN prevSecretsChecksums' = DOMAIN prevSecretsChecksums \cup {s}
      BY <2>3 DEF Put
    <3> QED
      BY <1>2, <1>3, <2>1, <2>2, <2>3, <3>1, <3>2 DEF Checks
  <2>5. Results
    BY <1>3, <2>1, <2>2, <2>3 DEF Results
  <2> QED
    BY <2>4, <2>5
<1>a. ASSUME NEW s \in Secrets, AnswerLost(s) PROVE Checks /\ Results
  <2>1. \A t \in Secrets \ {s} : \A d : Holds(t, d) => HoldsNext(t, d)
    BY <1>a, <1>w DEF AnswerLost
  <2>2. prevSecretsChecksums' = prevSecretsChecksums
    BY <1>a DEF AnswerLost, UpdateError, ChecksumsAfterError
  <2>3. unsure' = unsure \cup ({s} \cap DOMAIN prevSecretsChecksums)
    BY <1>a DEF AnswerLost
  <2>4. step' = "return" /\ ret' = "error"
    BY <1>a DEF AnswerLost, UpdateError
  <2>5. Checks
    BY <1>2, <1>3, <2>1, <2>2, <2>3 DEF Checks
  <2> QED
    BY <2>4, <2>5 DEF Results
<1>6. CASE ~WriteStep
  <2>0. UNCHANGED sumVars \/ (prevSecretsChecksums' = EmptyMap /\ step' = "idle")
    BY <1>2, <1>6 DEF Frame
  <2>1. \A t \in Secrets : \A d : Holds(t, d) => HoldsNext(t, d)
    BY <1>1, <1>6 DEF WriteStep
  <2>2. Checks
    BY <1>2, <1>3, <2>0, <2>1, EmptyFacts DEF Checks, sumVars
  <2>3. CASE UNCHANGED <<step, todo, newData, ret>>
    BY <1>3, <2>0, <2>1, <2>2, <2>3 DEF Results, sumVars
  <2>4. CASE ListLabelled
    <3>1. newData' = [s \in Secrets |-> NoData] /\ step' # "update"
      BY <2>4 DEF ListLabelled, ControlInv
    <3> QED
      BY <1>4, <2>2, <3>1 DEF Results
  <2>5. CASE RetrieveSecrets
    <3>1. step' = "update" /\ todo' = ToProcess(newData')
      BY <2>5 DEF RetrieveSecrets
    <3>2. \A s \in Secrets \ todo' : newData'[s] = NoData
      BY <3>1 DEF ToProcess
    <3> QED
      BY <1>4, <2>2, <3>1, <3>2 DEF Results
  <2>6. ASSUME NEW s \in Secrets, SkipUnchanged(s) PROVE Results
    <3>1. s \in DOMAIN prevSecretsChecksums /\ prevSecretsChecksums[s] = newData[s]
      BY <2>6 DEF SkipUnchanged, ContentHasChanged
    <3>2. s \notin unsure => HoldsNext(s, newData[s])
      BY <1>3, <2>1, <3>1
    <3> QED
      BY <1>3, <2>1, <2>6, <3>2 DEF SkipUnchanged, sumVars, Results
  <2>7. CASE UpdatesDone
    <3>1. newData' = newData /\ step' = "return" /\ (step = "remove" => ret' = "error")
      BY <2>7 DEF UpdatesDone, passVars
    <3>2. step = "update" => \A s \in Secrets \ unsure : Holds(s, newData[s])
      BY <1>3, <2>7 DEF UpdatesDone
    <3>3. step \in {"update", "remove"} /\ unsure' = unsure
      BY <2>7 DEF UpdatesDone, sumVars
    <3> QED
      BY <2>1, <2>2, <3>1, <3>2, <3>3 DEF Results
  <2>8. CASE step' \notin {"update", "return"} \/ (step' = "return" /\ ret' = "error")
    BY <2>2, <2>8 DEF Results
  <2> QED
    BY <1>2, <1>6, <2>2, <2>3, <2>4, <2>5, <2>6, <2>7, <2>8
       DEF Frame, SkipStep, WriteStep, UpdateStep, Writes
<1> QED
  BY <1>5, <1>6, <1>a DEF WriteStep, Writes

\* DeliverInv is an invariant (Spec).
LEMMA DeliverInvHolds == Spec => [](TypeInv /\ ControlInv /\ DeliverInv)
  BY TypeInit, TypeStep, ControlInvInit, ControlInvStep, DeliverInit, DeliverStep, PTL DEF Spec

\* The checksum stored for a Secret is that of entries the Secret still has: an update
\* that is refused, a conflict, a restart or another caller in between never leaves a
\* checksum behind that suppresses a needed update (prevSecretsChecksums). Only an
\* update that is applied while its answer is lost does.
THEOREM ChecksumsHonestHolds == Spec => []ChecksumsHonest
<1>1. DeliverInv => ChecksumsHonest
  BY DEF DeliverInv, ChecksumsHonest, Holds
<1> QED
  BY <1>1, DeliverInvHolds, PTL

\* A call that returns no error has left every entry it computed in its Secret, also
\* where it wrote nothing because of an equal checksum and users edited meanwhile
\* (updateRequiredK8sSecretsWithCleanup); the exception is again a Secret whose last
\* update lost its answer.
THEOREM CallDeliversHolds == Spec => []CallDelivers
<1>1. DeliverInv => CallDelivers
  BY DEF DeliverInv, CallDelivers, Holds
<1> QED
  BY <1>1, DeliverInvHolds, PTL

-----------------------------------------------------------------------------
(***************************************************************************)
(* The snapshot.                                                           *)
(***************************************************************************)
\* The snapshot equals the Secret as long as nobody wrote to it.
SnapshotFresh ==
    \A s \in DOMAIN original \cap fresh :
        original[s].spec = cluster[s].spec /\ original[s].data = cluster[s].data

\* What is in the snapshot was parsed without an error, and its destinations are
\* those of its manifest.
SnapshotParsed ==
    \A s \in DOMAIN original :
        /\ ~Malformed(original[s].spec)
        /\ dests[s] = Destinations(original[s].spec)
        /\ secretsGroups[s] = original[s].spec.groups
        /\ original[s].spec.all => s \in allDests

\* Groups that are recorded come from a manifest.
NoManifestGroups == \A m \in config.manifests : m.groups = NoGroups
GroupsFromManifests == NoManifestGroups => \A s \in Secrets : secretsGroups[s] = NoGroups

SnapshotInv == SnapshotFresh /\ SnapshotParsed /\ GroupsFromManifests

\* At the start there is no snapshot (Init).
LEMMA SnapshotInit == Init => SnapshotInv
  BY EmptyFacts DEF Init, SnapshotInv, SnapshotFresh, SnapshotParsed, GroupsFromManifests

\* Whoever writes to a Secret makes the snapshot of it stale (Touch, updateSecret).
LEMMA FreshStep == TypeInv /\ SnapshotFresh /\ [Next]_vars => SnapshotFresh'
<1> SUFFICES ASSUME TypeInv, SnapshotFresh, [Next]_vars PROVE SnapshotFresh'
  OBVIOUS
<1>0. cluster \in [Secrets -> [status : {"labelled", "unlabelled", "deleted"},
                               spec : config.manifests \cup {NoManifest}, data : [Keys -> DataValues]]]
  BY DEF TypeInv, TypeOK, ClusterType
<1>1. CASE ListLabelled
  BY <1>1 DEF ListLabelled, envVars, SnapshotFresh
<1>2. ASSUME NEW s \in Secrets, RetrieveRequired(s) PROVE SnapshotFresh'
  BY <1>2 DEF RetrieveRequired, Put, envVars, SnapshotFresh
<1>3. CASE ClearCall
  BY <1>3, EmptyFacts DEF ClearCall, SnapshotFresh
<1>4. ASSUME NEW s \in Secrets, Writes(s) PROVE SnapshotFresh'
  <2>1. DOMAIN original \subseteq Secrets /\ original' = original /\ fresh' = fresh \ {s}
    BY <1>4, WritesApplied DEF Applied, TypeInv, TypeOK, PartialFunction
  <2>2. \A t \in Secrets \ {s} : cluster'[t] = cluster[t]
    BY <1>0, <1>4, WritesApplied DEF Applied
  <2> QED
    BY <2>1, <2>2 DEF SnapshotFresh
<1>5. CASE UserStep
  <2>1. PICK s \in Secrets : EditMap(s) \/ Relabel(s) \/ Delete(s) \/ Create(s)
    BY <1>5 DEF UserStep
  <2>2. \A t \in Secrets \ {s} : cluster'[t] = cluster[t]
    <3>1. CASE EditMap(s)
      BY <1>0, <3>1 DEF EditMap
    <3>2. CASE Relabel(s)
      BY <1>0, <3>2 DEF Relabel
    <3>3. CASE Delete(s)
      BY <1>0, <3>3 DEF Delete
    <3>4. CASE Create(s)
      BY <1>0, <3>4 DEF Create
    <3> QED
      BY <2>1, <3>1, <3>2, <3>3, <3>4
  <2>3. DOMAIN original \subseteq Secrets /\ original' = original /\ fresh' = fresh \ {s}
    BY <2>1 DEF EditMap, Relabel, Delete, Create, UserWrite, Touch, TypeInv, TypeOK, PartialFunction
  <2> QED
    BY <2>2, <2>3 DEF SnapshotFresh
<1>6. CASE UNCHANGED <<cluster, original, fresh>>
  BY <1>6 DEF SnapshotFresh
<1> QED
  BY <1>1, <1>2, <1>3, <1>4, <1>5, <1>6, Frames DEF Frame, RequiredStep, WriteStep

\* A Secret that stays in the list after parsing is not malformed, and all of its
\* destinations were appended (retrieveRequiredK8sSecrets).
LEMMA ListedParsed ==
    ASSUME TypeInv, ListLabelled, NEW s \in DOMAIN original'
    PROVE  /\ s \in Labelled /\ original'[s].spec = cluster[s].spec
           /\ ~Malformed(cluster[s].spec)
           /\ dests'[s] = Destinations(cluster[s].spec)
           /\ secretsGroups'[s] = cluster[s].spec.groups
           /\ cluster[s].spec.all => s \in allDests'
<1> DEFINE m == cluster[s].spec
<1>1. PICK S \in SkippedSets :
         original' = [t \in Labelled \ S |-> [spec |-> cluster[t].spec, data |-> cluster[t].data]]
  BY DEF ListLabelled
<1>2. s \in Labelled \ S /\ s \in Secrets
  BY <1>1 DEF Labelled
<1>3. \A t \in Labelled : cluster[t].spec \in config.manifests
  BY DEF Labelled, TypeInv, LiveSpecs
<1>4. ~(MayBeSkipped(s) /\ MustBeSkipped(s))
  BY <1>2 DEF SkippedSets, MaySkip
<1>5. ~Invalid(m) /\ ~InvalidGroups(m)
  BY <1>4 DEF MayBeSkipped, MustBeSkipped
<1>6. ~Malformed(m)
  <2> SUFFICES ASSUME m.garbled, \A n \in config.manifests : n.groups = NoGroups PROVE FALSE
    BY <1>5 DEF Malformed
  <2>1. \A t \in Labelled : RecordedGroups(cluster[t].spec) = NoGroups
    BY <1>3 DEF RecordedGroups
  <2>2. m.groups = NoGroups /\ WithGroups = {}
    BY <1>2, <1>3, <2>1 DEF WithGroups
  <2> QED
    BY <1>4, <2>2 DEF MayBeSkipped, MustBeSkipped
<1>7. dests'[s] = Destinations(m)
  <2>1. dests'[s] \in DestinationsOf(m)
    BY <1>2 DEF ListLabelled
  <2> QED
    BY <1>5, <2>1 DEF DestinationsOf
<1>g. secretsGroups'[s] = m.groups
  BY <1>2, <1>5 DEF ListLabelled, RecordedGroups
<1>8. ASSUME m.all PROVE s \in allDests'
  <2>1. ~m.garbled
    BY <1>2, <1>3, <1>8, ManifestFacts DEF TypeInv, TypeOK
  <2>2. ~MayBeSkipped(s)
    BY <1>5, <2>1 DEF MayBeSkipped
  <2> QED
    BY <1>2, <1>8, <2>2 DEF ListLabelled
<1> QED
  BY <1>1, <1>2, <1>6, <1>7, <1>8, <1>g

\* A required Secret that is not refused is not malformed (retrieveRequiredK8sSecret).
LEMMA RequiredParsed ==
    ASSUME TypeInv, GroupsFromManifests, NEW s \in Secrets, ~Unusable(s)
    PROVE  cluster[s].spec \in config.manifests /\ ~Malformed(cluster[s].spec)
<1> DEFINE m == cluster[s].spec
<1>1. m \in config.manifests /\ ~Invalid(m) /\ ~InvalidGroups(m)
  BY DEF Unusable, TypeInv, LiveSpecs
<1> SUFFICES ASSUME m.garbled, NoManifestGroups PROVE FALSE
  BY <1>1 DEF Malformed, NoManifestGroups
<1>2. ~m.all /\ \A k \in Keys : m.map[k] = NoVar
  BY <1>1, ManifestFacts DEF TypeInv, TypeOK
<1>3. MapKeys(m) = {}
  BY <1>2 DEF MapKeys
<1>4. m.groups = NoGroups /\ \A t \in Secrets : secretsGroups[t] = NoGroups
  BY <1>1 DEF GroupsFromManifests, NoManifestGroups
<1> QED
  BY <1>3, <1>4 DEF Unusable

\* Reading Secrets keeps the snapshot parsed (ListLabelled, RetrieveRequired).
LEMMA ParsedStep ==
    TypeInv /\ SnapshotParsed /\ GroupsFromManifests /\ [Next]_vars
       => SnapshotParsed' /\ GroupsFromManifests'
<1> SUFFICES ASSUME TypeInv, SnapshotParsed, GroupsFromManifests, [Next]_vars
             PROVE  SnapshotParsed' /\ GroupsFromManifests'
  OBVIOUS
<1>0. config' = config /\ NoManifestGroups' = NoManifestGroups
  BY Frames DEF Frame, NoManifestGroups
<1>m. \A m : Malformed(m)' <=> Malformed(m)
  BY <1>0 DEF Malformed
<1>1. CASE ListLabelled
  <2>1. SnapshotParsed'
    BY <1>1, <1>m, ListedParsed DEF SnapshotParsed
  <2>2. ASSUME NoManifestGroups, NEW s \in Secrets PROVE secretsGroups'[s] = NoGroups
    <3>1. s \in Labelled => cluster[s].spec \in config.manifests
      BY DEF Labelled, TypeInv, LiveSpecs
    <3> QED
      BY <1>1, <2>2, <3>1 DEF ListLabelled, RecordedGroups, NoManifestGroups
  <2> QED
    BY <1>0, <2>1, <2>2 DEF GroupsFromManifests
<1>2. ASSUME NEW s \in Secrets, RetrieveRequired(s) PROVE SnapshotParsed' /\ GroupsFromManifests'
  <2>1. cluster[s].spec \in config.manifests /\ ~Malformed(cluster[s].spec)
    BY <1>2, RequiredParsed DEF RetrieveRequired
  <2>2. \A t \in DOMAIN original' :
           IF t = s THEN original'[t].spec = cluster[s].spec
           ELSE t \in DOMAIN original /\ original'[t] = original[t]
    BY <1>2 DEF RetrieveRequired, Put
  <2>3. /\ DOMAIN original \subseteq Secrets /\ dests \in [Secrets -> [Keys -> Vars \cup {NoVar}]]
        /\ secretsGroups \in [Secrets -> [Keys -> Groups \cup {NoGroup}]]
    BY DEF TypeInv, TypeOK, PartialFunction
  <2>4. /\ dests'[s] = Destinations(cluster[s].spec) /\ secretsGroups'[s] = cluster[s].spec.groups
        /\ \A t \in Secrets \ {s} : dests'[t] = dests[t] /\ secretsGroups'[t] = secretsGroups[t]
        /\ allDests \subseteq allDests' /\ (cluster[s].spec.all => s \in allDests')
    BY <1>2, <2>3 DEF RetrieveRequired
  <2>5. SnapshotParsed'
    <3> SUFFICES ASSUME NEW t \in DOMAIN original'
                 PROVE  /\ ~Malformed(original'[t].spec)
                        /\ dests'[t] = Destinations(original'[t].spec)
                        /\ secretsGroups'[t] = original'[t].spec.groups
                        /\ original'[t].spec.all => t \in allDests'
      BY <1>m DEF SnapshotParsed
    <3>1. CASE t = s
      BY <2>1, <2>2, <2>4, <3>1
    <3>2. CASE t # s
      BY <2>2, <2>3, <2>4, <3>2 DEF SnapshotParsed
    <3> QED
      BY <3>1, <3>2
  <2>6. ASSUME NoManifestGroups, NEW t \in Secrets PROVE secretsGroups'[t] = NoGroups
    <3>1. cluster[s].spec.groups = NoGroups /\ secretsGroups[t] = NoGroups
      BY <2>1, <2>6 DEF NoManifestGroups, GroupsFromManifests
    <3>2. secretsGroups' = [secretsGroups EXCEPT ![s] = cluster[s].spec.groups]
      BY <1>2 DEF RetrieveRequired
    <3> QED
      BY <3>1, <3>2 DEF TypeInv, TypeOK
  <2> QED
    BY <1>0, <2>5, <2>6 DEF GroupsFromManifests
<1>3. CASE ClearCall
  BY <1>3, EmptyFacts DEF ClearCall, SnapshotParsed, GroupsFromManifests
<1>4. CASE UNCHANGED <<original, dests, base64, allDests, secretsGroups>>
  BY <1>0, <1>m, <1>4 DEF SnapshotParsed, GroupsFromManifests
<1> QED
  BY <1>1, <1>2, <1>3, <1>4, Frames DEF Frame, RequiredStep

\* Every step keeps SnapshotInv (Next).
LEMMA SnapshotStep == TypeInv /\ SnapshotInv /\ [Next]_vars => SnapshotInv'
  BY FreshStep, ParsedStep DEF SnapshotInv

\* A step that is not one of users changes a Secret only by an update
\* of the provider, of the version and with the manifest it has read.
LEMMA OnlyUpdates ==
    ASSUME TypeInv, SnapshotInv, [Next]_vars, ~Outside, NEW s \in Secrets,
           cluster'[s] # cluster[s]
    PROVE  /\ Applied(s) /\ s \in DOMAIN original
           /\ original[s].spec = cluster[s].spec /\ original[s].data = cluster[s].data
           /\ cluster'[s].spec = cluster[s].spec /\ cluster'[s].status = cluster[s].status
           /\ cluster'[s].data = UpdatedData(s)
<1>0. cluster \in [Secrets -> [status : {"labelled", "unlabelled", "deleted"},
                               spec : config.manifests \cup {NoManifest}, data : [Keys -> DataValues]]]
  BY DEF TypeInv, TypeOK, ClusterType
<1>1. ~UserStep
  <2>1. changes \in Nat
    <3>1. config.maxChanges \in Nat /\ changes \in 0..config.maxChanges
      BY ConfigAssumption DEF ConfigType, TypeInv, TypeOK
    <3> QED
      BY <3>1
  <2>2. UserStep => Change /\ UNCHANGED <<step, todo>>
    BY DEF UserStep, EditMap, Relabel, Delete, Create, UserWrite
  <2> QED
    BY <2>1, <2>2 DEF Change, Outside
<1>2. PICK t \in Secrets : Applied(t)
  BY <1>1, Frames, WritesApplied DEF Frame, WriteStep
<1>3. t = s
  BY <1>0, <1>2 DEF Applied
<1>4. Applied(s)
  BY <1>2, <1>3
<1>5. s \in DOMAIN original \cap fresh
  BY <1>4 DEF Applied, SameVersion
<1>6. original[s].spec = cluster[s].spec /\ original[s].data = cluster[s].data
  BY <1>5 DEF SnapshotInv, SnapshotFresh
<1>7. /\ cluster'[s].spec = original[s].spec /\ cluster'[s].status = cluster[s].status
      /\ cluster'[s].data = UpdatedData(s)
  BY <1>0, <1>4 DEF Applied
<1> QED
  BY <1>4, <1>5, <1>6, <1>7

\* SnapshotInv is an invariant (Spec).
LEMMA SnapshotInvHolds == Spec => [](TypeInv /\ SnapshotInv)
  BY TypeInit, TypeStep, SnapshotInit, SnapshotStep, PTL DEF Spec

\* No update of the provider takes back what a user wrote into a manifest, a label
\* or a deletion while the call was running: the API server refuses an update of an
\* older version, and the snapshot of a Secret that nobody wrote to is exact.
THEOREM UserEditsSurviveHolds == Spec => UserEditsSurvive
<1> DEFINE A == \A s \in Secrets :
                  cluster'[s].spec # cluster[s].spec \/ cluster'[s].status # cluster[s].status
                     => Outside
<1>1. TypeInv /\ SnapshotInv /\ [Next]_vars => [A]_vars
  BY OnlyUpdates
<1> QED
  BY <1>1, SnapshotInvHolds, PTL DEF Spec, UserEditsSurvive

\* A Secret whose conjur-map or groups are malformed keeps its data, whatever its
\* other entries, other Secrets and the keys to be removed ask for.
THEOREM InvalidUntouchedHolds == Spec => InvalidUntouched
<1> DEFINE A == \A s \in Secrets :
                  Malformed(cluster[s].spec) /\ ~Outside
                     => cluster'[s].data = cluster[s].data
<1>1. TypeInv /\ SnapshotInv /\ [Next]_vars => [A]_vars
  <2> SUFFICES ASSUME TypeInv, SnapshotInv, [Next]_vars, NEW s \in Secrets,
                      Malformed(cluster[s].spec), ~Outside
               PROVE  cluster'[s].data = cluster[s].data
    OBVIOUS
  <2>1. \A t \in DOMAIN original : ~Malformed(original[t].spec)
    BY DEF SnapshotInv, SnapshotParsed
  <2> QED
    BY <2>1, OnlyUpdates
<1> QED
  BY <1>1, SnapshotInvHolds, PTL DEF Spec, InvalidUntouched

-----------------------------------------------------------------------------
(***************************************************************************)
(* What a call writes and removes.                                         *)
(***************************************************************************)
\* A group gives its key a content, which is not empty if its template has text of its
\* own, or if it is not empty and every variable was returned
\* (populateGroupTemplateSecretData).
LEMMA PopulatedFacts ==
    ASSUME TypeOK, NEW got, NEW data, NEW s \in Secrets, NEW k \in Keys
    PROVE  LET x == populateGroupTemplateSecretData(got, data)[s][k]
               g == secretsGroups[s][k]
           IN  /\ x = data[s][k] \/ x # Absent
               /\ ~MayRenderEmpty(g) => x = data[s][k] \/ x # Blank
               /\ ~(g \in Groups /\ g.template # "wrong") => x = data[s][k]
               /\ (/\ g \in Groups /\ g.template \in {"values", "text"} /\ g.vars \subseteq got
                   /\ s \in DOMAIN original) => x # Blank
<1> DEFINE g == secretsGroups[s][k]
           y == [v \in g.vars |-> IF v \in got THEN conjur[v] ELSE Blank]
           x == populateGroupTemplateSecretData(got, data)[s][k]
<1>1. x = IF g \in Groups /\ g.template # "wrong" /\ s \in DOMAIN original THEN Render(g, y) ELSE data[s][k]
  BY DEF populateGroupTemplateSecretData
<1>2. ASSUME g \in Groups, g.template # "wrong"
      PROVE  /\ Render(g, y) # Absent
             /\ g.template = "text" => Render(g, y) # Blank
             /\ g.template = "values" /\ g.vars \subseteq got => Render(g, y) # Blank
  <2>1. g.vars \in SUBSET Vars /\ g.vars # {} /\ g.template \in {"empty", "values", "text"}
    BY <1>2 DEF Groups
  <2>2. y \in [g.vars -> Values \cup {Blank}]
    BY <2>1 DEF TypeOK
  <2>3. g.template # "empty" => <<g.template, y>> \in Rendered
    BY <2>1, <2>2 DEF Rendered
  <2>4. g.template # "empty" => <<g.template, y>> \notin {Absent, Blank}
    BY <2>3, ContentsAssumption
  <2>5. g.vars \subseteq got => \E v \in g.vars : y[v] # Blank
    BY <2>1, SortsAssumption DEF TypeOK
  <2> HIDE DEF y
  <2> QED
    BY <2>1, <2>4, <2>5, SortsAssumption DEF Render
<1> HIDE DEF x, y
<1>3. g \in Groups => g.template \in {"wrong", "empty", "values", "text"}
  BY DEF Groups
<1>4. /\ x = data[s][k] \/ x # Absent
      /\ ~MayRenderEmpty(g) => x = data[s][k] \/ x # Blank
      /\ ~(g \in Groups /\ g.template # "wrong") => x = data[s][k]
      /\ (/\ g \in Groups /\ g.template \in {"values", "text"} /\ g.vars \subseteq got
          /\ s \in DOMAIN original) => x # Blank
  BY <1>1, <1>2, <1>3 DEF MayRenderEmpty
<1> QED
  BY <1>4 DEF x

\* A variable that was returned gives its key a content; one that was not gives it
\* an empty one with sanitization and none without (ValueFor, Content).
LEMMA ContentFacts ==
    ASSUME TypeOK, NEW got \in SUBSET Vars, NEW v \in Vars \cup {NoVar}, NEW d
    PROVE  LET x == Content(ValueFor(v, got), d)
           IN  /\ v \in got => x \notin {Absent, Blank} /\ ValueFor(v, got) \notin {Absent, Blank}
               /\ v = NoVar => x = Absent
               /\ SanitizeEnabled /\ v # NoVar => x # Absent
               /\ ~SanitizeEnabled => x # Blank /\ ValueFor(v, got) # Blank
<1>1. Absent \notin Values /\ Blank \notin Values /\ Absent # Blank /\ NoVar \notin Vars
  BY SortsAssumption
<1>2. \A y \in Values : Decoded(y) \notin {Absent, Blank}
  BY ContentsAssumption
<1>3. v \in got => ValueFor(v, got) \in Values
  BY <1>1 DEF ValueFor, TypeOK
<1>4. v \notin got /\ v # NoVar => ValueFor(v, got) = IF SanitizeEnabled THEN Blank ELSE Absent
  BY DEF ValueFor, MissingValue
<1>5. v = NoVar => ValueFor(v, got) = Absent
  BY DEF ValueFor
<1> HIDE DEF SanitizeEnabled
<1> QED
  BY <1>1, <1>2, <1>3, <1>4, <1>5 DEF Content

\* The entries that a call computes from what Conjur returned.
LEMMA ComputedFacts ==
    ASSUME TypeOK, NEW got \in SUBSET Vars, NEW first \in FirstOf(got), NEW s \in Secrets, NEW k \in Keys
    PROVE  LET x == populateGroupTemplateSecretData(got, createSecretData(got, first))[s][k]
               g == secretsGroups[s][k]
           IN  /\ SanitizeEnabled /\ dests[s][k] # NoVar => x # Absent
               /\ ~SanitizeEnabled /\ ~MayRenderEmpty(g) => x # Blank
               /\ (/\ g \in Groups /\ g.template \in {"values", "text"} /\ g.vars \subseteq got
                   /\ s \in DOMAIN original) => x # Blank
               /\ ~(g \in Groups /\ g.template # "wrong") =>
                     /\ dests[s][k] \in got => x # Blank
                     /\ dests[s][k] = NoVar /\ s \in allDests /\ (\E v \in got : KeyOf[v] = k) => x # Blank
<1> DEFINE g == secretsGroups[s][k]
           c == createSecretData(got, first)[s][k]
           d == Content(ValueFor(dests[s][k], got), k \in base64[s])
           w == WipeStale(s, k, ValueFor(first[k], got))
           x == populateGroupTemplateSecretData(got, createSecretData(got, first))[s][k]
<1>1. dests[s][k] \in Vars \cup {NoVar} /\ first[k] \in Vars \cup {NoVar}
  BY DEF TypeOK, FirstOf
<1>2. c = IF d # Absent \/ s \notin allDests THEN d ELSE w
  BY DEF createSecretData
<1>3. /\ dests[s][k] \in got => d \notin {Absent, Blank}
      /\ dests[s][k] = NoVar => d = Absent
      /\ SanitizeEnabled /\ dests[s][k] # NoVar => d # Absent
      /\ ~SanitizeEnabled => d # Blank
  BY <1>1, ContentFacts
<1>4. /\ ~SanitizeEnabled => w # Blank
      /\ (\E v \in got : KeyOf[v] = k) => w # Blank
  <2>1. /\ first[k] \in got => ValueFor(first[k], got) \notin {Absent, Blank}
        /\ ~SanitizeEnabled => ValueFor(first[k], got) # Blank
    BY <1>1, ContentFacts
  <2>2. (\E v \in got : KeyOf[v] = k) => first[k] \in got
    BY DEF FirstOf
  <2> QED
    BY <2>1, <2>2 DEF WipeStale
<1>5. /\ x = c \/ x # Absent
      /\ ~MayRenderEmpty(g) => x = c \/ x # Blank
      /\ ~(g \in Groups /\ g.template # "wrong") => x = c
      /\ (/\ g \in Groups /\ g.template \in {"values", "text"} /\ g.vars \subseteq got
          /\ s \in DOMAIN original) => x # Blank
  BY PopulatedFacts
<1> HIDE DEF c, d, g, w, x, SanitizeEnabled
<1>6. /\ SanitizeEnabled /\ dests[s][k] # NoVar => x # Absent
      /\ ~SanitizeEnabled /\ ~MayRenderEmpty(g) => x # Blank
      /\ (/\ g \in Groups /\ g.template \in {"values", "text"} /\ g.vars \subseteq got
          /\ s \in DOMAIN original) => x # Blank
      /\ ~(g \in Groups /\ g.template # "wrong") =>
            /\ dests[s][k] \in got => x # Blank
            /\ dests[s][k] = NoVar /\ s \in allDests /\ (\E v \in got : KeyOf[v] = k) => x # Blank
  BY <1>2, <1>3, <1>4, <1>5
<1> QED
  BY <1>6 DEF x, g

\* Without sanitization there are no keys to remove, no removal of deleted variables
\* and no empty values but those of groups.
SanitizeInv ==
    ~SanitizeEnabled =>
       /\ DOMAIN keysToRemoveCumulative = {}
       /\ step # "remove"
       /\ \A s \in DOMAIN original, k \in Keys :
             ~MayRenderEmpty(secretsGroups[s][k]) => newData[s][k] # Blank

\* With sanitization every destination of the snapshot has an entry when the Secrets
\* are updated.
FilledInv ==
    step = "update" /\ SanitizeEnabled =>
       \A s \in DOMAIN original, k \in Keys : dests[s][k] # NoVar => newData[s][k] # Absent

\* As long as no variable is revoked all that is provided is fetched, and has a value
\* when the Secrets are updated.
PermittedInv ==
    ~config.revokes =>
       /\ denied = {}
       /\ ~config.lookalike => step # "remove"
       /\ step = "fetch" =>
             /\ allDests # {} => asked = Vars
             /\ \A s \in Secrets, k \in Keys : dests[s][k] \in Vars => dests[s][k] \in asked
             /\ \A s \in Secrets : GroupVars(s) \subseteq asked
       /\ step = "update" =>
             \A s \in DOMAIN original, k \in Keys :
                Provides(original[s].spec, k) => newData[s][k] # Blank

WriteInv == SanitizeInv /\ FilledInv /\ PermittedInv

\* WriteInv holds at the start (Init).
LEMMA WriteInit == Init => WriteInv
<1> SUFFICES ASSUME Init PROVE WriteInv
  OBVIOUS
<1>1. Absent # Blank
  BY SortsAssumption
<1> QED
  BY <1>1, EmptyFacts DEF Init, NoData, WriteInv, SanitizeInv, FilledInv, PermittedInv

\* How a call gets to the steps that these invariants speak of.
Phases ==
    /\ step' = "fetch" => ListVariables \/ UNCHANGED <<step, asked, dests, allDests, secretsGroups>>
    /\ step' = "update" => RetrieveSecrets \/ UNCHANGED <<step, original, dests, secretsGroups, newData>>
    /\ step' = "remove" => RemoveDeletedSecrets \/ RemoveByMistake \/ UNCHANGED step
    /\ UNCHANGED denied \/ config.revokes \/ denied # {}

\* Every step keeps to the phases (Next).
LEMMA PhaseSteps == [Next]_vars => Phases
<1> SUFFICES ASSUME [Next]_vars PROVE Phases
  OBVIOUS
<1>1. CASE ListLabelled
  BY <1>1 DEF ListLabelled, Phases, envVars, sumVars, destVars, passVars
<1>2. CASE ListVariables
  BY <1>2 DEF ListVariables, Phases, envVars, sumVars, destVars, passVars
<1>3. CASE RetrieveSecrets
  BY <1>3 DEF RetrieveSecrets, Phases, envVars, sumVars, destVars, passVars
<1>4. CASE RemoveDeletedSecrets
  BY <1>4 DEF RemoveDeletedSecrets, RemoveAll, Phases, envVars, sumVars, destVars, passVars
<1>5. CASE WipeNil
  BY <1>5 DEF WipeNil, Panic, Phases, envVars, sumVars, destVars, passVars
<1>6. CASE NothingRetrieved
  BY <1>6 DEF NothingRetrieved, Fail, Phases, envVars, sumVars, destVars, passVars
<1>7. CASE UpdatesDone
  BY <1>7 DEF UpdatesDone, Phases, envVars, sumVars, destVars, passVars
<1>8. CASE Unlock
  BY <1>8 DEF Unlock, ClearCall, InformerAfterRun, Phases, envVars, sumVars, destVars, passVars
<1>9. ASSUME NEW s \in Secrets, RetrieveRequired(s) PROVE Phases
  BY <1>9 DEF RetrieveRequired, Phases, envVars, sumVars, destVars, passVars
<1>10. ASSUME NEW s \in Secrets, RequiredUnusable(s) PROVE Phases
  BY <1>10 DEF RequiredUnusable, Fail, Phases, envVars, sumVars, destVars, passVars
<1>11. ASSUME NEW s \in Secrets, SkipUnchanged(s) PROVE Phases
  BY <1>11 DEF SkipUnchanged, Phases, envVars, sumVars, destVars, passVars
<1>12. ASSUME NEW s \in Secrets, updateSecret(s) PROVE Phases
  BY <1>12 DEF updateSecret, Applied, Phases, envVars, sumVars, destVars, passVars
<1>13. ASSUME NEW s \in Secrets, UpdateFails(s) PROVE Phases
  BY <1>13 DEF UpdateFails, UpdateError, ChecksumsAfterError, Phases, envVars, sumVars, destVars,
     passVars
<1>14. ASSUME NEW s \in Secrets, NilOriginal(s) PROVE Phases
  BY <1>14 DEF NilOriginal, Panic, Phases, envVars, sumVars, destVars, passVars
<1>15. CASE TakeEvent
  BY <1>15 DEF TakeEvent, Phases, envVars, sumVars, destVars, passVars
<1>16. CASE RetrieveFails
  BY <1>16 DEF RetrieveFails, Fail, Phases, envVars, sumVars, destVars, passVars
<1>17. CASE ConjurFails
  BY <1>17 DEF ConjurFails, Fail, Phases, envVars, sumVars, destVars, passVars
<1>18. CASE RemoveByMistake
  BY <1>18 DEF RemoveByMistake, RemoveAll, Phases, envVars, sumVars, destVars, passVars
<1>19. CASE NoClient
  BY <1>19 DEF NoClient, Panic, Phases, envVars, sumVars, destVars, passVars
<1>20. ASSUME NEW s \in Secrets, AnswerLost(s) PROVE Phases
  BY <1>20 DEF AnswerLost, Applied, UpdateError, ChecksumsAfterError, Phases, envVars, sumVars,
     destVars, passVars
<1>21. CASE Restart
  BY <1>21 DEF Restart, ClearCall, Phases, envVars, sumVars, destVars, passVars
<1>22. ASSUME NEW s \in Secrets, EditMap(s) PROVE Phases
  BY <1>22 DEF EditMap, UserWrite, Touch, Phases, envVars, sumVars, destVars, passVars
<1>23. ASSUME NEW s \in Secrets, Relabel(s) PROVE Phases
  BY <1>23 DEF Relabel, UserWrite, Touch, Phases, envVars, sumVars, destVars, passVars
<1>24. ASSUME NEW s \in Secrets, Delete(s) PROVE Phases
  BY <1>24 DEF Delete, UserWrite, Touch, Phases, envVars, sumVars, destVars, passVars
<1>25. ASSUME NEW s \in Secrets, Create(s) PROVE Phases
  BY <1>25 DEF Create, UserWrite, Touch, Phases, envVars, sumVars, destVars, passVars
<1>26. ASSUME NEW v \in Vars, Rotate(v) PROVE Phases
  BY <1>26 DEF Rotate, ConjurChange, Phases, envVars, sumVars, destVars, passVars
<1>27. ASSUME NEW v \in Vars, Revoke(v) PROVE Phases
  BY <1>27 DEF Revoke, ConjurChange, Phases, envVars, sumVars, destVars, passVars
<1>28. ASSUME NEW v \in Vars, Grant(v) PROVE Phases
  BY <1>28 DEF Grant, ConjurChange, Phases, envVars, sumVars, destVars, passVars
<1>29. ASSUME NEW c \in Callers, Lock(c) PROVE Phases
  BY <1>29 DEF Lock, Phases, envVars, sumVars, destVars, passVars
<1>30. CASE UNCHANGED vars
  BY <1>30 DEF vars, Phases, envVars, sumVars, destVars, passVars
<1> QED
  BY <1>1, <1>2, <1>3, <1>4, <1>5, <1>6, <1>7, <1>8, <1>9, <1>10, <1>11, <1>12, <1>13, <1>14,
     <1>15, <1>16, <1>17, <1>18, <1>19, <1>20, <1>21, <1>22, <1>23, <1>24, <1>25, <1>26, <1>27,
     <1>28, <1>29, <1>30 DEF Next, ProviderStep, Environment

\* The data of an update are computed from what Conjur returned (RetrieveSecrets).
LEMMA ComputedStep ==
    ASSUME TypeInv, RetrieveSecrets
    PROVE  \E got \in SUBSET Vars : \E first \in FirstOf(got) :
              /\ got = Returned(asked, denied, V2)
              /\ newData' = populateGroupTemplateSecretData(got, createSecretData(got, first))
              /\ UNCHANGED <<config, original, dests, allDests, secretsGroups>>
<1> DEFINE got == Returned(asked, denied, V2)
<1>1. PICK first \in FirstOf(got) :
         newData' = populateGroupTemplateSecretData(got, createSecretData(got, first))
  BY DEF RetrieveSecrets
<1>2. got \in SUBSET Vars
  BY ReturnedPart DEF TypeInv, TypeOK
<1>3. UNCHANGED <<config, original, dests, allDests, secretsGroups>>
  BY DEF RetrieveSecrets, destVars
<1> QED
  BY <1>1, <1>2, <1>3

\* Every step keeps SanitizeInv (MissingValue, WipeStale, GetRemovedKeys).
LEMMA SanitizeStep == TypeInv /\ ControlInv /\ SanitizeInv /\ [Next]_vars => SanitizeInv'
<1> SUFFICES ASSUME TypeInv, ControlInv, SanitizeInv, [Next]_vars, ~SanitizeEnabled
             PROVE  /\ DOMAIN keysToRemoveCumulative' = {}
                    /\ step' # "remove"
                    /\ \A s \in DOMAIN original', k \in Keys :
                          ~MayRenderEmpty(secretsGroups'[s][k]) => newData'[s][k] # Blank
  BY Frames DEF Frame, SanitizeInv, SanitizeEnabled
<1>0. Frame /\ Phases /\ TypeOK
  BY Frames, PhaseSteps DEF TypeInv
<1>1. DOMAIN keysToRemoveCumulative' = {}
  <2>1. CASE TakeEvent
    <3> DEFINE E == [secret : Secrets, removed : SUBSET MapNames, added : SUBSET MapNames]
    <3>1. queue \in Seq(E) /\ queue # <<>>
      BY <1>0, <2>1 DEF TypeOK, TakeEvent
    <3>2. Head(queue) \in E
      <4> HIDE DEF E
      <4> QED
        BY <3>1
    <3> QED
      BY <1>0, <2>1, <3>2, MergeFacts DEF TakeEvent, SanitizeInv, TypeOK
  <2> QED
    BY <1>0, <2>1, EmptyFacts DEF Frame, SanitizeInv
<1>2. step' # "remove"
  BY <1>0 DEF Phases, SanitizeInv, RemoveDeletedSecrets, RemoveByMistake
<1>3. ASSUME NEW s \in DOMAIN original', NEW k \in Keys, ~MayRenderEmpty(secretsGroups'[s][k])
      PROVE  newData'[s][k] # Blank
  <2>1. CASE RetrieveSecrets
    <3>1. s \in Secrets /\ ~MayRenderEmpty(secretsGroups[s][k])
      BY <1>0, <1>3, <2>1 DEF RetrieveSecrets, destVars, TypeOK, PartialFunction
    <3> QED
      BY <1>0, <2>1, <3>1, ComputedStep, ComputedFacts
  <2>2. CASE ClearCall
    BY <1>3, <2>2, EmptyFacts DEF ClearCall
  <2>3. CASE UNCHANGED newData
    <3>1. CASE UNCHANGED <<original, dests, base64, allDests, secretsGroups>>
      BY <1>3, <2>3, <3>1 DEF SanitizeInv
    <3>2. CASE ListLabelled \/ RequiredStep
      <4>1. newData' = [t \in Secrets |-> NoData] /\ DOMAIN original' \subseteq Secrets
        BY <2>3, <3>2, TypeStep
           DEF ListLabelled, RequiredStep, RetrieveRequired, ControlInv, TypeInv, TypeOK, PartialFunction
      <4> QED
        BY <1>3, <4>1, SortsAssumption DEF NoData
    <3> QED
      BY <1>0, <2>2, <3>1, <3>2 DEF Frame
  <2>4. ~RemoveAll
    BY <1>2 DEF RemoveAll
  <2> QED
    BY <1>0, <2>1, <2>2, <2>3, <2>4 DEF Frame
<1> QED
  BY <1>1, <1>2, <1>3

\* Every step keeps FilledInv (RetrieveSecrets).
LEMMA FilledStep == TypeInv /\ FilledInv /\ [Next]_vars => FilledInv'
<1> SUFFICES ASSUME TypeInv, FilledInv, [Next]_vars, step' = "update", SanitizeEnabled,
                    NEW s \in DOMAIN original', NEW k \in Keys, dests'[s][k] # NoVar
             PROVE  newData'[s][k] # Absent
  BY Frames DEF Frame, FilledInv, SanitizeEnabled
<1>0. Phases /\ TypeOK
  BY PhaseSteps DEF TypeInv
<1>1. CASE RetrieveSecrets
  <2>1. s \in Secrets
    BY <1>0, <1>1 DEF RetrieveSecrets, TypeOK, PartialFunction
  <2> QED
    BY <1>0, <1>1, <2>1, ComputedStep, ComputedFacts
<1>2. CASE UNCHANGED <<step, original, dests, secretsGroups, newData>>
  BY <1>2 DEF FilledInv
<1> QED
  BY <1>0, <1>1, <1>2 DEF Phases

\* Every step keeps PermittedInv: what is asked for covers the destinations, and all of
\* it is returned (Requested, Returned, createSecretData).
LEMMA PermittedStep == TypeInv /\ SnapshotInv /\ PermittedInv /\ [Next]_vars => PermittedInv'
<1> SUFFICES ASSUME TypeInv, SnapshotInv, PermittedInv, [Next]_vars, ~config.revokes
             PROVE  /\ denied' = {}
                    /\ ~config.lookalike => step' # "remove"
                    /\ step' = "fetch" =>
                          /\ allDests' # {} => asked' = Vars
                          /\ \A s \in Secrets, k \in Keys : dests'[s][k] \in Vars => dests'[s][k] \in asked'
                          /\ \A s \in Secrets : GroupVars(s)' \subseteq asked'
                    /\ step' = "update" =>
                          \A s \in DOMAIN original', k \in Keys :
                             Provides(original'[s].spec, k) => newData'[s][k] # Blank
  BY Frames DEF Frame, PermittedInv, Provides, KeyOf
<1>0. Phases /\ TypeOK /\ denied = {}
  BY PhaseSteps DEF TypeInv, PermittedInv
<1>1. denied' = {}
  BY <1>0 DEF Phases
<1>2. ASSUME ~config.lookalike PROVE step' # "remove"
  BY <1>0, <1>2 DEF Phases, PermittedInv, RemoveDeletedSecrets, RemoveByMistake, DeniedStatus, StatusError
<1>3. ASSUME step' = "fetch"
      PROVE  /\ allDests' # {} => asked' = Vars
             /\ \A s \in Secrets, k \in Keys : dests'[s][k] \in Vars => dests'[s][k] \in asked'
             /\ \A s \in Secrets : GroupVars(s)' \subseteq asked'
  <2>1. CASE ListVariables
    <3>1. \A s \in Secrets : GroupVars(s) \subseteq Vars /\ GroupVars(s)' = GroupVars(s)
      BY <2>1 DEF ListVariables, destVars, GroupVars, Groups
    <3> QED
      BY <1>0, <2>1, <3>1 DEF ListVariables, destVars, Requested
  <2>2. CASE UNCHANGED <<step, asked, dests, allDests, secretsGroups>>
    <3>1. \A s \in Secrets : GroupVars(s)' = GroupVars(s)
      BY <2>2 DEF GroupVars
    <3> QED
      BY <1>3, <2>2, <3>1 DEF PermittedInv
  <2> QED
    BY <1>0, <1>3, <2>1, <2>2 DEF Phases
<1>4. ASSUME step' = "update", NEW s \in DOMAIN original', NEW k \in Keys, Provides(original'[s].spec, k)
      PROVE  newData'[s][k] # Blank
  <2>1. CASE RetrieveSecrets
    <3>0. PICK got \in SUBSET Vars : \E first \in FirstOf(got) :
             /\ got = Returned(asked, denied, V2)
             /\ newData' = populateGroupTemplateSecretData(got, createSecretData(got, first))
             /\ UNCHANGED <<config, original, dests, allDests, secretsGroups>>
      BY <2>1, ComputedStep
    <3>1. PICK first \in FirstOf(got) :
             /\ got = Returned(asked, denied, V2)
             /\ newData' = populateGroupTemplateSecretData(got, createSecretData(got, first))
             /\ UNCHANGED <<config, original, dests, allDests, secretsGroups>>
      BY <3>0
    <3>2. got = asked
      BY <1>0, <3>1 DEF Returned
    <3>3. /\ allDests # {} => asked = Vars
          /\ \A t \in Secrets, j \in Keys : dests[t][j] \in Vars => dests[t][j] \in asked
          /\ \A t \in Secrets : GroupVars(t) \subseteq asked
      BY <2>1 DEF RetrieveSecrets, PermittedInv
    <3>4. s \in Secrets /\ s \in DOMAIN original /\ Provides(original[s].spec, k)
      BY <1>0, <1>4, <3>1 DEF TypeOK, PartialFunction
    <3> DEFINE g == secretsGroups[s][k]
    <3>5. /\ dests[s] = Destinations(original[s].spec) /\ g = original[s].spec.groups[k]
          /\ original[s].spec.all => s \in allDests
      BY <3>4 DEF SnapshotInv, SnapshotParsed
    <3>6. /\ (/\ g \in Groups /\ g.template \in {"values", "text"} /\ g.vars \subseteq got
              /\ s \in DOMAIN original) => newData'[s][k] # Blank
          /\ ~(g \in Groups /\ g.template # "wrong") =>
                /\ dests[s][k] \in got => newData'[s][k] # Blank
                /\ dests[s][k] = NoVar /\ s \in allDests /\ (\E v \in got : KeyOf[v] = k) => newData'[s][k] # Blank
      BY <1>0, <3>1, <3>4, ComputedFacts
    <3>g. CASE g \in Groups /\ g.template # "wrong"
      <4>1. g.template \in {"values", "text"}
        BY <3>4, <3>5, <3>g DEF Provides, Groups
      <4>2. g.vars \subseteq got
        BY <3>2, <3>3, <3>4, <3>g DEF GroupVars
      <4> QED
        BY <3>4, <3>6, <3>g, <4>1, <4>2
    <3>7. dests[s][k] = IF original[s].spec.map[k] \in Vars THEN original[s].spec.map[k] ELSE NoVar
      BY <3>5 DEF Destinations
    <3>8. CASE ~(g \in Groups /\ g.template # "wrong") /\ original[s].spec.map[k] \in Vars
      BY <3>2, <3>3, <3>4, <3>6, <3>7, <3>8
    <3>9. CASE ~(g \in Groups /\ g.template # "wrong") /\ original[s].spec.map[k] \notin Vars
      <4>1. original[s].spec.all /\ \E v \in Vars : KeyOf[v] = k
        BY <3>4, <3>5, <3>9 DEF Provides
      <4> QED
        BY <3>2, <3>3, <3>5, <3>6, <3>7, <3>9, <4>1
    <3> QED
      BY <3>8, <3>9, <3>g
  <2>2. CASE UNCHANGED <<step, original, dests, secretsGroups, newData>>
    BY <1>4, <2>2 DEF PermittedInv
  <2> QED
    BY <1>0, <1>4, <2>1, <2>2 DEF Phases
<1> QED
  BY <1>1, <1>2, <1>3, <1>4

\* WriteInv is an invariant (Spec).
LEMMA WriteInvHolds == Spec => [](TypeInv /\ ControlInv /\ SnapshotInv /\ WriteInv)
<1>1. TypeInv /\ ControlInv /\ SnapshotInv /\ WriteInv /\ [Next]_vars => WriteInv'
  BY SanitizeStep, FilledStep, PermittedStep DEF WriteInv
<1> QED
  BY <1>1, TypeInit, TypeStep, ControlInvInit, ControlInvStep, SnapshotInit, SnapshotStep, WriteInit, PTL DEF Spec

\* Keys to remove exist only with sanitization (GetRemovedKeys), and only while the
\* values of an update are written.
LEMMA RemovedFacts ==
    ASSUME SanitizeInv, NEW s, NEW k, k \in RemovedKeys(s)
    PROVE  SanitizeEnabled /\ step = "update"
<1>1. step = "update" /\ s \in DOMAIN keysToRemove
  BY DEF RemovedKeys
<1>2. DOMAIN keysToRemoveCumulative # {}
  BY <1>1, EmptyFacts DEF keysToRemove
<1> QED
  BY <1>1, <1>2 DEF SanitizeInv

\* A key that the conjur-map of its Secret names is not taken out of the data, also if
\* it left the conjur-map and came back while the keys to remove were accumulating:
\* the snapshot is current, and an entry was computed for every key it names.
THEOREM MappedKeysStayHolds == Spec => MappedKeysStay
<1> DEFINE A == \A s \in Secrets, k \in Keys :
                  (/\ ~Outside
                   /\ cluster[s].data[k] # Absent /\ cluster'[s].data[k] = Absent)
                      => cluster[s].spec.map[k] = NoVar
<1>1. TypeInv /\ SnapshotInv /\ WriteInv /\ [Next]_vars => [A]_vars
  <2> SUFFICES ASSUME TypeInv, SnapshotInv, WriteInv, [Next]_vars, NEW s \in Secrets, NEW k \in Keys,
                      ~Outside, cluster[s].data[k] # Absent, cluster'[s].data[k] = Absent
               PROVE  cluster[s].spec.map[k] = NoVar
    OBVIOUS
  <2>1. /\ Applied(s) /\ s \in DOMAIN original
        /\ original[s].spec = cluster[s].spec /\ original[s].data = cluster[s].data
        /\ UpdatedData(s)[k] = Absent
    BY OnlyUpdates
  <2>2. newData[s][k] = Absent /\ k \in RemovedKeys(s)
    BY <2>1 DEF UpdatedData
  <2>3. SanitizeEnabled /\ step = "update"
    BY <2>2, RemovedFacts DEF WriteInv
  <2>4. dests[s][k] = NoVar
    BY <2>1, <2>2, <2>3 DEF WriteInv, FilledInv
  <2>5. dests[s] = Destinations(original[s].spec) /\ ~Malformed(original[s].spec)
    BY <2>1 DEF SnapshotInv, SnapshotParsed
  <2>6. original[s].spec.map[k] \notin Vars /\ original[s].spec.map[k] # BadEntry
    BY <2>4, <2>5, SortsAssumption DEF Destinations, Malformed, Invalid
  <2>7. original[s].spec.map[k] \in Vars \cup {NoVar, BadEntry}
    BY <2>1, OriginalTyped, ManifestFacts DEF TypeInv, TypeOK
  <2> QED
    BY <2>1, <2>6, <2>7
<1> QED
  BY <1>1, WriteInvHolds, PTL DEF Spec, MappedKeysStay

\* As long as no variable is removed or revoked, and no other error is taken for that,
\* no call empties a key that the manifest of its Secret provides by name or with "*".
THEOREM BlankedOnlyIfRevokedHolds == Spec => BlankedOnlyIfRevoked
<1> DEFINE A == (~config.revokes /\ ~config.lookalike /\ ~Outside) =>
                  \A s \in Secrets, k \in Keys :
                     cluster[s].data[k] \notin {Absent, Blank} /\ cluster'[s].data[k] = Blank
                        => ~Provides(cluster[s].spec, k)
<1>1. TypeInv /\ SnapshotInv /\ WriteInv /\ [Next]_vars => [A]_vars
  <2> SUFFICES ASSUME TypeInv, SnapshotInv, WriteInv, [Next]_vars, NEW s \in Secrets, NEW k \in Keys,
                      ~config.revokes, ~config.lookalike, ~Outside,
                      cluster[s].data[k] \notin {Absent, Blank}, cluster'[s].data[k] = Blank
               PROVE  ~Provides(cluster[s].spec, k)
    OBVIOUS
  <2>1. /\ Applied(s) /\ s \in DOMAIN original
        /\ original[s].spec = cluster[s].spec /\ original[s].data = cluster[s].data
        /\ UpdatedData(s)[k] = Blank
    BY OnlyUpdates
  <2>2. newData[s][k] = Blank
    BY <2>1, SortsAssumption DEF UpdatedData
  <2>3. step = "update"
    BY <2>1 DEF Applied, WriteInv, PermittedInv
  <2> QED
    BY <2>1, <2>2, <2>3 DEF WriteInv, PermittedInv
<1> QED
  BY <1>1, WriteInvHolds, PTL DEF Spec, BlankedOnlyIfRevoked

\* Without sanitization a value that was provided is never removed or emptied, whatever
\* leaves a conjur-map, is revoked in Conjur or fails, unless a group without text of
\* its own has the key.
THEOREM NothingLostUnsanitizedHolds == Spec => NothingLostUnsanitized
<1> DEFINE A == (~SanitizeEnabled /\ ~Outside) =>
                  \A s \in Secrets, k \in Keys :
                     cluster[s].data[k] \notin {Absent, Blank} /\ ~MayRenderEmpty(cluster[s].spec.groups[k])
                        => cluster'[s].data[k] \notin {Absent, Blank}
<1>1. TypeInv /\ SnapshotInv /\ WriteInv /\ [Next]_vars => [A]_vars
  <2> SUFFICES ASSUME TypeInv, SnapshotInv, WriteInv, [Next]_vars, NEW s \in Secrets, NEW k \in Keys,
                      ~SanitizeEnabled, ~Outside,
                      cluster[s].data[k] \notin {Absent, Blank}, cluster'[s].data[k] \in {Absent, Blank},
                      ~MayRenderEmpty(cluster[s].spec.groups[k])
               PROVE  FALSE
    OBVIOUS
  <2>1. /\ s \in DOMAIN original
        /\ original[s].spec = cluster[s].spec /\ original[s].data = cluster[s].data
        /\ UpdatedData(s)[k] \in {Absent, Blank}
    BY OnlyUpdates
  <2>a. ~MayRenderEmpty(secretsGroups[s][k])
    BY <2>1 DEF SnapshotInv, SnapshotParsed
  <2>2. newData[s][k] # Blank /\ k \notin RemovedKeys(s)
    BY <2>1, <2>a, RemovedFacts DEF WriteInv, SanitizeInv
  <2> QED
    BY <2>1, <2>2 DEF UpdatedData
<1> QED
  BY <1>1, WriteInvHolds, PTL DEF Spec, NothingLostUnsanitized

-----------------------------------------------------------------------------
(***************************************************************************)
(* Nil pointers.                                                           *)
(***************************************************************************)
\* No conjur-map has an invalid entry, and the client can be configured.
AllValid == ~config.clientFails /\ \A m \in config.manifests : ~Invalid(m)

\* Then only Secrets of the snapshot have destinations, and only they are processed.
OriginalInv ==
    AllValid =>
       /\ step # "panic"
       /\ \A s \in Secrets \ DOMAIN original : dests[s] = NoMap /\ s \notin allDests
       /\ step \in {"update", "remove"} => todo \subseteq DOMAIN original

\* How the Secrets to be processed come about, and what ends in a panic.
TodoSteps ==
    /\ step' \in {"update", "remove"} =>
          \/ RetrieveSecrets \/ RemoveAll
          \/ UNCHANGED <<step, original>> /\ todo' \subseteq todo
    /\ step' = "panic" => WipeNil \/ NoClient \/ (\E s \in Secrets : NilOriginal(s)) \/ UNCHANGED step

\* Every step keeps to that (Next).
LEMMA TodoFrame == [Next]_vars => TodoSteps
<1> SUFFICES ASSUME [Next]_vars PROVE TodoSteps
  OBVIOUS
<1>1. CASE ListLabelled
  BY <1>1 DEF ListLabelled, TodoSteps, envVars, sumVars, destVars, passVars
<1>2. CASE ListVariables
  BY <1>2 DEF ListVariables, TodoSteps, envVars, sumVars, destVars, passVars
<1>3. CASE RetrieveSecrets
  BY <1>3 DEF RetrieveSecrets, TodoSteps, envVars, sumVars, destVars, passVars
<1>4. CASE RemoveDeletedSecrets
  <2>1. RemoveAll /\ step' = "remove"
    BY <1>4 DEF RemoveDeletedSecrets, RemoveAll
  <2> QED
    BY <2>1 DEF TodoSteps
<1>5. CASE WipeNil
  BY <1>5 DEF WipeNil, Panic, TodoSteps, envVars, sumVars, destVars, passVars
<1>6. CASE NothingRetrieved
  BY <1>6 DEF NothingRetrieved, Fail, TodoSteps, envVars, sumVars, destVars, passVars
<1>7. CASE UpdatesDone
  BY <1>7 DEF UpdatesDone, TodoSteps, envVars, sumVars, destVars, passVars
<1>8. CASE Unlock
  BY <1>8 DEF Unlock, ClearCall, InformerAfterRun, TodoSteps, envVars, sumVars, destVars, passVars
<1>9. ASSUME NEW s \in Secrets, RetrieveRequired(s) PROVE TodoSteps
  BY <1>9 DEF RetrieveRequired, TodoSteps, envVars, sumVars, destVars, passVars
<1>10. ASSUME NEW s \in Secrets, RequiredUnusable(s) PROVE TodoSteps
  BY <1>10 DEF RequiredUnusable, Fail, TodoSteps, envVars, sumVars, destVars, passVars
<1>11. ASSUME NEW s \in Secrets, SkipUnchanged(s) PROVE TodoSteps
  BY <1>11 DEF SkipUnchanged, TodoSteps, envVars, sumVars, destVars, passVars
<1>12. ASSUME NEW s \in Secrets, updateSecret(s) PROVE TodoSteps
  BY <1>12 DEF updateSecret, Applied, TodoSteps, envVars, sumVars, destVars, passVars
<1>13. ASSUME NEW s \in Secrets, UpdateFails(s) PROVE TodoSteps
  BY <1>13 DEF UpdateFails, UpdateError, ChecksumsAfterError, TodoSteps, envVars, sumVars,
     destVars, passVars
<1>14. ASSUME NEW s \in Secrets, NilOriginal(s) PROVE TodoSteps
  BY <1>14 DEF NilOriginal, Panic, TodoSteps, envVars, sumVars, destVars, passVars
<1>15. CASE TakeEvent
  BY <1>15 DEF TakeEvent, TodoSteps, envVars, sumVars, destVars, passVars
<1>16. CASE RetrieveFails
  BY <1>16 DEF RetrieveFails, Fail, TodoSteps, envVars, sumVars, destVars, passVars
<1>17. CASE ConjurFails
  BY <1>17 DEF ConjurFails, Fail, TodoSteps, envVars, sumVars, destVars, passVars
<1>18. CASE RemoveByMistake
  <2>1. RemoveAll /\ step' = "remove"
    BY <1>18 DEF RemoveByMistake, RemoveAll
  <2> QED
    BY <2>1 DEF TodoSteps
<1>19. CASE NoClient
  BY <1>19 DEF NoClient, Panic, TodoSteps, envVars, sumVars, destVars, passVars
<1>20. ASSUME NEW s \in Secrets, AnswerLost(s) PROVE TodoSteps
  BY <1>20 DEF AnswerLost, Applied, UpdateError, ChecksumsAfterError, TodoSteps, envVars,
     sumVars, destVars, passVars
<1>21. CASE Restart
  BY <1>21 DEF Restart, ClearCall, TodoSteps, envVars, sumVars, destVars, passVars
<1>22. ASSUME NEW s \in Secrets, EditMap(s) PROVE TodoSteps
  BY <1>22 DEF EditMap, UserWrite, Touch, TodoSteps, envVars, sumVars, destVars, passVars
<1>23. ASSUME NEW s \in Secrets, Relabel(s) PROVE TodoSteps
  BY <1>23 DEF Relabel, UserWrite, Touch, TodoSteps, envVars, sumVars, destVars, passVars
<1>24. ASSUME NEW s \in Secrets, Delete(s) PROVE TodoSteps
  BY <1>24 DEF Delete, UserWrite, Touch, TodoSteps, envVars, sumVars, destVars, passVars
<1>25. ASSUME NEW s \in Secrets, Create(s) PROVE TodoSteps
  BY <1>25 DEF Create, UserWrite, Touch, TodoSteps, envVars, sumVars, destVars, passVars
<1>26. ASSUME NEW v \in Vars, Rotate(v) PROVE TodoSteps
  BY <1>26 DEF Rotate, ConjurChange, TodoSteps, envVars, sumVars, destVars, passVars
<1>27. ASSUME NEW v \in Vars, Revoke(v) PROVE TodoSteps
  BY <1>27 DEF Revoke, ConjurChange, TodoSteps, envVars, sumVars, destVars, passVars
<1>28. ASSUME NEW v \in Vars, Grant(v) PROVE TodoSteps
  BY <1>28 DEF Grant, ConjurChange, TodoSteps, envVars, sumVars, destVars, passVars
<1>29. ASSUME NEW c \in Callers, Lock(c) PROVE TodoSteps
  BY <1>29 DEF Lock, TodoSteps, envVars, sumVars, destVars, passVars
<1>30. CASE UNCHANGED vars
  BY <1>30 DEF vars, TodoSteps, envVars, sumVars, destVars, passVars
<1> QED
  BY <1>1, <1>2, <1>3, <1>4, <1>5, <1>6, <1>7, <1>8, <1>9, <1>10, <1>11, <1>12, <1>13, <1>14,
     <1>15, <1>16, <1>17, <1>18, <1>19, <1>20, <1>21, <1>22, <1>23, <1>24, <1>25, <1>26, <1>27,
     <1>28, <1>29, <1>30 DEF Next, ProviderStep, Environment

\* A Secret that is listed and skipped, but for an invalid entry, has no destinations
\* (retrieveRequiredK8sSecret).
LEMMA SkippedEmpty ==
    ASSUME TypeInv, AllValid, ListLabelled, NEW s \in Secrets \ DOMAIN original'
    PROVE  dests'[s] = NoMap /\ s \notin allDests'
<1> DEFINE m == cluster[s].spec
<1>1. CASE s \notin Labelled
  BY <1>1 DEF ListLabelled
<1>2. CASE s \in Labelled
  <2>1. PICK S \in SkippedSets :
           original' = [t \in Labelled \ S |-> [spec |-> cluster[t].spec, data |-> cluster[t].data]]
    BY DEF ListLabelled
  <2>2. MayBeSkipped(s)
    BY <1>2, <2>1 DEF SkippedSets, MaySkip
  <2>3. m \in config.manifests /\ ~Invalid(m)
    BY <1>2 DEF Labelled, TypeInv, LiveSpecs, AllValid
  <2>4. dests'[s] \in DestinationsOf(m)
    BY <1>2 DEF ListLabelled
  <2>5. s \in allDests' => m.all /\ ~InvalidGroups(m)
    BY DEF ListLabelled
  <2>6. CASE InvalidGroups(m)
    BY <2>4, <2>5, <2>6 DEF DestinationsOf
  <2>7. CASE ~InvalidGroups(m)
    <3>1. m.garbled
      BY <2>2, <2>3, <2>7 DEF MayBeSkipped
    <3>2. ~m.all /\ \A k \in Keys : m.map[k] = NoVar
      BY <2>3, <3>1, ManifestFacts DEF TypeInv, TypeOK
    <3>3. Destinations(m) = NoMap
      BY <3>2, SortsAssumption DEF Destinations, NoMap
    <3> QED
      BY <2>3, <2>4, <2>5, <2>7, <3>2, <3>3 DEF DestinationsOf
  <2> QED
    BY <2>6, <2>7
<1> QED
  BY <1>1, <1>2

\* Nothing is computed for a Secret without destinations that is not in the snapshot
\* (createSecretData, populateGroupTemplateSecretData).
LEMMA NothingComputed ==
    ASSUME TypeOK, NEW got, NEW data, NEW s \in Secrets \ DOMAIN original, data[s] = NoData
    PROVE  populateGroupTemplateSecretData(got, data)[s] = NoData
  BY DEF populateGroupTemplateSecretData, NoData

\* Every step keeps OriginalInv (ListLabelled, RetrieveSecrets, RemoveAll).
LEMMA OriginalStep == TypeInv /\ OriginalInv /\ [Next]_vars => OriginalInv'
<1> SUFFICES ASSUME TypeInv, OriginalInv, [Next]_vars, AllValid
             PROVE  /\ step' # "panic"
                    /\ \A s \in Secrets \ DOMAIN original' : dests'[s] = NoMap /\ s \notin allDests'
                    /\ step' \in {"update", "remove"} => todo' \subseteq DOMAIN original'
  BY Frames DEF Frame, OriginalInv, AllValid
<1>0. Frame /\ TodoSteps /\ TypeOK
  BY Frames, TodoFrame DEF TypeInv
<1>1. /\ step # "panic"
      /\ \A s \in Secrets \ DOMAIN original : dests[s] = NoMap /\ s \notin allDests
      /\ step \in {"update", "remove"} => todo \subseteq DOMAIN original
  BY DEF OriginalInv
<1>2. step' # "panic"
  <2>1. ~WipeNil
    <3>1. allDests \subseteq Secrets
      BY <1>0 DEF TypeOK
    <3> QED
      BY <1>1, <3>1 DEF WipeNil, NilInWipe
  <2>2. \A s \in Secrets : ~NilOriginal(s)
    BY <1>1 DEF NilOriginal
  <2>3. ~NoClient
    BY DEF NoClient, AllValid
  <2> QED
    BY <1>0, <1>1, <2>1, <2>2, <2>3 DEF TodoSteps
<1>3. ASSUME NEW s \in Secrets \ DOMAIN original' PROVE dests'[s] = NoMap /\ s \notin allDests'
  <2>1. CASE UNCHANGED <<original, dests, base64, allDests, secretsGroups>>
    BY <1>1, <1>3, <2>1
  <2>2. CASE ListLabelled
    BY <1>3, <2>2, SkippedEmpty
  <2>3. CASE RequiredStep
    <3>1. PICK t \in Secrets : RetrieveRequired(t)
      BY <2>3 DEF RequiredStep
    <3>2. s # t /\ s \notin DOMAIN original
      BY <1>3, <3>1 DEF RetrieveRequired, Put
    <3>3. dests'[s] = dests[s] /\ (s \in allDests' => s \in allDests)
      BY <1>0, <3>1, <3>2 DEF RetrieveRequired, TypeOK
    <3> QED
      BY <1>1, <1>3, <3>2, <3>3
  <2>4. CASE ClearCall
    BY <2>4 DEF ClearCall, NoDests
  <2> QED
    BY <1>0, <2>1, <2>2, <2>3, <2>4 DEF Frame
<1>4. ASSUME RetrieveSecrets PROVE todo' \subseteq DOMAIN original'
  <2>1. PICK got \in SUBSET Vars : \E first \in FirstOf(got) :
           /\ newData' = populateGroupTemplateSecretData(got, createSecretData(got, first))
           /\ UNCHANGED <<config, original, dests, allDests, secretsGroups>>
    BY <1>4, ComputedStep
  <2>2. PICK first \in FirstOf(got) :
           newData' = populateGroupTemplateSecretData(got, createSecretData(got, first))
    BY <2>1
  <2>3. ASSUME NEW s \in Secrets \ DOMAIN original PROVE newData'[s] = NoData
    <3>1. dests[s] = NoMap /\ s \notin allDests
      BY <1>1, <2>3
    <3>2. \A k \in Keys : Content(ValueFor(dests[s][k], got), k \in base64[s]) = Absent
      BY <3>1, SortsAssumption DEF NoMap, ValueFor, Content
    <3>3. createSecretData(got, first)[s] = NoData
      BY <3>1, <3>2 DEF createSecretData, NoData
    <3> QED
      BY <1>0, <2>2, <3>3, NothingComputed
  <2> QED
    BY <1>4, <2>1, <2>3 DEF RetrieveSecrets, ToProcess
<1>5. ASSUME RemoveAll PROVE todo' \subseteq DOMAIN original'
  <2> DEFINE data == [s \in Secrets |-> [k \in Keys |->
                        IF dests[s][k] # NoVar THEN Blank
                        ELSE IF s \in allDests THEN WipeStale(s, k, Absent) ELSE Absent]]
  <2>1. newData' = populateGroupTemplateSecretData({}, data) /\ UNCHANGED original
    BY <1>5 DEF RemoveAll
  <2>2. ASSUME NEW s \in Secrets \ DOMAIN original PROVE newData'[s] = NoData /\ s \notin allDests
    <3>1. dests[s] = NoMap /\ s \notin allDests
      BY <1>1, <2>2
    <3>2. data[s] = NoData
      BY <3>1 DEF NoMap, NoData
    <3> HIDE DEF data
    <3> QED
      BY <1>0, <2>1, <3>1, <3>2, NothingComputed
  <2> QED
    BY <1>5, <2>1, <2>2 DEF RemoveAll
<1>6. ASSUME step' \in {"update", "remove"} PROVE todo' \subseteq DOMAIN original'
  BY <1>0, <1>1, <1>4, <1>5, <1>6 DEF TodoSteps
<1> QED
  BY <1>2, <1>3, <1>6

\* If the Kubernetes client can be configured, a call follows a nil pointer, and the
\* process dies, only where some conjur-map has an invalid entry: neither invalid groups nor a conjur-map that is no YAML, neither
\* users who relabel and delete nor "*" and keys to remove are enough.
THEOREM PanicsOnlyIfInvalidHolds == Spec => []PanicsOnlyIfInvalid
<1>1. Init => OriginalInv
  BY DEF Init, OriginalInv, NoDests
<1>2. OriginalInv => PanicsOnlyIfInvalid
  BY DEF OriginalInv, PanicsOnlyIfInvalid, AllValid
<1> QED
  BY <1>1, <1>2, TypeInit, TypeStep, OriginalStep, PTL DEF Spec
====
