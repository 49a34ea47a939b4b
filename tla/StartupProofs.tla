---------------------------- MODULE StartupProofs ----------------------------
(***************************************************************************)
(* Theorems about Startup, for all settings, groups and parsers.           *)
(***************************************************************************)
EXTENDS Startup, TLAPS

\* The annotations in use have passed ValidateAnnotations.
AnnotationsValid ==
    /\ \A k \in AnnotKeys :
          annotationsMap[k] # Absent => validateAnnotationValue(k, annotationsMap[k])
    /\ \A g \in Defined : groupAnnots[g] \in GroupAnnots /\ groupAnnots[g].format # "unknown"

\* The provider was made from settings and groups that passed the validation.
ProviderMade ==
    /\ ValidateSecretsProviderSettings
    /\ secretsConfig = NewConfig
    /\ secretGroups # {} => secretGroups = NewSecretGroups /\ ~newSecretGroupsFail

\* What each phase of the start has established; the settings do not change
\* after the annotations were read.
StartInv ==
    /\ input \in InputType
    /\ annotationsMap \in [AnnotKeys -> Values \cup {Absent}]
    /\ pc \in {"annotations", "retriever", "config", "server", "run", "exit"}
    /\ pc = "annotations" => /\ annotationsMap = [k \in AnnotKeys |-> Absent]
                             /\ groupAnnots = [g \in GroupNames |-> NoGroup]
    /\ pc \in {"retriever", "config", "server", "run"} => AnnotationsValid
    /\ pc \in {"server", "run"} => ProviderMade
    /\ pc = "run" => refresh = ProviderRefreshConfig

\* What is computed from the settings stays the same as long as they do.
LEMMA Unmoved ==
    ASSUME UNCHANGED <<input, annotationsMap, groupAnnots>>
    PROVE  /\ AnnotationsValid' <=> AnnotationsValid
           /\ ValidateSecretsProviderSettings' <=> ValidateSecretsProviderSettings
           /\ UNCHANGED <<NewConfig, NewSecretGroups, getContainerMode, RunOnce>>
           /\ newSecretGroupsFail' <=> newSecretGroupsFail
<1>1. AnnotationsValid' <=> AnnotationsValid
  BY DEF AnnotationsValid, validateAnnotationValue, Defined
<1>2. /\ \A k : Annot(k)' = Annot(k)
      /\ \A k : Env(k)' = Env(k)
      /\ \A k : Setting(k)' = Setting(k)
  BY DEF Annot, Env, Setting
<1>3. NewConfig' = NewConfig
  BY <1>2 DEF NewConfig, parseK8sSecretsList, RefreshInterval
<1>4. ValidateSecretsProviderSettings' <=> ValidateSecretsProviderSettings
  BY <1>2 DEF ValidateSecretsProviderSettings, validStore, validRefreshInterval, validStandalone
<1>5. Defined' = Defined /\ NewSecretGroups' = NewSecretGroups
  BY DEF Defined, NewSecretGroups
<1>6. newSecretGroupsFail' <=> newSecretGroupsFail
  BY <1>5 DEF newSecretGroupsFail
<1>7. getContainerMode' = getContainerMode /\ RunOnce' = RunOnce
  BY <1>2 DEF getContainerMode, RunOnce
<1> QED BY <1>1, <1>3, <1>4, <1>5, <1>6, <1>7

\* The annotations that are left of a group are annotations of a group.
LEMMA WithoutTyped ==
    ASSUME NEW keys, NEW a \in GroupAnnots
    PROVE  Without(keys, a) \in GroupAnnots
<1>1. NoTemplate \in Templates
  BY DEF NoTemplate, Templates
<1>2. <<"">> \in Paths
  <2>1. "" \in Names
    BY ShapeAssumption
  <2>2. \A n \in Names : <<n>> \in Seq(Names) /\ <<n>> # <<>>
    OBVIOUS
  <2> QED BY <2>1, <2>2 DEF Paths
<1>3. <<>> \in Seq(Dirs) /\ <<>> \in Seq({"r", "w", "x", "-", "?"})
  OBVIOUS
<1> QED BY <1>1, <1>2, <1>3 DEF Without, GroupAnnots

\* Every phase establishes its part.
LEMMA StartInvHolds == Spec => []StartInv
<1>1. Init => StartInv
  BY InputsAssumption DEF Init, StartInv
<1>2. StartInv /\ [Next]_vars => StartInv'
  <2> SUFFICES ASSUME StartInv, [Next]_vars PROVE StartInv'
    OBVIOUS
  <2>1. CASE processAnnotations
    <3>1. CASE pc' = "exit"
      BY <2>1, <3>1 DEF processAnnotations, newAnnotationsFromReader, StartInv, Failed, InputType
    <3>2. CASE input.file = "missing"
      BY <2>1, <3>2 DEF processAnnotations, StartInv, Failed, AnnotationsValid, Defined
    <3>3. CASE input.file \in {"long", "ok"} /\ pc' = "retriever"
      <4>1. PICK lost, lostOfGroups : newAnnotationsFromReader(lost, lostOfGroups)
        BY <2>1, <3>3 DEF processAnnotations
      <4>2. /\ annotationsMap' \in [AnnotKeys -> Values \cup {Absent}]
            /\ groupAnnots' \in [GroupNames -> GroupAnnots \cup {NoGroup}]
        <5>1. annotationsMap' \in [AnnotKeys -> Values \cup {Absent}]
          BY <4>1 DEF newAnnotationsFromReader, StartInv, InputType
        <5>2. \A g \in GivenGroups : input.groups[g] \in GroupAnnots
          BY DEF GivenGroups, StartInv, InputType
        <5> QED BY <4>1, <5>1, <5>2, WithoutTyped DEF newAnnotationsFromReader
      <4>3. ValidateAnnotations(annotationsMap', groupAnnots') /\ UNCHANGED input
        BY <2>1, <3>3 DEF processAnnotations, Failed
      <4>4. AnnotationsValid'
        BY <4>2, <4>3 DEF ValidateAnnotations, AnnotationsValid, Defined
      <4> QED BY <3>3, <4>2, <4>3, <4>4 DEF StartInv
    <3> QED BY <2>1, <3>1, <3>2, <3>3 DEF processAnnotations, Failed
  <2>2. CASE secretRetriever
    BY <2>2, Unmoved DEF secretRetriever, Failed, StartInv
  <2>3. CASE secretsProvider
    <3>1. UNCHANGED <<input, annotationsMap, groupAnnots>>
      BY <2>3 DEF secretsProvider, Failed
    <3>2. pc' = "server" => ProviderMade'
      BY <2>3, <3>1, Unmoved DEF secretsProvider, Failed, ProviderMade
    <3> QED BY <2>3, <3>1, <3>2, Unmoved DEF secretsProvider, Failed, StartInv
  <2>4. CASE serverFails
    BY <2>4 DEF serverFails, StartInv
  <2>5. CASE callRunSecretsProvider
    <3>1. AnnotationsValid' /\ ProviderMade'
      BY <2>5, Unmoved DEF callRunSecretsProvider, StartInv, ProviderMade
    <3>2. ProviderRefreshConfig' = ProviderRefreshConfig
      BY <2>5, Unmoved DEF callRunSecretsProvider, ProviderRefreshConfig
    <3> QED BY <2>5, <3>1, <3>2 DEF callRunSecretsProvider, StartInv
  <2>6. CASE UNCHANGED vars
    <3>1. (AnnotationsValid' <=> AnnotationsValid) /\ (ProviderMade' <=> ProviderMade)
      BY <2>6, Unmoved DEF vars, ProviderMade
    <3>2. ProviderRefreshConfig' = ProviderRefreshConfig
      BY <2>6, Unmoved DEF vars, ProviderRefreshConfig
    <3> QED BY <2>6, <3>1, <3>2 DEF vars, StartInv
  <2> QED BY <2>1, <2>2, <2>3, <2>4, <2>5, <2>6 DEF Next
<1> QED BY <1>1, <1>2, PTL DEF Spec

-----------------------------------------------------------------------------
\* A process that runs was validated for the mode it runs in, refreshes secrets
\* exactly if that was asked for and is allowed, and is served by the informer if
\* it is standalone, unless blanks are taken for names of K8s Secrets: for all
\* annotations, environments and parsers.
THEOREM RunsAsValidatedHolds == Spec => []RunsAsValidated
<1>1. StartInv => RunsAsValidated
  <2> SUFFICES ASSUME StartInv, pc = "run"
               PROVE  ModeAsValidated /\ RefreshAsConfigured /\ StandaloneByLabels
    BY DEF RunsAsValidated
  <2>1. /\ AnnotationsValid /\ ValidateSecretsProviderSettings
        /\ secretsConfig = NewConfig /\ refresh = ProviderRefreshConfig
    BY DEF StartInv, ProviderMade
  <2>2. "container-mode" \in AnnotKeys /\ "secrets-refresh-enabled" \in AnnotKeys
    BY DEF AnnotKeys
  <2>3. annotationsMap["container-mode"] # Absent => annotationsMap["container-mode"] \in Modes
    BY <2>1, <2>2 DEF AnnotationsValid, validateAnnotationValue
  <2>4. LoopMode(getContainerMode) = LoopMode(Setting("container-mode"))
    BY <2>3 DEF LoopMode, getContainerMode, Setting, Annot, Modes
  <2>5. LoopMode(getContainerMode) = LoopMode(customEnv)
    BY <2>3 DEF LoopMode, getContainerMode, customEnv, Annot, Env, Modes
  <2>6. ModeAsValidated
    BY <2>1, <2>4, <2>5 DEF ModeAsValidated, ProviderRefreshConfig, NewConfig
  <2>7. RunOnce <=> Setting("container-mode") \notin {"sidecar", "standalone"}
    BY <2>4 DEF RunOnce, LoopMode
  <2>8. refresh.SecretRefreshInterval = RefreshInterval /\ (refresh.RunOnce <=> RunOnce)
    BY <2>1 DEF ProviderRefreshConfig, NewConfig
  <2>9. RefreshAsConfigured
    <3> DEFINE interval == Annot("secrets-refresh-interval")
               enabled  == Annot("secrets-refresh-enabled")
    <3>1. interval # "" \/ enabled # "" => ~RunOnce
      BY <2>1, <2>7 DEF ValidateSecretsProviderSettings, validRefreshInterval
    <3>2. CASE interval # ""
      <4>1. interval \in DOMAIN DurationOf /\ DurationOf[interval] >= MinRefreshInterval
        BY <2>1, <3>2 DEF ValidateSecretsProviderSettings, validRefreshInterval
      <4>2. RefreshInterval = DurationOf[interval] /\ DurationOf[interval] \in Int
        BY <4>1, ParsersAssumption DEF RefreshInterval
      <4>3. RefreshInterval \in Int /\ RefreshInterval >= 10
        BY <4>1, <4>2 DEF MinRefreshInterval
      <4>4. RefreshInterval # 0
        BY <4>3
      <4> QED BY <2>8, <3>1, <3>2, <4>1, <4>2, <4>4 DEF RefreshAsConfigured
    <3>3. CASE interval = ""
      <4>1. RefreshInterval = IF enabled = "true" THEN DefaultRefreshInterval ELSE 0
        BY <3>3, ParsersAssumption DEF RefreshInterval
      <4>2. DefaultRefreshInterval # 0 /\ DefaultRefreshInterval >= MinRefreshInterval
        BY SMT DEF DefaultRefreshInterval, MinRefreshInterval
      <4> QED BY <2>8, <3>1, <3>3, <4>1, <4>2 DEF RefreshAsConfigured
    <3> QED BY <3>2, <3>3
  <2>10. StandaloneByLabels
    <3> SUFFICES ASSUME refresh.Mode = "standalone"
                 PROVE  /\ \/ refresh.InformerEvents
                           \/ Annot("k8s-secrets") # "" \/ Env("k8s-secrets") \notin Spaces
                        /\ Setting("retry-count-limit") = "" => refresh.RetryCountLimit = -1
      BY DEF StandaloneByLabels
    <3>1. Setting("container-mode") = "standalone" /\ ~RunOnce
      BY <2>1, <2>4, <2>7 DEF ProviderRefreshConfig, LoopMode
    <3>2. Setting("secrets-destination") = "k8s_secrets"
      BY <2>1, <3>1
      DEF ValidateSecretsProviderSettings, validStore, validStandalone, Setting, Stores
    <3>3. Annot("k8s-secrets") = "" /\ Env("k8s-secrets") \in Spaces => parseK8sSecretsList = {}
      BY ParsersAssumption DEF parseK8sSecretsList
    <3>4. Annot("k8s-secrets") = "" /\ Env("k8s-secrets") \in Spaces => refresh.InformerEvents
      BY <2>1, <3>1, <3>2, <3>3 DEF ProviderRefreshConfig, NewConfig
    <3>5. ASSUME Setting("retry-count-limit") = "" PROVE refresh.RetryCountLimit = -1
      BY <2>1, <3>1, <3>5, ParsersAssumption
      DEF ProviderRefreshConfig, NewConfig, parseIntFromStringOrDefault
    <3> QED BY <3>4, <3>5
  <2> QED BY <2>6, <2>9, <2>10
<1> QED BY <1>1, StartInvHolds, PTL

\* The permissions that are accepted let the owner read and write.
LEMMA OwnerMayWrite ==
    ASSUME NEW perms, ~permStrFails(perms)
    PROVE  Owner \subseteq permStrToFileMode(perms)
<1>1. CASE perms = <<>>
  BY <1>1 DEF permStrToFileMode
<1>2. CASE perms # <<>>
  <2>1. Bits(perms)[1] = "r" /\ Bits(perms)[2] = "w"
    BY <1>2 DEF permStrFails
  <2> QED BY <1>2, <2>1 DEF permStrToFileMode, Owner
<1> QED BY <1>1, <1>2

\* Secrets keep the aliases of specs that have one.
LEMMA Kept ==
    ASSUME NEW specs, ~FetchAll(specs), \A i \in DOMAIN specs : specs[i].Alias \notin {"", "*"}
    PROVE  SureAliases(specs) = Aliases(specs)
BY DEF SureAliases, Aliases, getSecretValueByID

\* What validate accepts, a call can render: the template was tried with the
\* aliases that are there in every call.
LEMMA ValidatedRenders ==
    ASSUME NEW sg, ~validateFails(sg), ~AcceptedInVain(sg)
    PROVE  ~pushToFileFails(sg, SureAliases(sg.SecretSpecs))
<1>1. ~maybeFileTemplateFromFormatFails(sg)
  BY DEF maybeFileTemplateFromFormatFails, validateFails, AcceptedInVain
<1>2. ASSUME sg.FileTemplate.given
      PROVE  ~pushToWriterFails(sg.FileTemplate, SureAliases(sg.SecretSpecs))
  <2>1. ~pushToWriterFails(sg.FileTemplate, Aliases(sg.SecretSpecs))
    BY <1>2 DEF validateFails
  <2>2. CASE FetchAll(sg.SecretSpecs)
    BY <2>1, <2>2 DEF pushToWriterFails, AcceptedInVain, SureAliases
  <2>3. CASE ~FetchAll(sg.SecretSpecs)
    BY <2>1, <2>3, Kept DEF AcceptedInVain
  <2> QED BY <2>2, <2>3
<1>3. ~validateSecretsAgainstSpecsFails(sg.SecretSpecs, SureAliases(sg.SecretSpecs))
  BY Kept DEF validateSecretsAgainstSpecsFails, AcceptedInVain
<1> QED BY <1>1, <1>2, <1>3 DEF pushToFileFails

\* The alias "*" fits no format of shell variables or properties.
LEMMA StarIsNoVariable ==
    ASSUME NEW sg, ~validateFails(sg), FetchAll(sg.SecretSpecs), sg.SecretSpecs[1].Alias = "*"
    PROVE  sg.FileFormat \notin {"bash", "dotenv", "properties"}
<1>1. ~validateBashVarName("*") /\ ~validatePropertyVarName("*")
  <2>1. Shape["*"] = [first |-> "printable", chars |-> {"printable"}, len |-> 1]
    BY ShapeAssumption
  <2>2. Shape["*"].first # "letter"
    BY <2>1
  <2> QED BY <2>2 DEF validateBashVarName, validatePropertyVarName
<1>2. 1 \in DOMAIN sg.SecretSpecs
  BY DEF FetchAll
<1>3. \A f \in {"bash", "dotenv", "properties"} : ~ValidateAlias(f, "*")
  BY <1>1 DEF ValidateAlias
<1>4. \A f \in {"bash", "dotenv", "properties"} : FileTemplateForFormatFails(f, sg.SecretSpecs)
  BY <1>2, <1>3 DEF FileTemplateForFormatFails
<1> QED BY <1>4 DEF validateFails

\* A file is in the directories that its annotation asks for: a path above it is one
\* of them.
LEMMA AboveIsAsked ==
    ASSUME NEW g \in GroupNames, NEW a \in GroupAnnots,
           NEW h \in GroupNames, NEW b \in GroupAnnots,
           Above(absoluteFilePath(h, b), absoluteFilePath(g, a))
    PROVE  absoluteFilePath(h, b) = a.dirs \/ Above(absoluteFilePath(h, b), a.dirs)
<1> DEFINE file == absoluteFilePath(h, b)
           path == absoluteFilePath(g, a)
<1> SUFFICES ASSUME file # a.dirs PROVE Above(file, a.dirs)
  OBVIOUS
<1>1. a.dirs \in Seq(Dirs)
  BY DEF GroupAnnots
<1>2. path = a.dirs \/ \E n : path = Append(a.dirs, n)
  BY DEF absoluteFilePath
<1>3. CASE path = a.dirs
  BY <1>3
<1>4. ASSUME NEW n, path = Append(a.dirs, n) PROVE Above(file, a.dirs)
  BY <1>1, <1>4 DEF Above
<1> QED BY <1>2, <1>3, <1>4

\* Only a path that ends in "." is that of the base directory.
LEMMA BaseIsAsked ==
    ASSUME NEW g \in GroupNames, NEW a \in GroupAnnots, absoluteFilePath(g, a) = <<>>
    PROVE  a.dirs = <<>>
<1>1. a.dirs \in Seq(Dirs)
  BY DEF GroupAnnots
<1> QED BY <1>1 DEF absoluteFilePath

\* Secret groups that were accepted have files of their own, whatever the paths,
\* formats and default names; calls can open and render them, but for the groups
\* that InTheWay and AcceptedInVain name.
THEOREM GroupsUsableHolds == Spec => []GroupsUsable
<1>1. StartInv => GroupsUsable
  <2> SUFFICES ASSUME StartInv, pc = "run", secretGroups # {}
               PROVE  /\ \A x, y \in secretGroups : x.FilePath = y.FilePath => x = y
                      /\ \A sg \in secretGroups :
                            /\ Owner \subseteq sg.FilePermissions
                            /\ AcceptedInVain(sg)
                               \/ ~pushToFileFails(sg, SureAliases(sg.SecretSpecs))
                            /\ \/ InTheWay(sg)
                               \/ \A done \in SUBSET secretGroups :
                                     ~openFileAsWriteCloserFails(sg, done)
                            /\ FetchAll(sg.SecretSpecs) /\ sg.SecretSpecs[1].Alias = "*" =>
                                  sg.FileFormat \notin {"bash", "dotenv", "properties"}
    BY DEF GroupsUsable
  <2>1. secretGroups = NewSecretGroups /\ ~newSecretGroupsFail
    BY DEF StartInv, ProviderMade
  <2>2. \A x \in secretGroups :
           /\ x.Name \in Defined
           /\ x = newSecretGroup(x.Name, groupAnnots[x.Name])
    BY <2>1 DEF NewSecretGroups, newSecretGroup
  <2>3. ASSUME NEW x \in secretGroups, NEW y \in secretGroups, x.FilePath = y.FilePath
        PROVE  x = y
    BY <2>1, <2>2, <2>3 DEF newSecretGroupsFail, validateGroupFilePaths
  <2>4. ASSUME NEW sg \in secretGroups
        PROVE  /\ ~permStrFails(groupAnnots[sg.Name].perms)
               /\ sg.FilePermissions = permStrToFileMode(groupAnnots[sg.Name].perms)
               /\ ~validateFails(sg)
    <3>1. ~newSecretGroupFails(sg.Name, groupAnnots[sg.Name])
      BY <2>1, <2>2 DEF newSecretGroupsFail
    <3>2. sg = newSecretGroup(sg.Name, groupAnnots[sg.Name])
      BY <2>2
    <3>3. ~validateFails(sg)
      BY <3>1, <3>2 DEF newSecretGroupFails
    <3>4. sg.FilePermissions = permStrToFileMode(groupAnnots[sg.Name].perms)
      BY <3>2 DEF newSecretGroup
    <3> QED BY <3>1, <3>3, <3>4 DEF newSecretGroupFails
  <2>5. \A x \in secretGroups : groupAnnots[x.Name] \in GroupAnnots
    BY <2>2 DEF StartInv, AnnotationsValid
  <2>6. \A x \in secretGroups : /\ x.Name \in GroupNames
                                /\ x.FilePath = absoluteFilePath(x.Name, groupAnnots[x.Name])
    <3> TAKE x \in secretGroups
    <3>1. x.FilePath = newSecretGroup(x.Name, groupAnnots[x.Name]).FilePath
      BY <2>2
    <3> QED BY <2>2, <3>1 DEF newSecretGroup, Defined
  <2>7. ASSUME NEW sg \in secretGroups, ~InTheWay(sg), NEW done \in SUBSET secretGroups
        PROVE  ~openFileAsWriteCloserFails(sg, done)
    <3>1. ASSUME NEW x \in secretGroups, NEW y \in secretGroups, Above(x.FilePath, y.FilePath)
          PROVE  AskedAsDirectory(x.FilePath, y)
      BY <2>5, <2>6, <3>1, AboveIsAsked DEF AskedAsDirectory
    <3>2. sg.FilePath # <<>>
      BY <2>5, <2>6, <2>7, BaseIsAsked DEF InTheWay, AskedAsDirectory
    <3> QED BY <2>7, <3>1, <3>2 DEF InTheWay, openFileAsWriteCloserFails
  <2> QED BY <2>3, <2>4, <2>7, OwnerMayWrite, ValidatedRenders, StarIsNoVariable
<1> QED BY <1>1, StartInvHolds, PTL
====
