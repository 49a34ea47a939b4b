------------------------------- MODULE Startup -------------------------------
(***************************************************************************)
(* How a process comes to run: the pod's annotations are read and checked, *)
(* a retriever is made, annotations and environment give a configuration,  *)
(* the push-to-file provider makes its secret groups, a standalone process *)
(* starts its server, and the scheduler is called. RunSecretsProvider and  *)
(* PushToFile begin where this module ends.                                *)
(*                                                                         *)
(* Settings are strings. What the parsers of the Go library make of them   *)
(* is given by functions whose domains are the strings they accept.        *)
(***************************************************************************)
EXTENDS Integers, SecretGroups

CONSTANTS
    Values,      \* the strings that settings take
    Absent,      \* there is no such annotation
    IntOf,       \* strconv.Atoi
    BoolOf,      \* strconv.ParseBool
    DurationOf,  \* time.ParseDuration, in tenths of a second
    Blanks,      \* the strings that strings.TrimSpace empties
    Spaces,      \* those of spaces alone: tabs and line feeds are blanks too
    YamlNames,   \* the names in a list of K8s Secrets given by annotation
    CommaNames,  \* the names in a list given by environment variable
    NoGroup,     \* the annotations do not define the group
    Inputs       \* the annotations, environments and template files considered

Modes == {"init", "application", "sidecar", "standalone"}
Stores == {"k8s_secrets", "file"}

AnnotKeys == {"container-mode", "secrets-destination", "k8s-secrets", "retry-count-limit",
              "retry-interval-sec", "secrets-refresh-interval", "secrets-refresh-enabled",
              "remove-deleted-secrets-enabled", "namespace-allowlist"}
EnvKeys == AnnotKeys \ {"secrets-refresh-interval", "secrets-refresh-enabled"}

InputType ==
    [file : {"missing", "broken", "long", "ok"}, namespace : BOOLEAN,
     annots : [AnnotKeys -> Values \cup {Absent}], env : [EnvKeys -> Values],
     groups : [GroupNames -> GroupAnnots \cup {NoGroup}]]

ASSUME InputsAssumption == Inputs \subseteq InputType
ASSUME ParsersAssumption ==
    /\ Spaces \subseteq Blanks /\ "" \in Values \cap Spaces /\ Absent \notin Values
    /\ Modes \cup Stores \subseteq Values
    /\ DOMAIN IntOf \subseteq Values \ {""} /\ \A v \in DOMAIN IntOf : IntOf[v] \in Int
    /\ DOMAIN BoolOf \subseteq Values \ {""} /\ \A v \in DOMAIN BoolOf : BoolOf[v] \in BOOLEAN
    /\ "true" \in DOMAIN BoolOf /\ BoolOf["true"]
    /\ DOMAIN DurationOf \subseteq Values \ {""}
    /\ \A v \in DOMAIN DurationOf : DurationOf[v] \in Int
    /\ \A v \in Spaces : CommaNames[v] = {}
ASSUME NoGroupAssumption == NoGroup \notin GroupAnnots

VARIABLES
    input,           \* the files and environment the process finds
    pc,              \* where startSecretsProviderWithDeps stands
    annotationsMap,  \* annotations of the settings
    groupAnnots,     \* annotations of the secret groups, in the same map
    secretsConfig,   \* the configuration
    secretGroups,    \* the secret groups of push-to-file
    refresh,         \* what RunSecretsProvider is called with
    exitCode

vars == <<input, pc, annotationsMap, groupAnnots, secretsConfig, secretGroups, refresh, exitCode>>

Init ==
    /\ input \in Inputs
    /\ pc = "annotations"
    /\ annotationsMap = [k \in AnnotKeys |-> Absent]
    /\ groupAnnots = [g \in GroupNames |-> NoGroup]
    /\ secretsConfig = <<>> /\ secretGroups = {} /\ refresh = <<>>
    /\ exitCode = 0

-----------------------------------------------------------------------------
(***************************************************************************)
(* Annotations.                                                            *)
(***************************************************************************)
validateAnnotationValue(k, v) ==
    /\ k \in {"retry-count-limit", "retry-interval-sec"} => v \in DOMAIN IntOf
    /\ k \in {"secrets-refresh-enabled", "remove-deleted-secrets-enabled"} => v \in DOMAIN BoolOf
    /\ k = "container-mode" => v \in Modes
    /\ k = "secrets-destination" => v \in Stores

ValidateAnnotations(annots, groups) ==
    /\ \A k \in AnnotKeys : annots[k] # Absent => validateAnnotationValue(k, annots[k])
    /\ \A g \in GroupNames : groups[g] # NoGroup => groups[g].format # "unknown"

\* logError: nothing was started and the process exits.
Failed ==
    /\ pc' = "exit" /\ exitCode' = 1
    /\ UNCHANGED <<input, secretsConfig, secretGroups, refresh>>

\* The annotations that the file has.
Given == {k \in AnnotKeys : input.annots[k] # Absent}
GivenGroups == {g \in GroupNames : input.groups[g] # NoGroup}

\* A line that is longer than the scanner's buffer ends the reading without an
\* error: annotations of that line and of the lines after it are not seen.
newAnnotationsFromReader(lost, lostOfGroups) ==
    /\ annotationsMap' = [k \in AnnotKeys |-> IF k \in lost THEN Absent ELSE input.annots[k]]
    /\ groupAnnots' =
          [g \in GroupNames |->
              IF g \notin GivenGroups \/ <<g, "conjur-secrets">> \in lostOfGroups THEN NoGroup
              ELSE Without({k \in GroupKeys : <<g, k>> \in lostOfGroups}, input.groups[g])]

\* Without the file there are no annotations.
processAnnotations ==
    /\ pc = "annotations"
    /\ \/ /\ input.file = "missing"
          /\ pc' = "retriever"
          /\ UNCHANGED <<input, annotationsMap, groupAnnots, secretsConfig, secretGroups, refresh,
                         exitCode>>
       \/ /\ input.file = "broken"
          /\ Failed
          /\ UNCHANGED <<annotationsMap, groupAnnots>>
       \/ /\ input.file \in {"long", "ok"}
          /\ \/ input.file = "ok" /\ newAnnotationsFromReader({}, {})
             \/ /\ input.file = "long"
                /\ \E lost \in SUBSET Given, lostOfGroups \in SUBSET (GivenGroups \X GroupKeys) :
                      newAnnotationsFromReader(lost, lostOfGroups)
          /\ IF ValidateAnnotations(annotationsMap', groupAnnots')
             THEN /\ pc' = "retriever"
                  /\ UNCHANGED <<input, secretsConfig, secretGroups, refresh, exitCode>>
             ELSE Failed

\* The authenticator is configured, or cannot be.
secretRetriever ==
    /\ pc = "retriever"
    /\ \/ /\ pc' = "config"
          /\ UNCHANGED <<input, secretsConfig, secretGroups, refresh, exitCode>>
       \/ Failed
    /\ UNCHANGED <<annotationsMap, groupAnnots>>

-----------------------------------------------------------------------------
(***************************************************************************)
(* Settings: an annotation comes before the environment variable.          *)
(***************************************************************************)
Annot(k) == IF annotationsMap[k] = Absent THEN "" ELSE annotationsMap[k]
Env(k) == input.env[k]
Setting(k) == IF Annot(k) # "" THEN Annot(k) ELSE Env(k)

\* The environment alone cannot ask for files.
validStore ==
    \/ Annot("secrets-destination") \in Stores
    \/ Annot("secrets-destination") = "" /\ Env("secrets-destination") = "k8s_secrets"

MinRefreshInterval == 10
DefaultRefreshInterval == 3000

validRefreshInterval ==
    LET interval == Annot("secrets-refresh-interval")
        enabled  == Annot("secrets-refresh-enabled")
    IN  (interval # "" \/ enabled # "") =>
            /\ Setting("container-mode") \in {"sidecar", "standalone"}
            /\ interval # "" =>
                  /\ interval \in DOMAIN DurationOf
                  /\ enabled # "" => enabled \in DOMAIN BoolOf /\ BoolOf[enabled]
                  /\ DurationOf[interval] >= MinRefreshInterval

validStandalone ==
    Setting("container-mode") = "standalone" =>
        /\ Setting("namespace-allowlist") \notin Blanks
        /\ Annot("k8s-secrets") \in Blanks /\ Env("k8s-secrets") \in Blanks
        /\ Annot("secrets-destination") # "file"

ValidateSecretsProviderSettings ==
    input.namespace /\ validStore /\ validRefreshInterval /\ validStandalone

parseIntFromStringOrDefault(value, defaultValue, minValue) ==
    IF value \in DOMAIN IntOf /\ IntOf[value] >= minValue THEN IntOf[value] ELSE defaultValue

parseK8sSecretsList ==
    IF Annot("k8s-secrets") # "" THEN YamlNames[Annot("k8s-secrets")]
    ELSE CommaNames[Env("k8s-secrets")]

\* Only the spelling "true" stands for the default interval.
RefreshInterval ==
    LET interval == Annot("secrets-refresh-interval")
    IN  IF interval \in DOMAIN DurationOf THEN DurationOf[interval]
        ELSE IF interval = "" /\ Annot("secrets-refresh-enabled") = "true"
             THEN DefaultRefreshInterval ELSE 0

NewConfig ==
    [StoreType |-> Setting("secrets-destination"),
     RequiredK8sSecrets |->
        IF Setting("secrets-destination") = "file" THEN {} ELSE parseK8sSecretsList,
     ContainerMode |-> Setting("container-mode"),
     RetryCountLimit |->
        parseIntFromStringOrDefault(
            Setting("retry-count-limit"),
            IF Setting("retry-count-limit") = "" /\ Setting("container-mode") = "standalone"
            THEN -1 ELSE 5,
            -1),
     RetryIntervalSec |-> parseIntFromStringOrDefault(Setting("retry-interval-sec"), 1, 0),
     SecretsRefreshInterval |-> RefreshInterval,
     SanitizeEnabled |->
        LET enabled == Setting("remove-deleted-secrets-enabled")
        IN  IF enabled \in DOMAIN BoolOf THEN BoolOf[enabled] ELSE TRUE]

-----------------------------------------------------------------------------
(***************************************************************************)
(* Secret groups of push-to-file.                                          *)
(***************************************************************************)
Defined == {g \in GroupNames : groupAnnots[g] # NoGroup}
NewSecretGroups == {newSecretGroup(g, groupAnnots[g]) : g \in Defined}

\* Mutant: only the paths that the annotations give are compared.
GivenPathsDiffer(sgs) ==
    \A g, h \in Defined :
        (/\ groupAnnots[g].name # NoName /\ groupAnnots[h].name = groupAnnots[g].name
         /\ groupAnnots[h].dirs = groupAnnots[g].dirs) => g = h
validateGroupFilePaths(sgs) == \A x, y \in sgs : x.FilePath = y.FilePath => x.Name = y.Name

newSecretGroupsFail ==
    \/ \E g \in Defined : newSecretGroupFails(g, groupAnnots[g])
    \/ ~validateGroupFilePaths(NewSecretGroups)

-----------------------------------------------------------------------------
(***************************************************************************)
(* The rest of the entry point.                                            *)
(***************************************************************************)
\* Settings that are not valid, or groups that cannot be made, end the process.
secretsProvider ==
    /\ pc = "config"
    /\ IF ~ValidateSecretsProviderSettings
          \/ (NewConfig.StoreType = "file" /\ newSecretGroupsFail)
       THEN Failed
       ELSE /\ pc' = "server"
            /\ secretsConfig' = NewConfig
            /\ secretGroups' = IF NewConfig.StoreType = "file" THEN NewSecretGroups ELSE {}
            /\ UNCHANGED <<input, refresh, exitCode>>
    /\ UNCHANGED <<annotationsMap, groupAnnots>>

\* Mutant: a variable of the environment comes first.
EnvironmentFirst ==
    IF Env("container-mode") \in Modes THEN Env("container-mode")
    ELSE IF annotationsMap["container-mode"] # Absent THEN annotationsMap["container-mode"]
    ELSE "init"
getContainerMode ==
    IF annotationsMap["container-mode"] # Absent THEN annotationsMap["container-mode"]
    ELSE IF Env("container-mode") \in Modes \ {"init"} THEN Env("container-mode")
    ELSE "init"

\* The mode that the authenticator is configured with.
customEnv ==
    IF Annot("container-mode") # "" THEN Annot("container-mode")
    ELSE IF Env("container-mode") = "" THEN "init" ELSE Env("container-mode")

RunOnce == getContainerMode \notin {"sidecar", "standalone"}

\* A server that cannot listen ends the process, with exit code 0.
serverFails ==
    /\ pc = "server" /\ getContainerMode = "standalone"
    /\ pc' = "exit"
    /\ UNCHANGED <<input, annotationsMap, groupAnnots, secretsConfig, secretGroups, refresh,
                   exitCode>>

\* What RunSecretsProvider is called with. There is a channel of events if K8s
\* Secrets are found by their label.
ProviderRefreshConfig ==
    [Mode |-> getContainerMode, RunOnce |-> RunOnce,
     SecretRefreshInterval |-> secretsConfig.SecretsRefreshInterval,
     InformerEvents |-> ~RunOnce /\ secretsConfig.StoreType = "k8s_secrets"
                        /\ secretsConfig.RequiredK8sSecrets = {},
     RetryIntervalSec |-> secretsConfig.RetryIntervalSec,
     RetryCountLimit |-> secretsConfig.RetryCountLimit]

\* The server and the informer are started, and the scheduler is called.
callRunSecretsProvider ==
    /\ pc = "server"
    /\ pc' = "run"
    /\ refresh' = ProviderRefreshConfig
    /\ UNCHANGED <<input, annotationsMap, groupAnnots, secretsConfig, secretGroups, exitCode>>

Next ==
    processAnnotations \/ secretRetriever \/ secretsProvider \/ serverFails \/ callRunSecretsProvider

Spec == Init /\ [][Next]_vars

-----------------------------------------------------------------------------
(***************************************************************************)
(* Properties of a process that runs.                                      *)
(***************************************************************************)
LoopMode(mode) == IF mode \in {"sidecar", "standalone"} THEN mode ELSE "once"

\* The three places that work out the container mode agree on whether the
\* process loops and is standalone: what was validated is what runs.
ModeAsValidated ==
    /\ LoopMode(refresh.Mode) = LoopMode(secretsConfig.ContainerMode)
    /\ LoopMode(refresh.Mode) = LoopMode(customEnv)

\* Secrets are refreshed exactly if the annotations ask for it, never in a
\* process that runs once, and no more often than every second. Asking means an
\* interval or the spelling "true"; other spellings of true are accepted and
\* have no effect.
RefreshAsConfigured ==
    /\ refresh.SecretRefreshInterval # 0 <=>
          Annot("secrets-refresh-interval") # "" \/ Annot("secrets-refresh-enabled") = "true"
    /\ refresh.SecretRefreshInterval # 0 =>
          ~refresh.RunOnce /\ refresh.SecretRefreshInterval >= MinRefreshInterval

\* A standalone process has the event channel of the informer, since it serves
\* labelled K8s Secrets only; it retries without limit if nothing is set. The
\* exceptions are an annotation of blanks and an environment variable that has
\* blanks other than spaces: both pass the validation and are taken for names.
StandaloneByLabels ==
    refresh.Mode = "standalone" =>
        /\ refresh.InformerEvents \/ Annot("k8s-secrets") # "" \/ Env("k8s-secrets") \notin Spaces
        /\ Setting("retry-count-limit") = "" => refresh.RetryCountLimit = -1

\* What RunSecretsProvider is called with is what was validated and asked for,
\* although mode, refresh and store are each worked out in several functions.
RunsAsValidated == pc = "run" => ModeAsValidated /\ RefreshAsConfigured /\ StandaloneByLabels

\* Groups that pass the validation and fail in calls. There is no template, as
\* the annotation has none and the file is missing, or the file is empty; or all
\* variables are fetched and the template looks up the alias of the spec "*"; or
\* among other specs one has no alias, the alias "*" or the path "*", which its
\* secrets do not keep or do not match in number.
AcceptedInVain(sg) ==
    \/ sg.FileFormat = "template" /\ ~sg.FileTemplate.given
    \/ FetchAll(sg.SecretSpecs) /\ sg.FileTemplate.names # {}
    \/ /\ ~FetchAll(sg.SecretSpecs)
       /\ \E i \in DOMAIN sg.SecretSpecs :
             sg.SecretSpecs[i].Alias \in {"", "*"} \/ sg.SecretSpecs[i].Path = <<"*">>

\* The annotation of the group asks for a directory of that path.
AskedAsDirectory(path, sg) ==
    LET dirs == groupAnnots[sg.Name].dirs IN path = dirs \/ Above(path, dirs)

\* Nor is it seen that the file of one group is asked for as a directory, by another
\* group or by its own: "a" and "a/b", "a/.", and "." for the base path.
InTheWay(sg) ==
    \E x \in secretGroups :
        AskedAsDirectory(x.FilePath, sg) \/ AskedAsDirectory(sg.FilePath, x)

\* Secret groups that passed the validation at start never share a file, also
\* when file names are given by default; a call can open the file of each of them,
\* whichever groups were opened before and with the permissions it then has, and
\* can render it whenever its secrets are there, but for the groups named above; and
\* the formats that cannot have variable paths as keys never meet the spec "*",
\* unless it is given an alias.
GroupsUsable ==
    pc = "run" =>
        /\ \A x, y \in secretGroups : x.FilePath = y.FilePath => x = y
        /\ \A sg \in secretGroups :
              /\ Owner \subseteq sg.FilePermissions
              /\ AcceptedInVain(sg) \/ ~pushToFileFails(sg, SureAliases(sg.SecretSpecs))
              /\ \/ InTheWay(sg)
                 \/ \A done \in SUBSET secretGroups : ~openFileAsWriteCloserFails(sg, done)
              /\ FetchAll(sg.SecretSpecs) /\ sg.SecretSpecs[1].Alias = "*" =>
                    sg.FileFormat \notin {"bash", "dotenv", "properties"}
====
