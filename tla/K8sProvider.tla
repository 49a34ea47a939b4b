------------------------------ MODULE K8sProvider ------------------------------
(***************************************************************************)
(* The provider for Kubernetes Secrets: ProvideWithCleanup with its mutex, *)
(* its snapshot of the Secrets, the batch retrieval from Conjur, the       *)
(* checksums that suppress needless updates and the removal of keys that   *)
(* left a conjur-map. Users edit, delete and create Secrets and change     *)
(* Conjur while a call runs. The calls come from RunSecretsProvider: one   *)
(* at the start ("main"), then one per tick ("periodic") and per batch of  *)
(* informer events ("informer").                                           *)
(*                                                                         *)
(* A conjur-map gives each key a Conjur variable, nothing, or an entry     *)
(* that is neither a string nor a map with an id; its entry "*" stands for *)
(* all variables of the host. Annotations define secret groups: the key of *)
(* a group holds a template filled in with the values of its variables.    *)
(***************************************************************************)
EXTENDS Naturals, Sequences, BatchRetrieval

CONSTANTS
    Secrets,         \* names of Kubernetes Secrets
    Keys,            \* keys of their data
    Vars,            \* Conjur variables
    Values,          \* values of Conjur variables
    NoVar,           \* the key is not in the conjur-map
    BadEntry,        \* the key is in the conjur-map with an invalid entry
    Star,            \* the entry "*" of a conjur-map
    NoGroup,         \* the annotations define no group of this name
    BadSpecs,        \* they define one whose secret specs are invalid or empty
    Absent,          \* the key is not in the data
    Blank,           \* the key is in the data with an empty value
    Configs          \* the configurations that are considered

ASSUME SortsAssumption ==
    /\ NoVar \notin Vars /\ BadEntry \notin Vars /\ NoVar # BadEntry /\ Star \notin Keys
    /\ Absent \notin Values /\ Blank \notin Values /\ Absent # Blank

\* A group with its variables and its template, which cannot be rendered, is empty,
\* consists of the values alone, or has some text of its own.
Groups == [vars : (SUBSET Vars) \ {{}}, template : {"wrong", "empty", "values", "text"}]
ASSUME GroupsAssumption == NoGroup \notin Groups /\ BadSpecs \notin Groups /\ NoGroup # BadSpecs

\* What users write into a Secret: the entries of the conjur-map, which of them are
\* to be decoded, whether "*" is one of them, whether it is no YAML at all, and the
\* groups of the annotations.
Manifests ==
    {m \in [map : [Keys -> Vars \cup {NoVar, BadEntry}], base64 : SUBSET Keys,
            all : BOOLEAN, garbled : BOOLEAN, groups : [Keys -> Groups \cup {NoGroup, BadSpecs}]] :
        m.garbled => ~m.all /\ \A k \in Keys : m.map[k] = NoVar}

\* What is settled before the provider is called for the first time, and how
\* far the environment goes.
ConfigType ==
    [labelBased      : BOOLEAN,         \* len(requiredK8sSecrets) = 0
     sanitizeEnabled : BOOLEAN,         \* remove-deleted-secrets-enabled
     v2              : BOOLEAN,         \* the server offers the V2 batch API
     periodic        : BOOLEAN,         \* SecretRefreshInterval > 0
     lists           : BOOLEAN,         \* Conjur lists variables that may not be read
     decodes         : BOOLEAN,         \* the values are valid base64
     lookalike       : BOOLEAN,         \* texts of other errors may contain 403 or 404
     clientFails     : BOOLEAN,         \* the Kubernetes client may fail to be configured
     keyOf           : [Vars -> Keys],  \* normalizeK8sSecretName of the variables
     existing        : SUBSET Secrets,  \* the Secrets that exist at the start
     manifests       : SUBSET Manifests,  \* what users write
     deletes         : BOOLEAN,         \* users delete and create Secrets
     revokes         : BOOLEAN,         \* variables are removed or revoked
     maxChanges      : Nat]             \* bound on changes and faults

ASSUME ConfigAssumption == Configs \subseteq ConfigType

VARIABLES
    config,    \* the configuration, chosen once
    cluster,   \* the Secrets in the API server: status, conjur-map and data
    conjur,    \* values of the variables
    denied,    \* variables that do not exist or may not be read
    prevSecretsChecksums, \* Secret -> the data last written (its checksum)
    unsure,    \* history: the Secrets updated since their checksum was stored by an
               \* update whose answer was lost
    holder,    \* the goroutine that holds mu, or "none"
    step,      \* where the call under mu stands
    original,  \* originalK8sSecrets
    fresh,     \* the Secrets of the snapshot not written to since they were read
    dests,     \* updateDestinations: Secret -> key -> variable
    base64,    \* Secret -> the keys whose contentType is base64
    allDests,  \* the Secrets with a destination for "*"
    secretsGroups,  \* Secret -> key -> group
    asked,     \* the variables asked for
    newData,   \* newSecretsDataMap
    todo,      \* its Secrets that are still to be processed
    updated,   \* the updated result
    ret,       \* result of the last call
    changed,   \* history: the running call has written to a Secret
    started,   \* the initial call is over
    queue,     \* InformerEvents
    batch,     \* the informer goroutine owes a run
    keysToRemoveCumulative,
    changes    \* changes and faults so far

envVars  == <<cluster, conjur, denied>>
sumVars  == <<prevSecretsChecksums, unsure>>
destVars == <<dests, base64, allDests, secretsGroups>>
passVars == <<original, fresh, destVars, asked, newData, todo>>
infVars  == <<queue, batch, keysToRemoveCumulative>>
vars == <<config, envVars, sumVars, holder, step, passVars, updated, ret, changed,
          started, infVars, changes>>

-----------------------------------------------------------------------------
LabelBased      == config.labelBased
SanitizeEnabled == config.sanitizeEnabled
V2              == config.v2
Periodic        == config.periodic
Deletes         == config.deletes
KeyOf           == config.keyOf

\* What the template of a group becomes, unless it becomes empty.
Rendered == {"values", "text"} \X UNION {[S -> Values \cup {Blank}] : S \in SUBSET Vars}

\* What base64 makes of a value.
Decoded(value) == <<value>>

\* No key and an empty value are told apart from values that are not empty.
ASSUME ContentsAssumption ==
    {Absent, Blank} \cap ({Decoded(x) : x \in Values} \cup Rendered) = {}

DataValues == Values \cup {Decoded(x) : x \in Values} \cup {Absent, Blank} \cup Rendered
NoData   == [k \in Keys |-> Absent]
NoMap    == [k \in Keys |-> NoVar]
NoGroups == [k \in Keys |-> NoGroup]
NoManifest == [map |-> NoMap, base64 |-> {}, all |-> FALSE, garbled |-> FALSE, groups |-> NoGroups]
NoDests  == [s \in Secrets |-> NoMap]

\* What is known of a Secret that does not exist.
NoSecret == [status |-> "deleted", spec |-> NoManifest, data |-> NoData]

\* The keys of a conjur-map.
MapKeys(m) == {k \in Keys : m.map[k] # NoVar} \cup (IF m.all THEN {Star} ELSE {})
Invalid(m) == \E k \in Keys : m.map[k] = BadEntry
InvalidGroups(m) == \E k \in Keys : m.groups[k] = BadSpecs

\* f with f[x] = y, whether or not x was in its domain.
Put(f, x, y) == [z \in DOMAIN f \cup {x} |-> IF z = x THEN y ELSE f[z]]

\* A Go map without entries.
EmptyMap == [s \in {} |-> Absent]

Init ==
    /\ config \in Configs
    /\ \E m \in [config.existing -> config.manifests] :
          cluster = [s \in Secrets |->
                       IF s \in config.existing
                       THEN [status |-> "labelled", spec |-> m[s], data |-> NoData]
                       ELSE NoSecret]
    /\ conjur \in [Vars -> Values]
    /\ denied = {}
    /\ prevSecretsChecksums = EmptyMap /\ unsure = {}
    /\ holder = "none" /\ step = "idle"
    /\ original = EmptyMap /\ fresh = {}
    /\ dests = NoDests /\ base64 = [s \in Secrets |-> {}] /\ allDests = {}
    /\ secretsGroups = [s \in Secrets |-> NoGroups]
    /\ asked = {} /\ newData = [s \in Secrets |-> NoData] /\ todo = {}
    /\ updated = FALSE /\ changed = FALSE /\ ret = "none"
    /\ started = FALSE
    /\ queue = <<>> /\ batch = FALSE /\ keysToRemoveCumulative = EmptyMap
    /\ changes = 0

\* The state of a call is cleared.
ClearCall ==
    /\ holder' = "none" /\ step' = "idle"
    /\ original' = EmptyMap /\ fresh' = {}
    /\ dests' = NoDests /\ base64' = [s \in Secrets |-> {}] /\ allDests' = {}
    /\ secretsGroups' = [s \in Secrets |-> NoGroups]
    /\ asked' = {} /\ newData' = [s \in Secrets |-> NoData] /\ todo' = {}
    /\ updated' = FALSE /\ changed' = FALSE

\* The environment acts at most config.maxChanges times.
Change == changes < config.maxChanges /\ changes' = changes + 1

-----------------------------------------------------------------------------
(***************************************************************************)
(* ProvideWithCleanup.                                                     *)
(***************************************************************************)
\* The keysToRemove argument: only the informer goroutine passes one.
keysToRemove == IF holder = "informer" THEN keysToRemoveCumulative ELSE EmptyMap

Wants(c) ==
    \/ c = "main" /\ ~started
    \/ c = "periodic" /\ started /\ Periodic
    \/ c = "informer" /\ started /\ batch

\* Goroutine c calls the provider and takes mu.
Lock(c) ==
    /\ holder = "none" /\ step = "idle" /\ Wants(c)
    /\ holder' = c
    /\ step' = "retrieve"
    /\ todo' = IF LabelBased THEN {} ELSE Secrets
    /\ ret' = "none"
    /\ UNCHANGED <<config, envVars, sumVars, original, fresh, destVars, asked, newData,
                   updated, changed, started, infVars, changes>>

Fail ==
    /\ step' = "return" /\ ret' = "error"
    /\ todo' = {}
    /\ UNCHANGED <<config, envVars, sumVars, holder, original, fresh, destVars,
                   asked, newData, updated, changed, started, infVars>>

\* The Kubernetes API refuses the list or a get.
RetrieveFails ==
    /\ step = "retrieve"
    /\ Change
    /\ Fail

\* The process dies.
Panic ==
    /\ step' = "panic"
    /\ UNCHANGED <<config, envVars, sumVars, holder, passVars, updated, ret, changed, started, infVars>>

\* The entries of m that are variables.
Destinations(m) == [k \in Keys |-> IF m.map[k] \in Vars THEN m.map[k] ELSE NoVar]

Labelled == {s \in Secrets : cluster[s].status = "labelled"}

\* Mutant: the conjur-map is parsed before the groups.
MapBeforeGroups(m) == IF Invalid(m) THEN {NoMap} ELSE {Destinations(m)}
\* retrieveRequiredK8sSecret leaves these destinations: none if the groups are
\* invalid; else refreshUpdateDestinations visits the entries of the conjur-map
\* in any order and stops at the first invalid one; what it appended stays.
DestinationsOf(m) ==
    IF InvalidGroups(m) THEN {NoMap}
    ELSE IF ~Invalid(m) THEN {Destinations(m)}
    ELSE {d \in [Keys -> Vars \cup {NoVar}] :
             \A k \in Keys : d[k] \in {Destinations(m)[k], NoVar}}

\* The groups that processSecretGroupAnnotations records.
RecordedGroups(m) == IF InvalidGroups(m) THEN NoGroups ELSE m.groups
WithGroups == {s \in Labelled : RecordedGroups(cluster[s].spec) # NoGroups}

\* A conjur-map that is no YAML is an error unless a group was recorded before,
\* be it of another Secret. The Secrets are listed in any order.
MayBeSkipped(s) ==
    LET m == cluster[s].spec
    IN  InvalidGroups(m) \/ Invalid(m) \/ (m.garbled /\ m.groups = NoGroups)
MustBeSkipped(s) ==
    LET m == cluster[s].spec
    IN  InvalidGroups(m) \/ Invalid(m) \/ (m.garbled /\ WithGroups = {})

\* Mutant: a Secret that is skipped stays in the snapshot.
KeepSkipped(s) == FALSE
MaySkip(s) == MayBeSkipped(s)

SkippedSets ==
    {S \in SUBSET Labelled : \A s \in Labelled :
        (s \in S => MaySkip(s)) /\ (MaySkip(s) /\ MustBeSkipped(s) => s \in S)}

\* Nothing to update and nothing to remove.
NothingToDo ==
    /\ dests' = NoDests /\ allDests' = {} /\ WithGroups = {}
    /\ DOMAIN keysToRemove = {}

\* listLabeledSecrets returns one consistent list. A Secret that is invalid is
\* skipped, one without conjur-map and groups has no destinations.
ListLabelled ==
    /\ step = "retrieve" /\ LabelBased
    /\ \E skipped \in SkippedSets :
          original' = [s \in Labelled \ skipped |->
                         [spec |-> cluster[s].spec, data |-> cluster[s].data]]
    /\ fresh' = Labelled
    /\ dests' \in {d \in [Secrets -> [Keys -> Vars \cup {NoVar}]] :
                     \A s \in Secrets :
                        IF s \in Labelled THEN d[s] \in DestinationsOf(cluster[s].spec)
                        ELSE d[s] = NoMap}
    /\ base64' = [s \in Secrets |-> IF s \in Labelled THEN cluster[s].spec.base64 ELSE {}]
    /\ \E A \in SUBSET {s \in Labelled : cluster[s].spec.all /\ ~InvalidGroups(cluster[s].spec)} :
          /\ \A s \in Labelled : cluster[s].spec.all /\ ~MayBeSkipped(s) => s \in A
          /\ allDests' = A
    /\ secretsGroups' = [s \in Secrets |-> IF s \in Labelled THEN RecordedGroups(cluster[s].spec)
                                           ELSE NoGroups]
    /\ IF NothingToDo
       THEN step' = "return" /\ ret' = "unchanged"
       ELSE step' = "list" /\ ret' = ret
    /\ UNCHANGED <<config, envVars, sumVars, holder, asked, newData, todo, updated,
                   changed, started, infVars, changes>>

\* A required Secret must exist, its groups and the entries of its conjur-map must
\* be valid, and it must have one or the other, unless a Secret read before has groups.
Unusable(s) ==
    LET m == cluster[s].spec
    IN  \/ cluster[s].status = "deleted"
        \/ InvalidGroups(m) \/ Invalid(m)
        \/ /\ MapKeys(m) = {} /\ m.groups = NoGroups
           /\ \A t \in Secrets : secretsGroups[t] = NoGroups

\* retrieveSecret reads the required Secrets one after the other.
RetrieveRequired(s) ==
    /\ step = "retrieve" /\ s \in todo /\ ~Unusable(s)
    /\ original' = Put(original, s, [spec |-> cluster[s].spec, data |-> cluster[s].data])
    /\ fresh' = fresh \cup {s}
    /\ dests' = [dests EXCEPT ![s] = Destinations(cluster[s].spec)]
    /\ base64' = [base64 EXCEPT ![s] = cluster[s].spec.base64]
    /\ allDests' = IF cluster[s].spec.all THEN allDests \cup {s} ELSE allDests
    /\ secretsGroups' = [secretsGroups EXCEPT ![s] = cluster[s].spec.groups]
    /\ todo' = todo \ {s}
    /\ step' = IF todo' = {} THEN "list" ELSE "retrieve"
    /\ UNCHANGED <<config, envVars, sumVars, holder, asked, newData, updated, ret,
                   changed, started, infVars, changes>>

RequiredUnusable(s) ==
    /\ step = "retrieve" /\ s \in todo /\ Unusable(s)
    /\ Fail
    /\ UNCHANGED changes

-----------------------------------------------------------------------------
(***************************************************************************)
(* retrieveConjurSecrets, createSecretData and                             *)
(* populateGroupTemplateSecretData.                                        *)
(***************************************************************************)
GroupVars(s) == UNION {secretsGroups[s][k].vars : k \in {x \in Keys : secretsGroups[s][x] \in Groups}}

\* listConjurSecretsToFetch; with "*", all variables that Conjur lists.
Requested ==
    IF allDests # {} THEN (IF config.lists THEN Vars ELSE Vars \ denied)
    ELSE {v \in Vars : \E s \in Secrets : v \in GroupVars(s) \/ \E k \in Keys : dests[s][k] = v}

ListVariables ==
    /\ step = "list"
    /\ asked' = Requested
    /\ step' = "fetch"
    /\ UNCHANGED <<config, envVars, sumVars, holder, original, fresh, destVars,
                   newData, todo, updated, ret, changed, started, infVars, changes>>

\* Mutant: a missing variable is blanked without regard to the setting.
BlankMissing(v) == Blank
MissingValue(v) == IF SanitizeEnabled THEN Blank ELSE Absent

\* The value to be written for variable v when Conjur returned those in got.
ValueFor(v, got) ==
    IF v = NoVar THEN Absent ELSE IF v \in got THEN conjur[v] ELSE MissingValue(v)

\* A value that cannot be decoded is provided as it is.
Content(value, decode) ==
    IF decode /\ config.decodes /\ value \in Values THEN Decoded(value) ELSE value

\* The first of the variables with the same key wins, in any order.
FirstOf(got) ==
    {f \in [Keys -> got \cup {NoVar}] :
        \A k \in Keys : IF \E v \in got : KeyOf[v] = k THEN f[k] \in got /\ KeyOf[f[k]] = k
                        ELSE f[k] = NoVar}

\* Mutant: a key is wiped although it was fetched.
WipeExisting(s, k, value) ==
    IF SanitizeEnabled /\ original[s].data[k] # Absent THEN Blank ELSE value
\* With sanitization, keys that were not fetched are wiped.
WipeStale(s, k, value) ==
    IF value = Absent /\ SanitizeEnabled /\ original[s].data[k] # Absent THEN Blank ELSE value

createSecretData(got, first) ==
    [s \in Secrets |-> [k \in Keys |->
        LET value == Content(ValueFor(dests[s][k], got), k \in base64[s])
        IN  IF value # Absent \/ s \notin allDests THEN value
            ELSE WipeStale(s, k, ValueFor(first[k], got))]]

\* The content of a group: a variable that was not returned is empty in it.
Render(g, value) ==
    IF g.template = "empty" \/ (g.template = "values" /\ \A v \in g.vars : value[v] = Blank)
    THEN Blank ELSE <<g.template, value>>

\* A group whose template cannot be rendered leaves the key as it was. Empty or not
\* does not depend on sanitizeEnabled.
populateGroupTemplateSecretData(got, data) ==
    [s \in Secrets |-> [k \in Keys |->
        LET g == secretsGroups[s][k]
        IN  IF g \in Groups /\ g.template # "wrong" /\ s \in DOMAIN original
            THEN Render(g, [v \in g.vars |-> IF v \in got THEN conjur[v] ELSE Blank])
            ELSE data[s][k]]]

\* The Secrets with something to write, and those that only have keys to remove.
ToProcess(data) ==
    {s \in Secrets : data[s] # NoData \/ s \in DOMAIN keysToRemove \cap DOMAIN original}

\* The keys of a Secret that was skipped are looked up to be wiped: its nil pointer
\* is followed.
NilInWipe == SanitizeEnabled /\ ~(allDests \subseteq DOMAIN original)

RetrieveSecrets ==
    /\ step = "fetch" /\ Returned(asked, denied, V2) # {} /\ ~NilInWipe
    /\ \E first \in FirstOf(Returned(asked, denied, V2)) :
          LET got == Returned(asked, denied, V2)
          IN  newData' = populateGroupTemplateSecretData(got, createSecretData(got, first))
    /\ todo' = ToProcess(newData')
    /\ step' = "update"
    /\ UNCHANGED <<config, envVars, sumVars, holder, original, fresh, destVars, asked,
                   updated, ret, changed, started, infVars, changes>>

DeniedStatus == StatusError(asked, denied, V2)

\* removeDeletedSecrets: every destination is set to the empty value and every
\* group rendered without values; keysToRemove plays no part.
RemoveAll ==
    /\ step' = "remove"
    /\ newData' = populateGroupTemplateSecretData({},
                     [s \in Secrets |-> [k \in Keys |->
                        IF dests[s][k] # NoVar THEN Blank
                        ELSE IF s \in allDests THEN WipeStale(s, k, Absent) ELSE Absent]])
    /\ todo' = {s \in Secrets : newData'[s] # NoData \/ s \in allDests}
    /\ updated' = TRUE
    /\ UNCHANGED <<config, envVars, sumVars, holder, original, fresh, destVars, asked,
                   ret, changed, started, infVars>>

RemoveDeletedSecrets ==
    /\ step = "fetch" /\ DeniedStatus /\ SanitizeEnabled /\ ~NilInWipe
    /\ RemoveAll
    /\ UNCHANGED changes

\* The text of another error, such as a URL with names of variables, contains
\* 403 or 404.
RemoveByMistake ==
    /\ step = "fetch" /\ config.lookalike /\ SanitizeEnabled /\ ~NilInWipe
    /\ Change
    /\ RemoveAll

WipeNil ==
    /\ step = "fetch" /\ NilInWipe
    /\ \/ (Returned(asked, denied, V2) # {} \/ DeniedStatus) /\ UNCHANGED changes
       \/ config.lookalike /\ Change
    /\ Panic

\* No variables to retrieve, none retrieved, or denied and left alone.
NothingRetrieved ==
    /\ step = "fetch" /\ Returned(asked, denied, V2) = {}
    /\ DeniedStatus => ~SanitizeEnabled
    /\ Fail
    /\ UNCHANGED changes

\* Authentication, the list of variables or the retrieval fails for another reason.
ConjurFails ==
    /\ step \in {"list", "fetch"}
    /\ Change
    /\ Fail

-----------------------------------------------------------------------------
(***************************************************************************)
(* updateRequiredK8sSecretsWithCleanup, in any order of the Secrets.       *)
(***************************************************************************)
\* Mutant: a Secret is written once.
NeverWritten(s) == s \notin DOMAIN prevSecretsChecksums
ContentHasChanged(s) ==
    s \in DOMAIN prevSecretsChecksums => prevSecretsChecksums[s] # newData[s]

\* Mutant: the object is written whatever its version.
AnyVersion(s) == cluster[s].status # "deleted"
\* The API server takes an update only of the version that was read.
SameVersion(s) == s \in fresh

RemovedKeys(s) ==
    IF step = "update" /\ s \in DOMAIN keysToRemove THEN keysToRemove[s] ELSE {}

\* Mutant: the keys are removed after the new values are in place.
RemoveLast(s) ==
    [k \in Keys |-> IF k \in RemovedKeys(s) THEN Absent
                    ELSE IF newData[s][k] # Absent THEN newData[s][k]
                    ELSE original[s].data[k]]
\* Mutant: the keys are not removed.
KeepRemoved(s) ==
    [k \in Keys |-> IF newData[s][k] # Absent THEN newData[s][k] ELSE original[s].data[k]]
\* The snapshot's data without the removed keys, then the new entries.
UpdatedData(s) ==
    [k \in Keys |-> IF newData[s][k] # Absent THEN newData[s][k]
                    ELSE IF k \in RemovedKeys(s) THEN Absent
                    ELSE original[s].data[k]]

SkipUnchanged(s) ==
    /\ step \in {"update", "remove"} /\ s \in todo
    /\ ~ContentHasChanged(s)
    /\ todo' = todo \ {s}
    /\ UNCHANGED <<config, envVars, sumVars, holder, step, original, fresh,
                   destVars, asked, newData, updated, ret, changed, started, infVars, changes>>

\* Mutant: the result of the last Secret only.
UpdatedUnlessMore(s) == todo = {s}
UpdatedAfter(s) == TRUE

\* removeDeletedSecrets takes "*" for a variable, whose key becomes "." and is
\* not a valid one.
InvalidKey(s) == step = "remove" /\ s \in allDests

\* The API server takes the update.
Applied(s) ==
    /\ step \in {"update", "remove"} /\ s \in todo
    /\ ContentHasChanged(s) /\ s \in DOMAIN original
    /\ SameVersion(s) /\ ~InvalidKey(s)
    /\ cluster' = [cluster EXCEPT ![s].spec = original[s].spec, ![s].data = UpdatedData(s)]
    /\ fresh' = fresh \ {s}
    /\ changed' = TRUE
    /\ UNCHANGED <<config, conjur, denied, holder, original, destVars, asked, newData, started, infVars>>

updateSecret(s) ==
    /\ Applied(s)
    /\ prevSecretsChecksums' = Put(prevSecretsChecksums, s, newData[s])
    /\ unsure' = unsure \ {s}
    /\ updated' = UpdatedAfter(s)
    /\ todo' = todo \ {s}
    /\ UNCHANGED <<step, ret, changes>>

\* Mutant: the checksum is stored before the update.
ChecksumFirst(s) == Put(prevSecretsChecksums, s, newData[s])
ChecksumsAfterError(s) == prevSecretsChecksums

\* The call ends with an error, and Secrets updated before keep their updates.
UpdateError(s) ==
    /\ step' = "return" /\ ret' = "error" /\ todo' = {}
    /\ prevSecretsChecksums' = ChecksumsAfterError(s)
    /\ updated' = (step = "remove")

\* The update is refused: a conflict, the Secret is gone, an invalid key, or
\* another fault.
UpdateFails(s) ==
    /\ step \in {"update", "remove"} /\ s \in todo
    /\ ContentHasChanged(s) /\ s \in DOMAIN original
    /\ \/ (InvalidKey(s) \/ ~SameVersion(s)) /\ UNCHANGED changes
       \/ SameVersion(s) /\ ~InvalidKey(s) /\ Change
    /\ UpdateError(s)
    /\ UNCHANGED <<config, envVars, unsure, holder, original, fresh, destVars, asked, newData, changed,
                   started, infVars>>

\* The update is applied but its answer is lost: the call ends with the same error,
\* and the checksum, if there is one, stays that of older data.
AnswerLost(s) ==
    /\ Applied(s)
    /\ Change
    /\ UpdateError(s)
    /\ unsure' = unsure \cup ({s} \cap DOMAIN prevSecretsChecksums)

\* There is no original for a Secret that was skipped with some destinations
\* appended: its nil pointer is followed and the process dies.
NilOriginal(s) ==
    /\ step \in {"update", "remove"} /\ s \in todo
    /\ ContentHasChanged(s) /\ s \notin DOMAIN original
    /\ Panic
    /\ UNCHANGED changes

\* The Kubernetes client cannot be configured, for want of a service account token
\* say. The error is dropped and the nil client used.
NoClient ==
    /\ config.clientFails
    /\ \/ step = "retrieve"
       \/ step \in {"update", "remove"} /\ \E s \in todo : ContentHasChanged(s)
    /\ Change
    /\ Panic

UpdatesDone ==
    /\ step \in {"update", "remove"} /\ todo = {}
    /\ step' = "return"
    /\ ret' = IF step = "remove" THEN "error" ELSE IF updated THEN "updated" ELSE "unchanged"
    /\ UNCHANGED <<config, envVars, sumVars, holder, passVars, updated,
                   changed, started, infVars, changes>>

\* The informer goroutine forgets its keys and its batch after a run. A run
\* without keys goes through the retry wrapper, which may call again.
InformerAfterRun ==
    IF holder = "informer"
    THEN /\ keysToRemoveCumulative' = EmptyMap
         /\ batch' \in (IF ret = "error" /\ DOMAIN keysToRemove = {} THEN BOOLEAN ELSE {FALSE})
         /\ UNCHANGED queue
    ELSE UNCHANGED infVars

\* The deferred function clears the state of the call and releases mu. The
\* initial call is retried on an error, or given up.
Unlock ==
    /\ step = "return"
    /\ ClearCall
    /\ started' \in (IF holder = "main" /\ ret = "error" THEN BOOLEAN ELSE {TRUE})
    /\ InformerAfterRun
    /\ UNCHANGED <<config, envVars, sumVars, ret, changes>>

ProviderStep ==
    \/ ListLabelled \/ ListVariables \/ RetrieveSecrets \/ RemoveDeletedSecrets \/ WipeNil
    \/ NothingRetrieved \/ UpdatesDone \/ Unlock
    \/ \E s \in Secrets :
          \/ RetrieveRequired(s) \/ RequiredUnusable(s)
          \/ SkipUnchanged(s) \/ updateSecret(s) \/ UpdateFails(s) \/ NilOriginal(s)

-----------------------------------------------------------------------------
(***************************************************************************)
(* informerTriggeredProvider: what it accumulates from its events.         *)
(***************************************************************************)
\* MergeReAddedKeys, then the result of GetRemovedKeys appended.
MergeKeys(cumulative, e) ==
    LET kept == [s \in DOMAIN cumulative |->
                    IF s = e.secret THEN cumulative[s] \ e.added ELSE cumulative[s]]
        removed == IF SanitizeEnabled THEN e.removed ELSE {}
    IN IF removed = {} THEN kept
       ELSE Put(kept, e.secret,
                removed \cup (IF e.secret \in DOMAIN kept THEN kept[e.secret] ELSE {}))

TakeEvent ==
    /\ started /\ holder # "informer" /\ queue # <<>>
    /\ keysToRemoveCumulative' = MergeKeys(keysToRemoveCumulative, Head(queue))
    /\ queue' = Tail(queue)
    /\ batch' = TRUE
    /\ UNCHANGED <<config, envVars, sumVars, holder, step, passVars, updated,
                   ret, changed, started, changes>>

-----------------------------------------------------------------------------
(***************************************************************************)
(* Users of the cluster and of Conjur; the container runtime.              *)
(***************************************************************************)
\* A write of a user makes every copy read before stale.
Touch(s) == fresh' = fresh \ {s}

\* onAdd and onUpdate: an event if the Secret now is labelled and was not, or
\* if its conjur-map or its groups changed. It carries what the two conjur-maps
\* differ in.
Notify(s) ==
    LET old == cluster[s]
        new == cluster'[s]
    IN IF /\ LabelBased /\ new.status = "labelled"
          /\ old.status # "labelled" \/ old.spec # new.spec
       THEN queue' = Append(queue,
              IF old.status = "deleted"
              THEN [secret |-> s, removed |-> {}, added |-> {}]
              ELSE [secret |-> s, removed |-> MapKeys(old.spec) \ MapKeys(new.spec),
                                  added   |-> MapKeys(new.spec) \ MapKeys(old.spec)])
       ELSE UNCHANGED queue

UserWrite(s) ==
    /\ Change
    /\ Touch(s)
    /\ Notify(s)
    /\ UNCHANGED <<config, conjur, denied, sumVars, holder, step, original,
                   destVars, asked, newData, todo, updated, ret, changed, started, batch,
                   keysToRemoveCumulative>>

EditMap(s) ==
    /\ cluster[s].status # "deleted"
    /\ \E m \in config.manifests \ {cluster[s].spec} : cluster' = [cluster EXCEPT ![s].spec = m]
    /\ UserWrite(s)

Relabel(s) ==
    /\ LabelBased /\ cluster[s].status # "deleted"
    /\ cluster' = [cluster EXCEPT ![s].status = IF @ = "labelled" THEN "unlabelled" ELSE "labelled"]
    /\ UserWrite(s)

Delete(s) ==
    /\ Deletes /\ cluster[s].status # "deleted"
    /\ cluster' = [cluster EXCEPT ![s] = NoSecret]
    /\ UserWrite(s)

\* The Secret is created from a manifest, without data.
Create(s) ==
    /\ Deletes /\ cluster[s].status = "deleted"
    /\ \E m \in config.manifests :
          cluster' = [cluster EXCEPT ![s].status = "labelled", ![s].spec = m]
    /\ UserWrite(s)

ConjurChange ==
    /\ Change
    /\ UNCHANGED <<config, cluster, sumVars, holder, step, passVars, updated,
                   ret, changed, started, infVars>>

Rotate(v) ==
    /\ \E x \in Values \ {conjur[v]} : conjur' = [conjur EXCEPT ![v] = x]
    /\ UNCHANGED denied
    /\ ConjurChange

Revoke(v) ==
    /\ config.revokes /\ v \notin denied
    /\ denied' = denied \cup {v} /\ UNCHANGED conjur
    /\ ConjurChange
Grant(v) ==
    /\ v \in denied
    /\ denied' = denied \ {v} /\ UNCHANGED conjur
    /\ ConjurChange

\* The process is killed, or has died, and starts again with empty memory.
Restart ==
    /\ IF step = "panic" THEN UNCHANGED changes ELSE Change
    /\ ClearCall
    /\ prevSecretsChecksums' = EmptyMap /\ unsure' = {}
    /\ ret' = "none" /\ started' = FALSE
    /\ queue' = <<>> /\ batch' = FALSE /\ keysToRemoveCumulative' = EmptyMap
    /\ UNCHANGED <<config, envVars>>

Environment ==
    \/ RetrieveFails \/ ConjurFails \/ RemoveByMistake \/ NoClient \/ Restart
    \/ \E s \in Secrets : AnswerLost(s) \/ EditMap(s) \/ Relabel(s) \/ Delete(s) \/ Create(s)
    \/ \E v \in Vars : Rotate(v) \/ Revoke(v) \/ Grant(v)

-----------------------------------------------------------------------------
Callers == {"main", "periodic", "informer"}

Next == ProviderStep \/ TakeEvent \/ Environment \/ \E c \in Callers : Lock(c)

Spec == Init /\ [][Next]_vars

\* A call that is running runs on, ticks and events are served, a process that
\* died is started again. The environment need not act.
Fairness ==
    /\ WF_vars(ProviderStep) /\ WF_vars(TakeEvent)
    /\ \A c \in Callers : SF_vars(Lock(c))
    /\ WF_vars(step = "panic" /\ Restart)

FairSpec == Spec /\ Fairness

-----------------------------------------------------------------------------
(***************************************************************************)
(* Properties.                                                             *)
(***************************************************************************)
Steps == {"idle", "retrieve", "list", "fetch", "update", "remove", "return", "panic"}
MapNames == Keys \cup {Star}
PartialFunction(f, S, T) == DOMAIN f \subseteq S /\ f \in [DOMAIN f -> T]

ClusterType ==
    cluster \in [Secrets -> [status : {"labelled", "unlabelled", "deleted"},
                             spec : config.manifests \cup {NoManifest}, data : [Keys -> DataValues]]]

\* Every variable holds a value of its Go type, and the calls stay within the
\* Secrets, keys and variables they are given.
TypeOK ==
    /\ config \in Configs
    /\ ClusterType
    /\ conjur \in [Vars -> Values] /\ denied \subseteq Vars
    /\ PartialFunction(prevSecretsChecksums, Secrets, [Keys -> DataValues]) /\ unsure \subseteq Secrets
    /\ holder \in Callers \cup {"none"} /\ step \in Steps
    /\ PartialFunction(original, Secrets, [spec : config.manifests, data : [Keys -> DataValues]])
    /\ fresh \subseteq Secrets
    /\ dests \in [Secrets -> [Keys -> Vars \cup {NoVar}]] /\ base64 \in [Secrets -> SUBSET Keys]
    /\ allDests \subseteq Secrets
    /\ secretsGroups \in [Secrets -> [Keys -> Groups \cup {NoGroup}]]
    /\ asked \subseteq Vars
    /\ newData \in [Secrets -> [Keys -> DataValues]]
    /\ todo \subseteq Secrets
    /\ updated \in BOOLEAN /\ changed \in BOOLEAN /\ started \in BOOLEAN
    /\ ret \in {"none", "error", "updated", "unchanged"}
    /\ queue \in Seq([secret : Secrets, removed : SUBSET MapNames, added : SUBSET MapNames])
    /\ batch \in BOOLEAN
    /\ PartialFunction(keysToRemoveCumulative, Secrets, SUBSET MapNames)
    /\ changes \in 0..config.maxChanges

\* A step of users or of Conjur: it counts as a change and leaves the call where it is.
Outside == changes' # changes /\ UNCHANGED <<step, todo>>

\* The provider never overwrites what a user wrote to a manifest, a label or a
\* deletion while its call was running: only a step of a user changes them, be the
\* answer to an update received or lost.
UserEditsSurvive ==
    [][\A s \in Secrets :
          cluster'[s].spec # cluster[s].spec \/ cluster'[s].status # cluster[s].status
             => Outside]_vars

\* As long as nobody deletes a Secret, the checksum stored for it is that of
\* entries it still has (prevSecretsChecksums), whatever failed and whenever, but
\* for a later update that was applied although its answer was lost.
ChecksumsHonest ==
    ~Deletes => \A s \in DOMAIN prevSecretsChecksums \ unsure, k \in Keys :
        prevSecretsChecksums[s][k] # Absent => cluster[s].data[k] = prevSecretsChecksums[s][k]

\* As long as nobody deletes a Secret, a call that returns no error has left
\* every entry it computed in its Secret, also those it did not write because
\* of an equal checksum. The exception is a Secret that was last updated with its
\* answer lost and now has the checksum from before: nothing is written to it.
CallDelivers ==
    (~Deletes /\ step = "return" /\ ret # "error") =>
        \A s \in Secrets, k \in Keys :
            newData[s][k] # Absent => cluster[s].data[k] = newData[s][k] \/ s \in unsure

\* A key that is in the conjur-map of a Secret is not taken out of its data,
\* even if it was removed from the conjur-map and added again.
MappedKeysStay ==
    [][\A s \in Secrets, k \in Keys :
          (/\ ~Outside
           /\ cluster[s].data[k] # Absent /\ cluster'[s].data[k] = Absent)
              => cluster[s].spec.map[k] = NoVar]_vars

\* Malformed whatever other Secrets there are: only a group saves a conjur-map
\* that is no YAML.
Malformed(m) ==
    Invalid(m) \/ InvalidGroups(m) \/ (m.garbled /\ \A n \in config.manifests : n.groups = NoGroups)

\* A Secret whose conjur-map or groups are malformed is skipped: whatever was taken
\* from its other entries or is to be removed, its data stay as they are.
InvalidUntouched ==
    [][\A s \in Secrets :
          Malformed(cluster[s].spec) /\ ~Outside => cluster'[s].data = cluster[s].data]_vars

\* The manifest gives the key a value: by a group, by name or with "*".
Provides(m, k) ==
    LET g == m.groups[k]
    IN  IF g \in Groups /\ g.template # "wrong" THEN g.template # "empty"
        ELSE m.map[k] \in Vars \/ (m.all /\ \E v \in Vars : KeyOf[v] = k)

\* As long as no variable is removed or revoked, and no other error is taken for
\* that, no call empties a key that the manifest of its Secret provides, whatever
\* it wipes and however stale its snapshot is.
BlankedOnlyIfRevoked ==
    [][(~config.revokes /\ ~config.lookalike /\ ~Outside) =>
          \A s \in Secrets, k \in Keys :
             cluster[s].data[k] \notin {Absent, Blank} /\ cluster'[s].data[k] = Blank
                => ~Provides(cluster[s].spec, k)]_vars

\* A group without any text of its own, whose content may be empty.
MayRenderEmpty(g) == g \in Groups /\ g.template \in {"empty", "values"}

\* Without sanitization a value that was provided is not removed or emptied, unless
\* a group without text of its own has the key: its missing variables are empty.
NothingLostUnsanitized ==
    [][(~SanitizeEnabled /\ ~Outside) =>
          \A s \in Secrets, k \in Keys :
             cluster[s].data[k] \notin {Absent, Blank} /\ ~MayRenderEmpty(cluster[s].spec.groups[k])
                => cluster'[s].data[k] \notin {Absent, Blank}]_vars

Contract == INSTANCE ProviderContract WITH
    busy <- holder # "none",
    ret  <- IF step = "idle" THEN ret ELSE "none"

\* The calls implement the contract the scheduler relies on: they do not
\* overlap, and a call that wrote a Secret and returns no error says so.
ImplementsContract == Contract!Spec

\* The variables that a call would ask for now.
Wanted ==
    LET specs == {cluster[s].spec : s \in Labelled}
        named(m) == {m.map[k] : k \in Keys} \cup UNION {m.groups[k].vars : k \in {x \in Keys : m.groups[x] \in Groups}}
    IN  IF \E m \in specs : m.all THEN (IF config.lists THEN Vars ELSE Vars \ denied)
        ELSE Vars \cap UNION {named(m) : m \in specs}

\* What a Secret should hold: the current value of each variable, and the empty
\* value for one that was removed or revoked, with V1 for all of them. A call that
\* gets nothing, and no status that explains it, leaves the Secrets alone, and so
\* does removeDeletedSecrets if there is a "*".
Synced ==
    LET got == Returned(Wanted, denied, V2)
        value(v) == IF v \in got THEN conjur[v] ELSE Blank
        all == \E s \in Labelled : cluster[s].spec.all
    IN  (got # {} \/ (StatusError(Wanted, denied, V2) /\ ~all)) =>
          \A s \in Labelled \ unsure, k \in Keys :
             LET m == cluster[s].spec
                 d == cluster[s].data[k]
             IN  /\ m.groups[k] \in Groups /\ m.groups[k].template # "wrong" =>
                       d = Render(m.groups[k], [v \in m.groups[k].vars |-> value(v)])
                 /\ m.groups[k] = NoGroup /\ m.map[k] \in Vars =>
                       d = Content(value(m.map[k]), k \in m.base64)
                 /\ m.groups[k] = NoGroup /\ m.map[k] = NoVar /\ m.all =>
                       IF \E v \in got : KeyOf[v] = k
                       THEN \E v \in got : KeyOf[v] = k /\ d = conjur[v]
                       ELSE d \in {Absent, Blank}

\* Once users, Conjur and the network are quiet, every labelled Secret that is
\* refreshed periodically ends up with what it should hold and keeps it, but for
\* one whose last update lost its answer: the checksum from before may be right
\* again, and then nothing is written.
Converges == <>[](Periodic => Synced)

\* The key is in the data of a labelled Secret but no longer in its conjur-map.
Leftover(s, k) ==
    cluster[s].status = "labelled" /\ cluster[s].spec.map[k] = NoVar /\ cluster[s].data[k] # Absent

\* "If a key is removed from the conjur-map, the corresponding application
\* secret will be deleted from the Kubernetes Secret's data": without periodic
\* calls, if variables remain to be fetched, nothing else provides the key and
\* nothing happens besides the edit.
RemovedKeysDeleted ==
    \A s \in Secrets, k \in Keys :
        (/\ Leftover(s, k) /\ changes = 1
         /\ ~Periodic /\ \E t \in Labelled : Destinations(cluster[t].spec) # NoMap
         /\ \A m \in config.manifests : ~m.all /\ m.groups = NoGroups)
            ~> (~Leftover(s, k) \/ changes # 1)

\* If the Kubernetes client can always be configured, the process dies only where a
\* conjur-map has an invalid entry: no invalid group, conjur-map that is no YAML,
\* relabelled or deleted Secret, "*" or key to remove leads a call to a Secret
\* without original.
PanicsOnlyIfInvalid ==
    (~config.clientFails /\ \A m \in config.manifests : ~Invalid(m)) => step # "panic"

\* "skip invalid secrets and continue processing others instead of failing the
\* entire operation"
InvalidSkipped == step # "panic"
====
