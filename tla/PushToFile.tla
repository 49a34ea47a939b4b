------------------------------ MODULE PushToFile ------------------------------
(***************************************************************************)
(* The push-to-file provider: provideWithDeps fetches the secrets of all   *)
(* groups and writes one file per group, in order, through the atomic      *)
(* writer. prevFileChecksums suppresses the writing of equal content; with *)
(* sanitization the files are removed when a variable is gone or revoked.  *)
(* The application may delete a file it has read. Only one goroutine calls *)
(* this provider at a time.                                                *)
(*                                                                         *)
(* The content of a group is the values of its variables; a group with the *)
(* spec "*" has those of all variables. The atomic writer is represented   *)
(* by its temporary file (AtomicWriter has its details).                   *)
(***************************************************************************)
EXTENDS Naturals, FiniteSets, BatchRetrieval

CONSTANTS
    N,               \* number of secret groups
    Vars,            \* Conjur variables
    Star,            \* the path "*"
    Values,          \* values of variables
    Missing,         \* there is no file
    Empty,           \* the file is empty
    Partial,         \* the file holds a part of a content
    Configs,         \* the configurations that are considered
    MaxChanges       \* bound on the changes and faults of the environment

ASSUME NAssumption == N \in Nat \ {0}
ASSUME StarAssumption == Star \notin Vars

Groups == 1..N

\* What base64 makes of a value.
Decoded(value) == <<value>>
SecretValues == Values \cup {Decoded(v) : v \in Values}

\* Contents of the secret files.
Contents == UNION {[S -> SecretValues] : S \in SUBSET Vars}
ASSUME ContentAssumption ==
    {Missing, Empty, Partial} \cap Contents = {} /\ Missing # Empty /\ Missing # Partial

\* What is settled before the first call, and what the surroundings do.
ConfigType ==
    [SecretSpecs     : [Groups -> (SUBSET (Vars \cup {Star})) \ {{}}],  \* paths of the groups
     base64          : SUBSET Groups,  \* those whose specs have that content type
     decodes         : BOOLEAN,  \* the values are valid base64
     lists           : BOOLEAN,  \* Conjur lists variables that may not be read
     sanitizeEnabled : BOOLEAN,  \* remove-deleted-secrets-enabled
     v2              : BOOLEAN,  \* the server offers the V2 batch API
     faults          : BOOLEAN,  \* files, Conjur and the process may fail
     unremovable     : BOOLEAN,  \* so may the removal of a temporary file
     deletes         : BOOLEAN]  \* the application deletes files

ASSUME ConfigAssumption == Configs \subseteq ConfigType /\ MaxChanges \in Nat

VARIABLES
    config,    \* the configuration, chosen once
    files,     \* the secret files
    conjur,    \* values of the variables
    denied,    \* variables that do not exist or may not be read
    prevFileChecksums, \* group -> content last written
    step,      \* where the call stands
    asked,     \* the variables asked for
    fetched,   \* the secrets of this call
    g,         \* the group being written
    temp,      \* content of the temporary file, or Missing
    updated,   \* the updated result
    ret,       \* result of the last call
    changed,   \* history: the running call has changed the content of a file
    changes    \* changes and faults so far

envVars  == <<conjur, denied>>
callVars == <<asked, fetched, g, temp, updated>>
vars == <<config, files, envVars, prevFileChecksums, step, callVars, ret, changed, changes>>

SecretSpecs     == config.SecretSpecs
SanitizeEnabled == config.sanitizeEnabled
V2              == config.v2
Faults          == config.faults
Deletes         == config.deletes

NoChecksums == [x \in {} |-> Missing]
Put(f, x, y) == [z \in DOMAIN f \cup {x} |-> IF z = x THEN y ELSE f[z]]

Init ==
    /\ config \in Configs
    /\ files = [x \in Groups |-> Missing]
    /\ conjur \in [Vars -> Values] /\ denied = {}
    /\ prevFileChecksums = NoChecksums
    /\ step = "idle" /\ asked = {} /\ fetched = [x \in Groups |-> Missing] /\ g = 1 /\ temp = Missing
    /\ updated = FALSE /\ ret = "none" /\ changed = FALSE
    /\ changes = 0

Change == changes < MaxChanges /\ changes' = changes + 1
Fault  == Faults /\ Change

-----------------------------------------------------------------------------
Call ==
    /\ step = "idle"
    /\ step' = "list" /\ ret' = "none"
    /\ UNCHANGED <<config, files, envVars, prevFileChecksums, callVars, changed, changes>>

\* getAllPaths; with "*", all variables that Conjur lists.
Requested ==
    IF \E x \in Groups : Star \in SecretSpecs[x] THEN (IF config.lists THEN Vars ELSE Vars \ denied)
    ELSE UNION {SecretSpecs[x] : x \in Groups}

ListVariables ==
    /\ step = "list"
    /\ asked' = Requested
    /\ step' = "fetch"
    /\ UNCHANGED <<config, files, envVars, prevFileChecksums, fetched, g, temp, updated, ret,
                   changed, changes>>

\* getSecretValueByID and decodeIfNeeded: a value that cannot be decoded is
\* provided as it is.
SecretValue(x, v) == IF x \in config.base64 /\ config.decodes THEN Decoded(conjur[v]) ELSE conjur[v]

\* The secrets of group x when Conjur returned the variables in got.
GroupSecrets(x, got) ==
    [v \in (IF Star \in SecretSpecs[x] THEN got ELSE SecretSpecs[x]) |-> SecretValue(x, v)]

\* A spec with a path that was not returned: CSPFK068E.
SpecMissing(got) == \E x \in Groups : ~(SecretSpecs[x] \ {Star} \subseteq got)

\* Mutant: secrets fetched before are not asked for again.
CachedSecrets(got) ==
    [x \in Groups |-> IF x \in DOMAIN prevFileChecksums THEN prevFileChecksums[x] ELSE GroupSecrets(x, got)]
RetrievedSecrets(got) == [x \in Groups |-> GroupSecrets(x, got)]

\* The variables that Conjur returns now for those asked for.
Answer == Returned(asked, denied, V2)

\* Conjur returned the secrets of every group.
Fetch ==
    /\ step = "fetch" /\ Answer # {} /\ ~SpecMissing(Answer)
    /\ fetched' = RetrievedSecrets(Answer)
    /\ g' = 1
    /\ step' = "open"
    /\ UNCHANGED <<config, files, envVars, prevFileChecksums, asked, temp, updated, ret, changed,
                   changes>>

Fail ==
    /\ step' = "return" /\ ret' = "error"
    /\ UNCHANGED <<config, files, envVars, prevFileChecksums, callVars, changed>>

\* V1 answers with status 403 or 404, V2 leaves the variables out and
\* FetchSecretsForGroups reports the first path that is missing. When nothing at
\* all is returned without a status, the error is neither.
\* (Mutant: the status of V1 is not recognised.)
StatusIgnored == Answer # {} /\ SpecMissing(Answer)
KnownMissing == StatusError(asked, denied, V2) \/ (Answer # {} /\ SpecMissing(Answer))

MustSanitize == KnownMissing /\ SanitizeEnabled

\* os.Remove of every file; one that fails is logged. The text of another error
\* of the retrieval may contain "403" or "404" too, in a path or a port.
Sanitize ==
    /\ SanitizeEnabled
    /\ \E kept \in SUBSET Groups :
          /\ files' = [x \in Groups |-> IF x \in kept THEN files[x] ELSE Missing]
          /\ \/ step = "fetch" /\ MustSanitize /\ kept = {} /\ UNCHANGED changes
             \/ step \in {"list", "fetch"} /\ Fault
    /\ step' = "return" /\ ret' = "error" /\ updated' = TRUE
    /\ changed' = TRUE
    /\ UNCHANGED <<config, envVars, prevFileChecksums, asked, fetched, g, temp>>

FetchDenied ==
    /\ step = "fetch" /\ ~MustSanitize
    /\ Answer = {} \/ SpecMissing(Answer)
    /\ Fail
    /\ UNCHANGED changes

FetchFails ==
    /\ step \in {"list", "fetch"}
    /\ Fault
    /\ Fail

-----------------------------------------------------------------------------
\* Mutant: the file is opened with O_TRUNC.
OpenTruncates == Empty
OpenedFile == IF files[g] = Missing THEN Empty ELSE files[g]

\* validateSecretsAgainstSpecs: "*" must be the only spec of its group.
Accounted == Star \in SecretSpecs[g] => SecretSpecs[g] = {Star}

Unaccounted ==
    /\ step = "open" /\ ~Accounted
    /\ Fail
    /\ UNCHANGED changes

\* openFileAsWriteCloser creates the file if there is none.
OpenFile ==
    /\ step = "open" /\ Accounted
    /\ files' = [files EXCEPT ![g] = OpenedFile]
    /\ step' = "write"
    /\ UNCHANGED <<config, envVars, prevFileChecksums, callVars, ret, changed, changes>>

\* The file format or the path cannot be used.
OpenFails ==
    /\ step = "open"
    /\ Fault
    /\ Fail

\* Mutant: only the first content is written.
NeverWritten == g \notin DOMAIN prevFileChecksums
ContentHasChanged == g \in DOMAIN prevFileChecksums => prevFileChecksums[g] # fetched[g]

\* The content is in the temporary file and its checksum is stored.
WriteContent ==
    /\ step = "write" /\ ContentHasChanged
    /\ temp' = fetched[g]
    /\ prevFileChecksums' = Put(prevFileChecksums, g, fetched[g])
    /\ step' = "close"
    /\ UNCHANGED <<config, files, envVars, asked, fetched, g, updated, ret, changed, changes>>

\* Mutant: updated is that of the last group.
ForgetUpdated == FALSE
UpdatedAfterSkip == updated

SkipUnchanged ==
    /\ step = "write" /\ ~ContentHasChanged
    /\ updated' = UpdatedAfterSkip
    /\ step' = "next"
    /\ UNCHANGED <<config, files, envVars, prevFileChecksums, asked, fetched, g, temp, ret,
                   changed, changes>>

\* The template cannot be rendered, or Write fails and cleans up.
WriteFails ==
    /\ step = "write"
    /\ Fault
    /\ Fail

\* Write fails, and so does the remove in Cleanup: the temporary file, truncated if
\* that works, is still w.tempFile, and the deferred Close renames it. No checksum is
\* stored.
LeftoverRenamed ==
    /\ step = "write" /\ ContentHasChanged
    /\ config.unremovable /\ Fault
    /\ \E content \in {Empty, Partial} : files' = [files EXCEPT ![g] = content]
    /\ changed' = TRUE
    /\ step' = "return" /\ ret' = "error"
    /\ UNCHANGED <<config, envVars, prevFileChecksums, callVars>>

\* The deferred Close renames the temporary file.
CloseFile ==
    /\ step = "close"
    /\ files' = [files EXCEPT ![g] = temp]
    /\ changed' = TRUE
    /\ temp' = Missing
    /\ updated' = TRUE
    /\ step' = "next"
    /\ UNCHANGED <<config, envVars, prevFileChecksums, asked, fetched, g, ret, changes>>

\* Close fails: its error is ignored, and the checksum is already stored.
CloseFails ==
    /\ step = "close"
    /\ Fault
    /\ temp' = Missing
    /\ updated' = TRUE
    /\ step' = "next"
    /\ UNCHANGED <<config, files, envVars, prevFileChecksums, asked, fetched, g, ret, changed>>

LastGroup == g = N

NextGroup ==
    /\ step = "next"
    /\ IF LastGroup
       THEN /\ step' = "return"
            /\ ret' = IF updated THEN "updated" ELSE "unchanged"
            /\ g' = g
       ELSE /\ step' = "open"
            /\ ret' = ret
            /\ g' = g + 1
    /\ UNCHANGED <<config, files, envVars, prevFileChecksums, asked, fetched, temp, updated,
                   changed, changes>>

ClearCall ==
    /\ step' = "idle"
    /\ asked' = {} /\ fetched' = [x \in Groups |-> Missing] /\ g' = 1 /\ temp' = Missing
    /\ updated' = FALSE /\ changed' = FALSE

Return ==
    /\ step = "return"
    /\ ClearCall
    /\ UNCHANGED <<config, files, envVars, prevFileChecksums, ret, changes>>

ProviderStep ==
    \/ Call \/ ListVariables \/ Fetch \/ Sanitize \/ FetchDenied
    \/ Unaccounted \/ OpenFile \/ WriteContent
    \/ SkipUnchanged \/ CloseFile \/ NextGroup \/ Return

FaultStep == FetchFails \/ OpenFails \/ WriteFails \/ LeftoverRenamed \/ CloseFails

-----------------------------------------------------------------------------
\* The process dies and starts again; files stay, also a temporary one.
Restart ==
    /\ Fault
    /\ ClearCall
    /\ prevFileChecksums' = NoChecksums
    /\ ret' = "none"
    /\ UNCHANGED <<config, files, envVars>>

ConjurChange ==
    /\ Change
    /\ UNCHANGED <<config, files, prevFileChecksums, step, callVars, ret, changed>>

Rotate ==
    /\ \E v \in Vars, x \in Values :
          x # conjur[v] /\ conjur' = [conjur EXCEPT ![v] = x]
    /\ UNCHANGED denied
    /\ ConjurChange

Revoke ==
    /\ \E v \in Vars \ denied : denied' = denied \cup {v}
    /\ UNCHANGED conjur
    /\ ConjurChange

Grant ==
    /\ \E v \in denied : denied' = denied \ {v}
    /\ UNCHANGED conjur
    /\ ConjurChange

\* The application deletes a file it has consumed.
AppDeletes ==
    /\ Deletes
    /\ Change
    /\ \E x \in Groups : files[x] \in Contents /\ files' = [files EXCEPT ![x] = Missing]
    /\ UNCHANGED <<config, envVars, prevFileChecksums, step, callVars, ret, changed>>

Environment == Restart \/ Rotate \/ Revoke \/ Grant \/ AppDeletes

Next == ProviderStep \/ FaultStep \/ Environment

Spec == Init /\ [][Next]_vars

\* The refresh goes on and every call runs to its end.
FairSpec == Spec /\ WF_vars(ProviderStep)

-----------------------------------------------------------------------------
Steps == {"idle", "list", "fetch", "open", "write", "close", "next", "return"}
FileContents == Contents \cup {Missing, Empty, Partial}

\* Files hold a content of Conjur, a part of one, nothing, or do not exist; checksums are of
\* contents of Conjur.
TypeOK ==
    /\ config \in Configs
    /\ files \in [Groups -> FileContents]
    /\ conjur \in [Vars -> Values] /\ denied \subseteq Vars /\ asked \subseteq Vars
    /\ prevFileChecksums \in UNION {[D -> Contents] : D \in SUBSET Groups}
    /\ step \in Steps
    /\ fetched \in [Groups -> Contents \cup {Missing}]
    /\ g \in Groups /\ temp \in Contents \cup {Missing}
    /\ updated \in BOOLEAN /\ changed \in BOOLEAN
    /\ ret \in {"none", "error", "updated", "unchanged"}
    /\ changes \in 0..MaxChanges

\* The temporary file of a failed write takes the place of the file of group x.
Spoils(x) == config.unremovable /\ step = "write" /\ x = g /\ ret' = "error"

\* Without sanitization a file the application reads never loses its content:
\* it is replaced by another content, never emptied and never removed,
\* whatever fails and whenever the process dies. The one exception is the file of
\* a group whose temporary file could be neither written nor removed, and the call
\* then returns an error.
ContentNeverLost ==
    [][(~SanitizeEnabled /\ ~Deletes) =>
          \A x \in Groups : files[x] \in Contents => files'[x] \in Contents \/ Spoils(x)]_vars

Contract == INSTANCE ProviderContract WITH
    busy <- step # "idle",
    ret  <- IF step = "idle" THEN ret ELSE "none"

\* The calls implement the contract the scheduler relies on: a call that
\* replaced a file and returns no error says so.
ImplementsContract == Contract!Spec

\* Nothing interferes with the files but the provider, and nothing fails.
Quiet == ~Faults /\ ~Deletes /\ ~SanitizeEnabled

\* When nothing fails and nobody deletes files, a call that returns no error
\* has left in every file what Conjur returned, also where it wrote nothing.
CallDelivers ==
    (Quiet /\ step = "return" /\ ret # "error") => files = fetched

\* The variables that a call would get now.
Obtainable == Returned(Requested, denied, V2)

\* They are enough for the specs, and every group can be written.
Deliverable ==
    /\ Obtainable # {} /\ ~SpecMissing(Obtainable)
    /\ \A x \in Groups : Star \in SecretSpecs[x] => SecretSpecs[x] = {Star}

\* Once Conjur is quiet too, every file ends up with its content and keeps it,
\* as long as the variables of the groups can be read; with "*", without those
\* that Conjur does not list or return.
Converges ==
    <>[](Quiet /\ Deliverable => \A x \in Groups : files[x] = GroupSecrets(x, Obtainable))

\* With sanitization a file is gone some time after a variable of any group was
\* removed or revoked, unless that is undone or hidden from the provider: by the
\* error of a request that returned nothing, or by a list without the variable.
RevokedRemoved ==
    LET Revoked ==
          /\ SanitizeEnabled
          /\ \/ StatusError(Requested, denied, V2)
             \/ Obtainable # {} /\ SpecMissing(Obtainable)
    IN \A x \in Groups : Revoked ~> (~Revoked \/ files[x] \notin Contents)
====
