# Verification of the Conjur Secrets Provider for Kubernetes

TLA+ models of the control logic of this repository, the TLC runs that check
them on small instances, and proofs, checked by TLAPS, of their most important
properties for every value of the constants. `PROJECT.json` maps each definition
to the lines it models, lists the runs, the mutants that show each property can
fail, the hazards and the theorems.

## 1. The system

The Secrets Provider fetches secrets from Conjur and puts them where an
application in Kubernetes can use them: into Kubernetes Secrets or into files on
a shared volume. It runs as an init or application container (once), as a
sidecar (for the life of the pod) or standalone (its own deployment, serving many
Secrets and offering `/readyz`).

### Inventory

| Component (source) | State | Operations | What makes it correct |
|---|---|---|---|
| Scheduler, `pkg/secrets/provide_conjur_secrets.go` | program counters of main and two goroutines, ticker, error channel, debounce timer, batch of events, keys to remove | first call, status file, start of goroutines, tick, event, timer, error, quit | readiness and sentinel files tell the truth; updates are announced; edits are served; errors end a sidecar; an init container ends |
| Retry back-off, `pkg/utils/limited_backoff.go` | `retryCount`, shared by all calls | `Reset`, `NextBackOff` | a call makes its attempts, no more and no fewer |
| Status files, `pkg/secrets/provider_status.go` and the two scripts in `bin/run-time-scripts` | `CONJUR_SECRETS_PROVIDED`, `CONJUR_SECRETS_UPDATED` | `SetSecretsProvided`, `SetSecretsUpdated`, `CopyScripts`; the application's probes | the application starts only after a delivery and learns of changes |
| HTTP server, `pkg/server` | `isReady` | `SetReady` | agrees with the latest attempt |
| Kubernetes Secrets provider, `pkg/secrets/k8s_secrets_storage` | mutex, snapshot, destinations, `prevSecretsChecksums` | `ProvideWithCleanup`: list or get, fetch, compare, update, clean up, sanitize | the Secrets converge to Conjur; users' edits survive; checksums match the data |
| Conjur retriever, `pkg/secrets/clients/conjur` | access token, `useV2`, the list of a fetch-all | `Retrieve`: authenticate, make a client, list page by page, batch V2 with fall-back to V1 | no page is missed; what is missing is reported in a way the providers act on; no token outlives its call |
| Authenticators, `conjur_authenticator.go` | the type chosen at start | `NewAuthenticator`, `GetAccessToken` of k8s, jwt, iam, azure, gcp | the URL decides; a token is kept in one buffer at a time |
| Kubernetes client, `pkg/secrets/clients/k8s` | none | list, get, update | updates of an old version are refused |
| Informer, `pkg/secrets/k8s_informer` | work queue, event channel, `stopCh`, `stopOnce`, worker | `Start`, `onAdd`, `onUpdate`, `processNextItem`, `NotifySecretEvent`, `Stop` | every relevant edit leads to a call that sees it; the provider does not trigger itself; `Stop` returns and leaves nothing running |
| Push-to-file provider, `pkg/secrets/pushtofile` | `prevFileChecksums`, groups | fetch all groups, write each file, sanitize | files are whole, follow Conjur, and vanish when revoked |
| Atomic writer, `pkg/atomicwriter` | temporary file, handle | `Write`, `Close`, `Cleanup` | readers see old or new content, never a part |
| Checksums, `pkg/utils/checksum.go` | none | `FileChecksum` | equal content, equal checksum |
| Entry point and configuration, `cmd/secrets-provider`, `pkg/entrypoint`, `pkg/secrets/config` | annotations, configuration | read and validate annotations, make the retriever, make the provider and its groups, start the server | what runs is what was validated and asked for |
| Secret groups, specs and templates, `secret_group.go`, `pkg/secrets/file_templates`, `standard_templates*.go` | secret groups | specs and aliases from YAML, paths, permissions, choice and trial of the template | groups never share a file; what is accepted can be opened and rendered by every call |
| Annotation parser, `pkg/secrets/annotations` | none | read the file line by line | a malformed file stops the start |
| Template functions, log messages, version | none | calls of the Go library, constants | not modelled |

How they interact: the entry point builds a provider and hands it to the
scheduler as a function. The scheduler wraps it with the retry back-off (one
instance for all calls) and calls it from up to three goroutines: main first,
then the periodic and the informer goroutine. The informer passes events over a
bounded channel. The goroutines report errors over one unbuffered channel that
main receives from once. The application container sees the system only through
the targets and the two sentinel files; Kubernetes sees `/readyz` and the exit
status.

What is hard: two goroutines share the back-off, the readiness flag, the
checksums and the cumulative keys; users edit Secrets and operators change Conjur
while a call is running; each of several updates may fail; a checksum may
outlive the content it was computed from; the process may be killed anywhere;
events are debounced and may be dropped. The list, line by line, is `hazards` in
`PROJECT.json`.

## 2. Modules

| Module | Models | Role |
|---|---|---|
| `RunSecretsProvider` | scheduler, retry back-off, status files, readiness, event channel, application and kubelet | component |
| `ProviderContract` | what the scheduler relies on in a provider | abstract specification |
| `K8sProvider` | Kubernetes Secrets provider with its clients, the events of the informer, users and Conjur | component, implements `ProviderContract` |
| `SecretInformer` | the informer from the API server to the event channel, `Start` and `Stop`, the entry point around it | component |
| `SecretGroups` | one secret group: what its annotations and template file become, what is refused, what rendering needs | operators, used by `Startup` |
| `Startup` | from the pod's annotations and environment to the call of the scheduler | component |
| `BatchRetrieval` | what the providers rely on when they ask Conjur for variables | abstract outcomes, used by both providers |
| `ConjurRetriever` | one call of `Retrieve` after the other, authenticators, Conjur and its policies | component, checked against `BatchRetrieval` |
| `PushToFile` | push-to-file provider | component, implements `ProviderContract` |
| `AtomicFile` | a file that changes as a whole | abstract specification |
| `AtomicWriter` | the atomic writer, one step per file system call | component, implements `AtomicFile` |
| `RunSecretsProviderProofs`, `K8sProviderProofs`, `ConjurRetrieverProofs`, `PushToFileProofs`, `AtomicWriterProofs`, `SecretInformerProofs`, `StartupProofs` | | theorems |
| `MC...` | | configurations for TLC |

The scheduler, the two providers, the retriever and the writer have the frozen variable
`config`: a record of what the Go configuration settles before the component starts, and
of what the environment is allowed to do. A run therefore covers several configurations
at once, and the theorems cover all of them. `Startup`, which works that configuration
out, has the frozen variable `input` instead: annotations, environment variables and
template files. `SecretInformer` has no settings.

**RunSecretsProvider.** `pc[c]` is where goroutine `c` stands. A call of the
wrapped provider is the sequence reset, op, and after an error next, store,
notify, sleep, op, ... The test and the increment in `NextBackOff` are separate
steps, because `retryCount` is a plain field that both goroutines use. An attempt
(`Op`, `Cleanup`) is one step with any outcome `ProviderContract` allows: it may
succeed, with `updated` true whenever a target changed, or fail after changing
targets. The rendezvous on the unbuffered `periodicError` is the joint step
`SendError`. Time is the ticker, which keeps one tick, the debounce timer and the
maximum delay, each of which may pass at any point. `Exit` clears what lives in
memory and keeps the files. The application is started by the first script and
restarted by the second, which deletes `CONJUR_SECRETS_UPDATED`. History
variables (`delivered`, `latest`, `attempts`, `lossy`, and `unseen`) exist only
for the properties.

**K8sProvider.** `holder` is the goroutine under the mutex and `step` where its
call stands. The API server's version check is `fresh`: the Secrets nobody has
written since the snapshot. A manifest is what users write into a Secret: a conjur-map
that gives each key a variable, nothing or an invalid entry, the keys to be decoded
from base64, the entry `*` for all variables, and the groups in the annotations; or a
conjur-map that is no YAML at all. The order in which Go visits a map is the choice in
`DestinationsOf`: what was visited before an invalid entry remains a destination. With
`*`, `keyOf` gives each variable its key (`normalizeK8sSecretName`), and where two have
the same key the first in the list wins (`FirstOf`); `WipeStale` removes what is not
listed any more. A group's key holds what its template is rendered to (`Render`): the
values of its variables, with or without a text around them, or nothing; a template that
cannot be rendered is the fourth kind. A variable that was not returned is rendered as
empty. An update that fails leaves the Secret alone (`UpdateFails`) or was applied and only
its answer is lost (`AnswerLost`): then the data are new, the checksum is not stored, and
the history variable `unsure` has the Secret until an update of it is answered. Where
`clientFails`, the client cannot be configured, whose error the code drops, and the next
request ends the process (`NoClient`). A checksum is represented by the data it is computed from. Errors of Conjur
whose text contains 403 or 404, by status or by chance (`lookalike`), lead to the
sanitization (`RemoveAll`).
Users edit manifests, relabel, delete and create; operators rotate, revoke
and grant. An event carries the removed and added keys, and the informer
goroutine accumulates them (`MergeKeys`). The queue of events is not bounded
here: the bounded channel is in `RunSecretsProvider`. The debounce is the delay
before the batch is taken, which is arbitrary.

**ConjurRetriever.** `pc` goes through one call of `Retrieve`: connect, authenticate,
read, client, list, batch, return. Variables are numbers in the order in which Conjur
lists them, so a page is a range of ranks and shifts when a variable before it comes or
goes. `tokens` is the set of buffers that hold an access token: the in-memory token of
the k8s and jwt authenticators, `accessTokenData`, and the client. `useV2` starts as true
in every call and is cleared for good by an answer that says the V2 API is not there.
Before every request policies may add, remove or revoke variables, and every request may
fail. `steady`, `shrunk`, `refused` and `faulty` are history variables for the properties.
`BatchRetrieval` has the two operators with which both providers describe the same
call in one step.

**SecretInformer.** The reflector of client-go lists, then watches; `deltas[s]` are
the changes of Secret `s` it has still to give to the handlers, in order. The cache
may count as synced before or after the handlers have seen the list, which decides
whether `onAdd` takes it for new Secrets. The work queue and the channel are counters:
`SecretEvent` holds fresh pointers, so the queue never merges two events, and what
they carry is in `K8sProvider`. `stop[c]` is where the call of `Stop` by the entry
point or by the goroutine that waits for the cache stands; `stopOnce` lets the first
one through and makes the second wait. A label is "true", which the provider's selector
wants (`Selected`), another spelling that `ParseBool` takes for true, or neither. An
annotation may be absent or empty, which the handlers do not tell apart (`Lookup`) and the
provider does. The provider is reduced to its list of the
selected Secrets and its writes, which come back to the handlers as updates; its first
call may fail, and the goroutines start all the same. `silent` is a history variable:
the Secrets not listed since an edit that is no event, because the informer had not
synced or because the edit only respelled the label or an annotation (`Respelled`).

**Startup.** `pc` goes through the entry point: annotations, retriever, config, server,
and then run or exit. Settings are strings, and what the Go library makes of one is
given by the functions `IntOf`, `BoolOf`, `DurationOf`, `YamlNames` and `CommaNames`,
whose domains are the strings that the parser accepts. The container mode is worked
out in three places of the code and is therefore defined three times (`Setting`,
`getContainerMode`, `customEnv`). `Blanks` are the strings that `TrimSpace` empties, and
`Spaces` those of them that are spaces only, which is all that the list of names in the
environment is stripped of. The annotation file is a function from keys to
values, of which a line that is too long loses what follows, be it settings or some of
the annotations of a group (`newAnnotationsFromReader`, `Without`). Durations are in tenths of a second. `RunSecretsProvider`
and `PushToFile` begin where this module ends.

**SecretGroups.** A path, of a variable or of a file, is the sequence of its parts, so
joining, trimming and taking the last part are translated. A group's file may be in
directories below the base path; a directory may have the name of another group's file,
and "." is the directory itself (`absoluteFilePath`). Of a name only what the validators look at is kept
(`Shape`): the class of its first character, the classes that occur in it and its length. A
template is the set of the aliases it looks up, whether it parses and whether it is
empty. `SecretSpecs` is what YAML and the policy path make of the specs,
`validateFails` what is refused at start, `pushToFileFails` and
`openFileAsWriteCloserFails` what makes a call fail; `AcceptedInVain` and `InTheWay` name
the groups that pass the first and fail in a call.

**PushToFile.** A group has a set of variables, or `*`; its file is the function from
variables to values that its template is given. `Requested` is what one call asks for,
`Answer` what the retriever returns of it, and a group with base64 may fail to decode.
Groups are processed in order, one step each for opening, writing the temporary file
(and storing the checksum), and the deferred close with its rename, because the
process may die between them and each may fail. If the write fails and the temporary
file cannot be removed (`unremovable`), the deferred close renames what is left of it,
nothing or a part (`LeftoverRenamed`).

**AtomicWriter.** A content is the sequence of chunks written; a failed write may
leave a `Torn` part. Every system call may fail and the process may die before
any of them.

## 3. Runs

| Run | Instance | What it shows |
|---|---|---|
| `scheduler_safety` | application; sidecar with no, one, both goroutines; standalone with one and with both; limits 1 and 2; channel of 1 | the retry counter and budget, readiness, sentinel files and exit status, over all interleavings, kills, restarts and quits |
| `scheduler_liveness` | init with 5 retries; standalone with informer; sidecar with both goroutines and no retry | an init container ends, edits are served though events keep coming and are dropped, a failing sidecar ends with an error even if both goroutines fail at once |
| `k8s_safety` | fourteen configurations: one Secret with 2 to 4 changes, two with 1 to 3; V1 and V2, labelled and required, deletions, lost answers, no client; malformed manifests, groups with and without a text of their own, `*` with its own and with colliding keys, values that are no base64, errors that look like a status | edits survive, mapped keys stay, nothing is emptied or lost without cause, invalid Secrets are left alone, only an invalid entry or a client that cannot be made ends the process, checksums and results are honest, the contract is implemented |
| `k8s_liveness` | five configurations of one Secret: shared variables, groups of every kind, `*`, colliding keys with a refresh; a key that leaves without | refreshed Secrets converge; removed keys are deleted |
| `writer` | two chunks, three writes | atomicity and no leftovers under every failure |
| `files` | two groups, three changes: one and two variables by name under all settings, with temporary files that cannot be removed too; `*` next to a name, and twice | contents are lost only to such a file, with an error, calls deliver, files converge and revoked ones go |
| `informer` | one Secret with six manifests, two edits, channel of 1 | no edit after the sync is forgotten, unless it only respells a label or an annotation, although events are dropped, writes do not trigger further runs for ever, `Stop` returns and leaves nothing running |
| `startup` | eight families of inputs, nearly thirteen thousand in all: mode and refresh; store, Kubernetes Secrets and allowlist; retries and sanitization; lines too long; paths and templates of two groups; directories that are files; specs, aliases and formats of one; permissions | the scheduler is called with what was validated and asked for; groups never share a file and can be opened and rendered, but for those that `InTheWay` and `AcceptedInVain` name |
| `retriever` | pages of two, limit of four, five variables; lists of no to three pages with both APIs; requests by name, empty and with `*` among names; every authenticator with and without its service id; up to three changes | no page is missed, the answer is what the providers rely on, no token is left |
| `standalone_stops` | expected violation | section 7 |
| `recreated_secret` | expected violation | section 7 |
| `invalid_map` | expected violation | section 7 |

### Bounds, and why they are enough

* A retry limit of 1 with two goroutines lets both pass the test of
  `NextBackOff` at once, which is how the counter passes its limit; 2 lets a call
  retry, succeed or give up. The proofs cover every limit.
* A channel of capacity 1 is full after one event, so drops happen. The default
  of 10 only makes the state space larger; the proof of `TypeCorrect` covers every
  capacity.
* Two Secrets with two keys are the least with which one update of several fails
  and one key of a map leaves. `maxChanges` counts edits and faults together:
  3 and 4 allow an edit, its undoing and a fault between them. `Values` has two
  elements, used only in comparisons, and is a symmetry set in the safety run. Two
  variables and two keys are the least with which keys collide and a group has a
  variable of its own and a shared one.
* Two groups let the first be written and the second fail. Three changes allow
  a revocation, its undoing and a fault in any order.
* Pages of two and a limit of four make a full last page, a page after it that is
  empty, a list cut off at the limit, and a variable that moves to another page
  happen with five variables. The code has 100 and 500; only their ratio being whole matters.
* One Secret that exists when the informer syncs and is edited twice can make three
  events, for a channel of one: one in the channel, one with the worker, one in the
  queue. The manifests have a label or another spelling of it, a conjur-map, none or no Data, and
  a template annotation that is absent, empty or has a text, so that whatever the handlers
  and the provider read comes to differ, also where only one of them sees it.
  `MaxDeltas` lets the provider write only while fewer changes wait for the handlers:
  one is enough for writes to overtake and to precede edits. The proofs have any
  number of Secrets, manifests and edits.
* `eventCount` distinguishes 0, 1 and more, as the code does; `attempts` stops
  one past the largest legal value.
* The inputs of `startup` combine the settings that one function of the code combines,
  each with absent, empty, blank, valid, invalid and boundary values (an interval of
  exactly and just under a second, a limit of -1 and -2, names one longer
  than is legal). Two groups are the least that can share a file. The proofs cover every input and every parser.
* Deadlock is not checked in the scheduler, informer and start-up runs (a process may
  end for good, or is handed to the scheduler) and in `k8s_liveness` (without a refresh nothing more happens).

### Fairness, and why the code justifies it

* Weak fairness of each goroutine's steps: the Go scheduler runs goroutines that
  can run. A blocked send is not enabled and gets nothing from it.
* Weak fairness of ticker, debounce timer and maximum delay: time passes.
* Weak fairness of the application's probes: the kubelet repeats them.
* Strong fairness of `Lock(c)`: Go's mutex hands itself to a waiter that starves,
  so a goroutine that calls again and again gets it.
* Informer: the API server answers the list, client-go calls the handlers, the timeout
  of the notifier passes, calls of the provider end. Nothing makes the provider return,
  users edit or the ticker tick.
* A panicking process is started again (restart policy of sidecars and
  deployments).
* Nothing is assumed of users, operators, signals, kills, faults or successes.
  `EditsServed` needs no success: it asks for an attempt that started after the
  edit.

## 4. Properties

The conditions in the properties mark where the code's promise ends.

* `OneBackground` in `RetryBudget`, `GivesUpOnlyAtLimit` and
  `ReadyReflectsLatest`: with both goroutines the `Reset` of one call restarts
  the budget of the other, and an older success may be published after a newer
  failure. What remains true with both is `RetryCounterBound` and
  `ReadyOnlyAfterDelivery`.
* `~lossy` in `UpdateSignalled`: a change made by an attempt that fails and by
  the first call of a restarted sidecar is not announced by the code.
* `~Deletes` in `ChecksumsHonest`, `CallDelivers` and, for files, `Quiet`: a
  checksum outlives the Secret or the file.
* `unsure` in `ChecksumsHonest`, `CallDelivers` and `Converges`: after an update that was
  applied while its answer was lost, the stored checksum is that of the data before.
* `MayRenderEmpty` in `NothingLostUnsanitized`: a group without a text of its own is
  rendered to nothing if its variables were not returned, with sanitization or without.
* `Spoils` in `ContentNeverLost`: the leftover of a write that failed and could not be
  removed is renamed over the file, and the call returns an error.
* `~Periodic` and "some variable is left" in `RemovedKeysDeleted`: section 7.
* `silent` in `NoEditForgotten` and `EditsListed`: section 7.
* The V2 clause in `KnownMissing`: section 7.
* `revokes` and `lookalike` in `BlankedOnlyIfRevoked`: an error text that contains 403 or
  404 by chance is enough to empty Secrets.
* `Malformed` in `InvalidUntouched`: a conjur-map that is no YAML counts only where no
  Secret has groups (section 7).
* "No invalid entry" and `~clientFails` in `PanicsOnlyIfInvalid`: with an invalid entry, and
  without a client, the process dies (section 7).
* `shrunk` in `ListComplete`: a variable removed between two pages makes another one be
  skipped. `faulty` and the names with two colons in `AnswersAsPromised`.
* The spelling "true", the absent `k8s-secrets` annotation and an environment variable of
  spaces in `RunsAsValidated`, and `AcceptedInVain` and `InTheWay` in `GroupsUsable`:
  section 7.

A condition excludes the case it names: no property catches that case, and the note of its
hazard in `PROJECT.json` says so.

The type invariants are theorems, which makes a run of them superfluous.

## 5. Proofs

All theorems are of the form `Spec => []Inv`, `Spec => [][A]_vars` or
`Spec => Abstract!Spec`. They assume only what the modules' `ASSUME`s state:
configurations have the type of the Go configuration, the channel has a positive
capacity, the special values (no file, torn, missing, empty, absent, blank) are distinct
from contents, there is at least one group, and the limit of fetch-all is a multiple of the
page size, as 500 is of 100.

**RunSecretsProviderProofs**, for every set of configurations and every channel
capacity. The properties are not inductive by themselves. `Phases` says that
background goroutines run only while main waits or shuts down, and only
configured ones; `Ended` that nothing of a dead process remains; `Results` that a
retrying call holds an error and a finished one a result.
* `TypeCorrect`.
* `ReadyOnlyAfterDeliveryHolds`, with `Delivery`: whoever holds a good result has
  delivered.
* `RetryCounterBoundHolds`, with `CounterInv`: a goroutine between test and
  increment has seen a count below the limit, the count itself is at most the
  limit, and if two are there the count is below it. So two racing increments
  reach at most the limit plus one.
* `RetryBudgetHolds` and `GivesUpOnlyAtLimitHolds`, with `BudgetInv`: the count
  and the attempts of the only running call move together (`OneInCall`).
* `UpdateSignalledHolds`: inductive given `Phases` and `Ended`.
* `ReadyReflectsLatestHolds`, with `LatestInv`: a result not yet published is that
  of the latest attempt.
* `InitExitContractHolds` and `ProvidedOnlyAfterDeliveryHolds`, with `MainInv`: while main
  is between its first call and the select no other goroutine runs, so the result
  it holds is that of the latest attempt; a process that runs once passes through
  `SetSecretsProvided` with it before it ends well.

**K8sProviderProofs**, for any Secrets, keys, variables, values, manifests and
configurations. `Frames` says which actions may change which variables; it is shown
action by action, and every other proof then looks only at the few that matter.
* `TypeCorrect`, with `LiveSpecs`: a Secret that exists has a manifest a user wrote.
* `ImplementsContractHolds`, refinement of `ProviderContract`, with `ControlInv`: before
  Conjur answered nothing is written, an updating call that wrote has `updated` set,
  and what is returned says so.
* `ChecksumsHonestHolds` and `CallDeliversHolds`, with `DeliverInv`: the two need each
  other. A Secret skipped because of its checksum holds the new data only because
  checksums are honest; they are because they are stored with the write, except for a
  Secret in `unsure`, which stays there until a checksum is stored with a write again.
* `UserEditsSurviveHolds` and `InvalidUntouchedHolds`, with `SnapshotInv`: the snapshot of
  a Secret nobody wrote to equals the Secret, was parsed without error, and its
  destinations are those of its manifest. `OnlyUpdates` concludes that a step which is no
  change of the environment alters a Secret only by an update of the version that was read.
* `MappedKeysStayHolds`, with `FilledInv` in addition: with sanitization every destination
  has an entry, which comes after the removal of keys; without, there are no keys to remove.
* `NothingLostUnsanitizedHolds`, with `SanitizeInv`, and `BlankedOnlyIfRevokedHolds`, with
  `PermittedInv`: everything that is provided was asked for, was returned, and so has a value
  in the computed data (`ComputedFacts`), by name, with `*` or through a group.
* `PanicsOnlyIfInvalidHolds`, with `OriginalInv`: without invalid entries whatever is
  skipped leaves no destination behind (`SkippedEmpty`), so only Secrets of the snapshot
  are processed. Together with the run `invalid_map` it says exactly what kills a process
  that has a client.

**ConjurRetrieverProofs**, for any number of variables, any page size and limit.
* `TypeCorrect`.
* `TokenClearedHolds`, with `TokenInv`: which buffers may hold a token at which step.
* `ListCompleteHolds`, with `ListInv`: what stayed listed and has a rank below the offset
  is among the paths. The lemmas on ranks (`RankInjective`, `RanksFill`, `RankGrows`) count:
  an addition never lowers a rank, a page that is not full is the last, and a full one
  moves the offset by the page size.
* `AnswersAsPromisedHolds`, with `AnswerInv`: what the V2 and V1 requests return is what
  `BatchRetrieval` says of the variables refused at that moment.

**AtomicWriterProofs**, for any set of chunks and number of writes.
* `TypeCorrect`, with `Handle`: `w.tempFile` is set only while its file exists,
  and wherever it is used.
* `NothingLeftBehindHolds`, with `NoHandleNoFile`.
* `WritesAtomicallyHolds`, refinement of `AtomicFile`, with `TempIsWritten`: the
  temporary file equals what was written as long as it can still be renamed and no
  removal of it has failed.

**PushToFileProofs**, for any number of groups and any bound on changes.
* `TypeCorrect`, with `InHand`: what is fetched and in the temporary file.
* `ContentNeverLostHolds`: only two actions write to a file, and the leftover is the
  exception.
* `ImplementsContractHolds`, refinement of `ProviderContract`, with `Remembered`:
  a replaced file is recorded in `updated` until the call returns, or the call returns an
  error.
* `CallDeliversHolds`, with `Honest`: outside the step between writing and
  renaming, a stored checksum is that of the file.

**SecretInformerProofs**, for any sets of Secrets and manifests and any capacity.
* `TypeCorrect`.
* `StopLeavesNothingHolds`, with `StopInv`: only the first caller is inside
  `stopOnce.Do`, and whoever is past it finds the queue shut down and the informer
  ended; and `WorkerInv`: a worker that is done has emptied a queue that takes no more.
* `NoEditForgottenHolds`, with `SyncInv`: a synced informer watches until it is
  stopped. `EditIsRelevant` is the core: what the handlers compare is all that the
  provider reads, but for what `Respelled` names. An event is dropped only when the channel holds others, so a run
  that will see the edit lies ahead.

**StartupProofs**, for any settings, groups and parsers.
* `RunsAsValidatedHolds` and `GroupsUsableHolds`, with `StartInv`: what each phase has
  established of the annotations, the configuration and the groups when the next one
  begins; later phases leave it alone (`Unmoved`), and what is left of a group whose lines
  were lost is a group (`WithoutTyped`). `AboveIsAsked` relates the files that are in the way
  of each other to the directories the annotations ask for, `OwnerMayWrite` relates the accepted
  permissions to the opening of the file; `Kept`, `StarIsNoVariable` and
  `ValidatedRenders` relate the trial of the template at start to its rendering with
  whatever a call retrieves.

**Only model-checked**: the liveness properties (`InitEnds`, `EditsServed`, `FailStop`, both
`Converges`, `RemovedKeysDeleted`, `RevokedRemoved`, `StopEnds`, `EditsListed`, `NoFeedback`):
the prover does not handle fairness and `ENABLED`. Every other property of a passing
run is a theorem.

## 6. Not modelled

* In the informer: the relist after a lost watch, and objects of another type than
  Secret (the handlers ignore them). If no client can be built there is no informer;
  the channel stays empty.
* The syntax of YAML and of quoted values, the text of rendered files, and the template
  functions `b64enc` and `b64dec`: libraries. Templates whose lookups depend on the
  values of secrets.
* Aliases that contain a slash, and content types other than text and base64, of which
  the code only warns. A group of `PushToFile` with an empty list of specs, whose file
  is rendered from nothing.
* The protocols of the authenticators, tracing, HTTP listening and `/healthz`, wording of
  log messages: calls of libraries and I/O without state of this program; their failure
  is a fault of the models.
* An update whose answer is lost is applied before the call returns or never; in reality it
  might reach the API server later, where it meets the same version check.
* In `K8sProvider` the retry wrapper appears as the possibility of a further call
  after an error; its counting is in `RunSecretsProvider`.

## 7. Where code and its documentation differ

Three statements of comments are refuted by a run (`findings`):
1. *Standalone keeps working after an error* (`standalone_stops`): the select is
   not in a loop, so the first error ends the wait, the goroutines and the process.
2. *No stale state after a deletion* (`recreated_secret`): the checksum of a
   deleted Secret survives, and the Secret created again with the same values is
   never populated.
3. *Invalid Secrets are skipped* (`invalid_map`): entries visited before the
   invalid one have been appended, and updating them follows a nil pointer.

Met while modelling, and expressed as conditions of the properties instead:
* with both goroutines a call may exceed its retry budget, and readiness may show
  an older result;
* a sidecar whose first call fails never creates `CONJUR_SECRETS_PROVIDED`, even if
  later calls succeed;
* updates by an attempt that failed, and by the first call after a restart, are
  not announced;
* a periodic call between an edit and its debounced clean-up stores the checksum
  that makes the clean-up skip the Secret: the removed key stays;
* when the only conjur-map is cleared there is no variable to retrieve, the call
  fails and the keys to remove are forgotten;
* a V2 request of which nothing is readable returns an error without status 403 or
  404, and nothing is sanitized;
* a Secret edited between the first call's list and the sync of the informer is not
  noticed until something else causes a call; the same holds after a first call that
  failed, for Secrets that are not edited afterwards;
* the first write to a Secret without Data counts as a change of its conjur-map and
  causes one more run;
* `secrets-refresh-enabled` spelled "TRUE" or "1" passes the validation and enables
  nothing;
* in standalone mode a `k8s-secrets` annotation of blanks, or a `K8S_SECRETS` of tabs or
  newlines, passes the validation and is then taken for the name of a Secret, so there is
  no informer;
* a Secret whose label is respelled from "True" or "1" to "true" becomes one that the
  provider lists, and one whose template annotation becomes empty instead of absent
  becomes one with a template, but the handlers see no change: neither is noticed until
  something else causes a call;
* an update that was applied although its answer was lost leaves the old checksum: if the
  variable returns to the value of that checksum, the Secret keeps the other one;
* the error of `configK8sClient` is dropped in all three requests to Kubernetes, and a nil
  client ends the process (for example without a service account token);
* groups with the paths `a` and `a/b`, or with the path `.`, pass the validation and cannot
  be opened by the calls;
* a group of format template with no template anywhere, or with an empty template file,
  which hides the template in the annotation, passes the validation and fails in every
  call;
* a group with an alias for `*`, which gives all variables the same key and escapes the
  check of the format, with an alias that is empty or `*`, or with `*` among other specs
  passes the validation too;
* a line of the annotation file that is too long ends the reading without an error, and
  the annotations behind it are lost;
* the error of `Close` after a write is ignored while the checksum is stored, so a failed
  rename suppresses the next write, although `ROTATION.md:48` says files are rewritten if
  there are changes;
* base64 values of groups in Kubernetes Secrets are not decoded, although the comment of
  `populateGroupTemplateSecretData` says so; without sanitization, groups are rendered
  with empty values for variables that were not returned;
* a required Secret with neither conjur-map nor groups is accepted if an earlier one has
  groups, and a conjur-map that is no YAML is then taken for an empty one: its keys are
  removed;
* removing `*` or a group from a manifest leaves the keys it had made;
* with `*` and everything denied the old values stay, because no variable listed is an
  error without status; a sanitization of such a Secret asks for a key named `.`, which the
  API server refuses;
* 403 or 404 anywhere in the text of an error empties Secrets and removes files;
* a variable removed between two pages of a list makes the one that moves to the page
  before be skipped, and its key be removed until the next call;
* a name with two colons that was asked for is taken for a full id and shortened; `*`
  among other names is asked for as a variable; `prefix/*` is not fetch-all;
* `FETCH_ALL.md:175` names message CSPFK010D for the limit of variables, the code logs
  CSPFK066E;
* an IAM or Azure URL without service id is accepted at start and fails in every call;
* a server that cannot listen ends the process with exit code 0;
* if a write fails and the temporary file cannot be removed, the deferred `Close`
  renames it over the destination;
* a file deleted by the application is created again empty, and sanitized files
  are not rewritten after access is granted again, until their content changes.

## 8. Plan

Done: every component that keeps state is modelled, checked and proved about; every safety
property, action property and refinement that a run checks is a theorem.

Next: the safety part of what is only checked as liveness. For `K8sProvider`, that in quiet
conditions a call without error leaves what `Synced` asks for; for `SecretInformer` and
the scheduler, that the measures behind `StopEnds` and `InitEnds` never grow.
