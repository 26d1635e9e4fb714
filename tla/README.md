# TLA+ models of gcp-emulator-provisioner

This directory holds a formal model of the provisioner: TLA+ modules translated
from the Go code, TLC configurations that check them on small instances, and
TLAPS proofs of the properties that should hold for every instance. Paths below
are relative to the repository root; `PROJECT.json` maps each definition to the
lines it models.

## The system

`gcp-emulator-provisioner` is a one-shot process. It reads a YAML file and makes
a Google Cloud project, or a set of emulators, match it: topics and
subscriptions, buckets, and service account key files. It is started by compose
or as a Kubernetes job, started again when it fails, and several instances may
run against one project. `gcp-token-stub` is a separate server that answers
token requests.

| Component | State it keeps | Operations | Hard part | Correct when |
|---|---|---|---|---|
| Pub/Sub section (`internal/provisioner`) | position in the file, last read, paths still to send | `ensureTopic`, `ensureSubscription`, `applyPaths` | other runs between a read and the write that depends on it; masks refused as a whole; a crash between two calls | it converges, repeats without effect, keeps what the file does not declare, fails only for outside reasons |
| Configuration (`internal/config`) | the parsed file | `Load`, expansion, `validate` | what validation lets through is what every later step relies on | a valid file is one the section can apply |
| Pub/Sub client (`internal/client/pubsub.go`) | none | get, create and update, conversions to and from the wire | absent, zero and default are the same on the wire | a value survives the round trip |
| Pub/Sub endpoint (external) | topics and subscriptions | get, create, masked update | emulator and cloud accept different masks | - |
| Connecting (`internal/client/client.go`) | attempt, elapsed time | `retryUntilReady` | attempt limit against time limit, cancellation | it ends, and never later than the limit |
| Credentials section (`provisioner/credentials.go`, `internal/credentials`) | key files on a shared volume | `ensureCredential`, `Generate`, `Write` | check and write are separate; the write is not atomic | an existing key is never rewritten; a key file is whole |
| Cloud Storage section (`provisioner/buckets.go`) | position in the file | `ensureBucket`, `ensureVersioning` | races on creation; a backend without versioning | as for Pub/Sub |
| Cloud Storage client (`internal/client/storage.go`) | none | get, create, set versioning, each with a 30 s limit | library retries, errors recognised by their text | tolerated errors are the harmless ones |
| Command line (`cmd/gcp-emulator-provisioner`) | flags, environment | dispatch of sections, connection order, signals | the order of connecting and of sections | the key file does not wait for an emulator |
| Token stub (`cmd/gcp-token-stub`) | none | `/token`, `--ping`, shutdown | shutdown against server error | it stops when told to |

The sections call the clients; the clients call the endpoints. Runs share
nothing but the endpoints and the volume, so all their interaction goes through
resources that one run reads and another changes.

## Modules

| Module | Models | Uses |
|---|---|---|
| `Common` | strategies and optional values, shared by all sections | - |
| `Config` | types and validation of topics and subscriptions (`internal/config/config.go`) | `Common` |
| `PubSubClient` | client types, conversions, and the endpoint's answers (`internal/client/pubsub.go`) | `Config` |
| `PubSubDiff` | what a run decides about one resource: build, diff, merge (`topics.go`, `subscriptions.go`) | `PubSubClient` |
| `PubSubSection` | the state machine of several runs against one endpoint (`provisioner.go`, `topics.go`, `subscriptions.go`, `update.go`) | `PubSubDiff` |
| `PubSubProperties` | reference definitions, properties, the refinement | `PubSubSection`, `Reconciler` |
| `PubSubSection_proofs` | `SectionInv`: what a run relies on | `PubSubProperties`, `TLAPS` |
| `PubSubProperties_proofs` | `FullInv`: what a run leaves behind; the action properties and the refinement | `PubSubSection_proofs` |
| `Storage`, `StorageProperties` | the Cloud Storage section, its client and its part of the file (`buckets.go`, `storage.go`) | `Common`, `Reconciler` |
| `Credentials`, `CredentialsProperties` | the credentials section and the key files (`provisioner/credentials.go`, `internal/credentials`) | `Common` |
| `Reconciler` | abstract: what a section that reconciles resources promises | - |
| `Connect` | `retryUntilReady` and the two probes, with time (`client.go`) | - |
| `Command` | the process: flags, loading, connections, dispatch; composes the three sections (`cmd/gcp-emulator-provisioner`, `Provisioner.Run`) | instances of `PubSubProperties`, `StorageProperties`, `CredentialsProperties` |
| `Load` | reading, expanding and validating a file, several times (`Load`, `expandConfig`) | `Common`, `DayNotation` |
| `DayNotation` | durations in days and in Go's notation, in 64 bit (`ParseDuration`, `validateDurationRange`) | - |
| `TokenStub` | the token stub (`cmd/gcp-token-stub`) | - |
| `Storage_proofs`, `Credentials_proofs`, `Connect_proofs`, `Command_proofs`, `Load_proofs`, `TokenStub_proofs` | lemmas and theorems | the module they are named after, `TLAPS` |
| `MCPubSub`, `MCStorage`, ... | files, projects, endpoints and inputs for TLC | the module they are named after |

`Config`, `PubSubClient`, `PubSubDiff` and `DayNotation` have no variables; they define the
pure part of the code as operators under the names the code uses. An operator
with an underscore in its name (`delay_Constant`) is a mutant: a plausible wrong
version of the definition after it, which the properties are tested against.

### The Pub/Sub section

`PubSubSection` has the project at the endpoint (`live`, a partial function from
keys to messages), the paths this endpoint refuses to update and whether it echoes
a default push wrapper (`endpoint`), the file and dry-run setting of each provisioner (`cfg`, `dryRun`), and for each
provisioner the record `run[p]`:

| Field | Code |
|---|---|
| `pc` | `"loop"`: between two resources; `"create"`, `"batch"`, `"split"`: about to send a create, the whole mask, one path; `"ok"`, `"failed"`: returned |
| `pass`, `ti`, `si` | which loop of `ProvisionPubSub`, and the indices in it |
| `current` | what the last read returned, needed for the merge |
| `todo` | the mask, then the paths of it still to send |
| `warned` | fields reported in a warning |
| `history` | what happened around this run; used by properties only |

`settled` and the three counters are used by properties and bounds only.

| Action | Code |
|---|---|
| `ensureTopic`, `ensureSubscription` | the read, and every decision up to the first call that changes something |
| `create` | `CreateTopic`, `CreateSubscription`, with `AlreadyExists` as success |
| `applyBatch`, `applyPath` | the two calls of `applyPaths` |
| `topicsDone`, `subscriptionsDone`, `sectionDone` | the ends of the three loops |
| `Start`, `Rerun` | the process is started, started again after a failure, or run once more |
| `Interrupt` | a call fails without effect, or the process is killed |
| `LostReply` | a call takes effect and then the process fails |
| `EditByHand`, `DeleteByHand` | another client of the endpoint |

A step is one call to the endpoint or one turn of a loop, so anything can happen
between a read and the write that depends on it.

### The Cloud Storage section

`Storage` follows the same pattern with `live` the buckets, and with `backend`
for the kind of endpoint: Cloud Storage, or fake-gcs-server with or without
versioning. `ensureBucket` is the read with everything decided from it,
`createBucket` and `setVersioning` the two calls that change something. A call
that fails (`CallFails`, with or without effect) is told apart from a process
that is killed (`Killed`), because `CreateBucket` decides from an error's text
whether it is one: `says409` says that the text of every transport error contains
the digits (an address or a project id with them). A call that runs into its 30 second limit is a call that fails.

### The credentials section

`Credentials` has the volume (`files`), where a file is absent, empty, cut short,
a mixture of two keys, or a whole key; what the applications have loaded from
each file (`loaded`); and the files whose last write was cut short (`hurt`).
`ensureCredential` is the `os.Stat` and the generation of a key in memory;
`openFile` and `writeFile` are the two steps of `os.WriteFile`. `CutShort` ends a
run anywhere, inside the write too. `Target` says which file a path leads to,
so that two spellings of one path are two entries with one file.

### Connecting

`Connect` counts seconds. `Tick` lets one pass while the process waits in a probe
or in the `select`; a probe returns when the context is done, when its limit has
passed, or before that. An endpoint is up from `readyAt` on; a probe sent after
that is answered within `AnswerTime`. When a delay ends and the context is done
in the same second, either `DelayEnds` or `SleepCancelled` is taken, as `select`
may.

### The process

`Command` has `stage[p]`, where `main` and `run` are, and the variables of the
three sections, whose actions it uses through `INSTANCE`: `Enter` begins the next
section of `Sections(p)`, the section's own steps run while `stage[p]` names it,
and `Leave` goes on or exits by its result. `up` is the set of endpoints that
answer. The flags and variables a process is started with, and its file, are
`input[p]`. A connection is one step here, made if the endpoint is up and failed
if not; what happens inside it is `Connect`. Each connection begins with a probe
(`ListTopics`, `Buckets`), which reads and changes nothing, so an endpoint is asked
something before the first section begins.

### Loading

`Load` expands each text field and each map of a file, and validates the result. A
text is a reference to one variable or to none. `StringFields` and `MapFields` list
the fields of the types, `Expanded` the ones that `expandConfig` visits. `expandMap`
is a set of results, since Go iterates over a map in any order. `validate` keeps the
rules that relate fields: names that differ, a dead letter topic that is declared, a
push endpoint where there is a token, the bounds of a backoff; and durations with
their ranges, where a `never` to expire is let pass. What the rule of one field alone
says of a text (a pattern, a list of values, "is required") is the constant `Admits`.

`Written` says how many of which unit a text counts: days, or Go's hours, minutes or
seconds. `DayNotation` computes with five limbs of 11 bit, because TLC's integers are
narrower than a `time.Duration`; every unit is a multiple of 2^9 ns, so 55 bit of that
are exact.

### The token stub

`TokenStub` has `main` (start, select, shutdown, exit), the goroutine (`server`)
with its channel `errs`, and the connections as `net/http` sees them: new, active,
idle, closed. `ListenAndServe` may fail to listen, or fail later while it accepts
(`AcceptFails`). `Shutdown` waits in seconds (`ShutdownWaits`) while a connection is
new or active.

### The abstract specification

`Reconciler` says what the two sections have in common. It has a store, and runs
with a set of resources they declare and a subset they may update. A run that is
not a dry run may write one resource at a time, and only one it declares: create
it if it is missing, change it if it may update it. It deletes nothing, succeeds
only when everything it declares is there or something was deleted meanwhile, and
fails only with an excuse. `outside` counts the changes of others, so that a write
by a run cannot pass as one of theirs. Both sections implement it under the map in
their `Abstract == INSTANCE Reconciler WITH ...`; everything in between
(`"create"`, `"batch"`, `"split"`, ...) maps to `"running"`, so the reads and
decisions become steps that change nothing.

### What is abstracted

* Texts are elements of a set. Which of them are valid resource names is a
  constant; the name pattern itself is not modelled. Null bytes and durations
  that do not parse are left out, because validation rejects them first.
* A Go pointer is a set with at most one element.
* A duration counts half seconds: the coarsest unit in which a duration can fail
  to be a whole number of seconds, which is what the client truncates.
* Warnings are a set of (resource, field) pairs; other logging is left out.
* The endpoint is modelled from how the code and its comments use it: a create
  of what exists answers `AlreadyExists`; a subscription is not created, nor
  given a dead letter policy, without the topics it names; a mask is checked
  whole before anything is changed, and each path in it replaces a whole field.
  An endpoint may leave out the push wrapper when it answers with the default one
  (`Answered`). It does not fill in defaults by itself.
* A probe that is sent to an endpoint which is up succeeds: the pauses that gRPC
  makes by itself between two attempts to connect are not modelled.
* A deleted topic leaves its subscriptions as they are.

## What the runs check

A reference definition of "as declared" (`AsDeclared`) is given from the file and
the stored message alone, without the code's comparison. The properties:

| Property | Says |
|---|---|
| `OnlyFaultsFail` | a run of a valid file fails only when interrupted or when a resource is deleted under it |
| `TopicsComeFirst` | whatever is sent for a subscription, its topic and dead letter topic exist |
| `Converged` | after success, everything is as declared or was warned about |
| `RepeatSendsNothing` | a run after a successful one only sends paths the endpoint refuses |
| `WarningsArePrecise` | a warning names an immutable field or a refused path, never one that was only batched with it |
| `OmittedFieldsKept` | a run deletes nothing and changes only fields its file declares, with strategy update, and not in a dry run |
| `SeenLabelsKept` | labels and attributes that were read, and are still there, survive an update |
| `NeverSetBack` | a run under way only moves ahead, whatever others do: no resource is taken up, no create and no path sent twice |
| `EventuallyProvisioned` | a run that is started again after failing ends in success |
| `SectionInv` | the inductive invariant of the proofs |

| Run | Instance | Result |
|---|---|---|
| `one` | one provisioner; 24 files, four of which validation refuses; six projects; an emulator that leaves out the default wrapper, and the cloud; any dry-run setting; a fault, an out-of-band change, a rerun | holds |
| `two` | two provisioners with the same file or two files that share resources; an empty and a full project; a fault and a change | holds |
| `refine` | two provisioners on the emulator, files that differ in strategy, dry runs, a fault, a change: `ImplementsReconciler`, `EventuallyProvisioned` | holds |
| `settings` | one file that declares parts of a push config and of a retry policy: `OmittedSettingsKept` | violated, see below |

The other components:

| Property | Says |
|---|---|
| `StorageInv` | the inductive invariant of the proofs: types; `OnlyFaultsFail` as for Pub/Sub, with a backend without versioning as one more reason to fail; and what a run has passed stays provisioned |
| `Storage`: `Converged`, `RepeatSendsNothing`, `ImplementsReconciler`, `EventuallyProvisioned` | as for Pub/Sub; the last where versioning is implemented |
| `WarningsAreReal` | a warning is about a bucket that really differs, and never given on an emulator |
| `OnlyVersioningChanges` | versioning is the only thing a run changes on an existing bucket, and only as declared |
| `LoadedKeyKept` | a key that an application has loaded stays in the file unless an entry says update |
| `KeyFilesServed` | after success every file holds a whole key, unless a write of it was cut short, and the declared one where the entry says update |
| `CredentialsInv` | types, and `BrokenOnlyByFaults`: no sequence of runs leaves a file without a whole key, unless a write was cut short |
| `ApplicationsStart` | every application gets to load its key, unless a write was cut short |
| `StopsInTime`, `EventuallyEnds` | connecting ends, within five minutes and at once after a signal |
| `ComesUpInTime` | an endpoint that is up 31 s plus one probe limit before the deadline is connected to |
| `AttemptsNeverRunOut` | the time is always over before the attempts are |
| `NeverNil` | no section calls a client that was not made |
| `ExitZeroMeansDone` | exit 0 means that everything the selected sections declare is there |
| `NeverFailsByItself` | a process fails only for a fault, unusable input, an endpoint that it needs and is not up, or missing versioning |
| `OneProject` | keys and clients are for one project, wherever its id came from |
| `OnlyWhatIsAsked` | sections that are not selected, and dry runs, change nothing |
| `EventuallyExitsZero` | with usable input and emulators that come up, a restarted process ends with 0 |
| `NothingUnexpanded` | every text, map key and map value of a config is expanded, once, and keeps its place |
| `LoadsExactlyTheValid` | a file loads exactly when it is valid after expansion: durations and their ranges, names, references between resources |
| `StubInv` | types, the goroutine's channel is never full, and tokens that are handed out last |
| `GracefulExit` | the stub exits with 0 only on a signal and with no request unanswered |
| `EndsWhenItMust` | the stub ends after a signal, within the grace period, and when its server fails |

| Run | Instance | Result |
|---|---|---|
| `storage` | two runs: of one file out of eleven, two of which validation refuses, or of any two of three that disagree on location, versioning and strategy; Cloud Storage and both backends of fake-gcs-server; any dry-run setting; a fault, a change, a rerun | holds |
| `credentials` | one provisioner; 31 files with entries of every kind, two paths to one file, entries to refuse; an empty volume, an old key and a file that was cut short before; two faults, a rerun | holds |
| `connect` | probe limits of 30 and 60 s, five times of coming up, a signal at any second | holds |
| `command` | one process under 29 inputs beside one that refuses its flags; two full runs; a full run beside one of a section and beside a dry run; a fault at any step | holds |
| `load` | every text field a reference alone; each map with references as keys and values; every duration field with 26 durations in every unit, and `never`; pairs of backoffs; 49 environments; two loads | holds |
| `stub` | two clients, five kinds of request, five settings | holds |
| `cutshort` | one provisioner, one entry, one fault: `KeyFilesParse` | violated, see below |
| `down` | a full run, emulators that need not come up: `KeyWrittenWhileDown` | violated, see below |

### Bounds

Two provisioners are enough for every interaction between a reader and a writer;
they share one topic, one subscription and one dead letter topic that is
declared after its use, the order that makes the two passes matter. Each setting
of a subscription occurs alone or in a pair in some file and all together in
`FullSub`, against projects where it is absent, equal or different. Masks of two
paths, one of them refused, are enough for the batch to be split;
`FullSub` gives masks of up to nine. One fault and one change are enough to break
any single step; a fault and a change in one behaviour also occur. Files that
validation must refuse are included so that a weaker validation would be seen.

The times in `connect` include, for both probe limits, the last second at
which an endpoint may come up and still has to be met, and one that is too late.
For the key files, five pairs are more than a behaviour with two faults and a
rerun can use up, and two of them have a longer encoding, so that a write over an
old file shows whether the file was truncated. In `Command` each section has one
resource per kind: what a section does with several is its own module's business,
and here only the order of the sections and their results matter. Three keys or
three processes would add no pair of steps that two do not have.

Deadlock is not checked: the process is one-shot, and a state in which every run
has succeeded and the bounds are used up has no successor.

### Fairness

`FairSpec` has weak fairness for `ProvisionPubSub(p)`: the operating system
schedules a started process, and a failed one is started again, as the README's
deployment does with `restartPolicy: OnFailure`. There is no fairness for faults,
changes by hand or reruns. The bounds on faults and changes state that they stop
at some point, without which no run need ever succeed. `Storage`, `Credentials`
and `Command` take the same; `Credentials` adds that an application which found
no key tries again, and `FairStack` that the emulators come up. `down`
uses `FairSpec` without the latter. In `Connect` and `TokenStub` the process is
scheduled and time passes; nothing is assumed of endpoints, clients or signals.

## Where code and documentation differ

* **`settings`**: only push attributes are carried across an update, and a retry
  policy is compared and replaced whole. When a part of either drifts, the
  wrapper, the token or the bound that the file omits is reset, while the README
  says that omitting `push_wrapper` leaves what is there, and
  `docs/ARCHITECTURE.md` that an omitted value is left alone.
* **`cutshort`**: the key file is written in place. A run that dies in the write
  leaves a file that does not parse, and every later run takes it for a key and
  succeeds. `KeyFilesServed` is what holds.
* **`down`**: credentials come first among the sections, but both connections come
  before all of them, so no key is written while an emulator is down.
  `NeverFailsByItself` is what holds: of the endpoints, only one that the file has
  something for can keep a process from its keys.

### Limits of the properties that hold

Some properties say a little less than one would wish, because the code does:

* `SeenLabelsKept` speaks of labels and attributes the run has read. One that
  appears between the read and the update is removed, since the mask replaces the
  whole map.
* `Converged` of the Pub/Sub section is checked and proved for files without empty label
  values: `labelsSubset` reads a missing key as `""` and never adds such a label.
  `RetryMet` and `PushMet` look only at what a file declares.
* `Converged` of the Cloud Storage section is checked and proved without `says409`: with it a
  create that failed may count as one that found the bucket there.
* `LoadedKeyKept` is checked for one provisioner at a time: the check for a file
  and the write are separate steps, and of two runs that both find none the second
  replaces the key of the first.
* `AttemptsNeverRunOut` says that the attempt limit never decides: an endpoint that
  refuses every connection is given up after fourteen probes.
* `NothingUnexpanded` lets the value of either survive where two keys of a map expand
  to one: Go's map order decides, so two loads of one file may differ there.
* `RepeatSendsNothing` is about endpoints that fill in no defaults. One that completes
  a retry policy with one bound, or a dead letter policy without attempts, is outside
  the model.
* `LoadsExactlyTheValid` excludes days that do not fit into 64 bit of nanoseconds:
  213504 of them wrap to about 25 minutes, which is accepted.

## What is proved

The proofs are about `Spec`, for every value of the constants that satisfies the
module's assumption (the constants have their types; the empty text is a text and
no resource name; for `Connect`, no answer takes longer than a probe may last):
any number of runs, any files, any project or volume at the start, any endpoint,
any bounds. Each module of proofs has an inductive invariant, one lemma for each
action, and the theorems at its end. Where the invariant is no property of a run
of its own, it was checked with TLC on the instances of the runs first.

| Theorem | States | For |
|---|---|---|
| `PubSubSection_proofs`: `SectionInvariant`, `FailsOnlyForOutsideReasons`, `TopicsExistBeforeUse` | `SectionInv`, `OnlyFaultsFail`, `TopicsComeFirst` | - |
| `PubSubProperties_proofs`: `FullInvariant` | `FullInv` | - |
| `WarnsPrecisely`, `RepeatIsSilent` | `WarningsArePrecise`, `RepeatSendsNothing` | - |
| `SuccessMeansProvisioned` | `Converged` | `LabelsHaveValues` |
| `OnlyDeclaredFieldsChange`, `SeenLabelsAreKept` | `OmittedFieldsKept`, `SeenLabelsKept` (action properties) | - |
| `EveryStepCounts` | `AllInFile`, `Advances`, `NeverSetBack` (a run takes finitely many steps) | - |
| `SectionImplementsReconciler` | `ImplementsReconciler` (refinement) | - |
| `Storage_proofs`: `StorageInvariant`, `FailsOnlyForOutsideReasons`, `WarnsOnlyOfRealDrift` | `StorageInv`, `OnlyFaultsFail`, `WarningsAreReal` | - |
| `SuccessMeansProvisioned`, `RepeatIsSilent` | `Converged`, `RepeatSendsNothing` | `ErrorsAreTold` |
| `WritesOnlyVersioning` | `OnlyVersioningChanges` (action property) | - |
| `EveryStepCounts` | `InFile`, `Advances` (a run takes finitely many steps) | - |
| `SectionImplementsReconciler` | `ImplementsReconciler` (refinement) | `ErrorsAreTold` |
| `Credentials_proofs`: `CredentialsInvariant`, `LoadedKeyIsKept` | `CredentialsInv`, `LoadedKeyKept` | `[]OneAtATime` |
| `KeyFilesAreServed` | `KeyFilesServed` | `Alone` |
| `Connect_proofs`: `ConnectInvariant`, `ConnectingStopsInTime`, `TimeEndsTheLoop`, `ReadyEndpointIsMet` | `ConnectInv`, `StopsInTime`, `AttemptsNeverRunOut`, `ComesUpInTime` | - |
| `TokenStub_proofs`: `StubInvariant`, `ExitIsGraceful` | `StubInv`, `GracefulExit` | - |
| `Load_proofs`: `EverythingExpanded`, `LoadsTheValid` | `NothingUnexpanded`, `LoadsExactlyTheValid` | - |
| `Command_proofs`: `NoNilClient`, `KeysForTheProject` | `NeverNil`, `OneProject` | - |
| `ExitZeroIsDone` | `ExitZeroMeansDone` | `ErrorsAreTold` |
| `AskedOnly` | `OnlyWhatIsAsked` (action property) | - |
| `OnlyOutsideFails` | `NeverFailsByItself` (action property) | - |

The conditions in the last column are those under which the code keeps its
promise; without them it need not.

* `LabelsHaveValues`: no declared label or push attribute has the value `""`. A
  missing key of a Go map reads as `""`, so `labelsSubset` takes such a label for
  one that is there and never adds it.
* `ErrorsAreTold` (not `says409`): no transport error has the digits 409 in its
  text. `isBucketExistsError` would take it for a conflict, and the run would
  succeed without the bucket.
* `OneAtATime`: no two runs on a volume overlap. The check for a key file and the
  write are separate steps, and `os.WriteFile` truncates before it writes.
* `Alone`: there is one provisioner. Runs one after the other of two files that
  disagree replace each other's keys, which neither of them can see.

### The Pub/Sub section: what a run relies on

`OnlyFaultsFail` is not inductive: to know that a call is not answered with an
error one has to know that its resource and the topics it names exist.
`SectionInv` adds, for each run: the file is valid; the run stands at a resource
of its file (`Positioned`); an update has a non-empty mask of mutable paths of
the right kind and a read message of that kind, for a resource that exists unless
somebody deleted one (`Pending`); and the topics dealt with so far, which in the
second pass are all topics of the file, exist unless somebody deleted one
(`Prepared`). Validation turns the last into the existence of the dead letter
topic. The proof has one lemma for each action. What they share is stated once:
the types of each conversion; that a step which only adds resources keeps the
invariant of the other runs (`OthersKeep`, `StepOfOne`); and what advancing,
failing or going on to send requires (`AdvanceStep`, `FailStep`, `SendStep`).

### The Pub/Sub section: what a run leaves behind

`Converged` and `RepeatSendsNothing` speak of the end of a run, so the invariant
has to follow what the run has done while others go on. `FullInv` does so in terms
of *drift*: the paths that the code's own comparison would put in a mask or report
as immutable (`DriftAt`). It adds to `SectionInv`, for each run:

* `Precise`: warnings are of immutable fields and refused paths;
* `Entitled`: an update under way is under strategy update, for declared fields;
* `Attached`: what lies behind the run exists, unless somebody deleted a resource;
* `Kept`: among runs of one file, what still drifts behind the run was warned
  about, and where it stands, what drifts was warned about or is about to be sent;
* `Rests`: on a settled project only immutable and refused paths drift, and a
  repeated run has nothing else to send.

The argument has three parts. *Messages*: for every field, what a create or a path
of an update writes reads back without drift (build, to the wire, from the wire,
diff), also where the endpoint leaves out the wrapper (`AnsweredDrift`), and a path that is applied leaves the drift of the others alone; so a write
by a run of the same file never adds drift, whoever makes it. *Steps*: every step
of a run is of one of five kinds, which are all that matters of it: it begins an
update (`Enters`), is done with a resource (`Leaves`), goes on sending (`Stays`),
fails (`Fails`), or turns to the next loop or ends (`Turns`); one lemma for each
action gives its kind, and one for each kind keeps the invariant. *Meaning*: no
drift means as declared (`AsDeclared`), field by field; this is where
`LabelsHaveValues` is needed, and only here. The refinement and the action
properties take from `FullInv` what they need and go through the actions once more.

`EveryStepCounts` says why a run ends. Its place is ordered by the loop it is in,
the topic, the subscription, how far it is with that resource (reading, sending the
whole mask, sending path by path) and the paths left (`Ahead`). Every step of a run
under way takes it ahead, whatever the endpoint answers; other runs and edits by
hand never move it; and it stays within its file (`AllInFile`). A run with *n*
topics and subscriptions therefore takes finitely many steps, however the project
changes under it, and splitting a refused mask cannot go on for ever. This is the
part of `EventuallyProvisioned` that is safety; that the steps are taken, and that
a failed run is started again, is fairness.

### The Cloud Storage section

`StorageInv` has the same parts, with `Handled` (exists, has the declared
versioning or may not be changed, and differences were reported) in the place of
drift: `Placed`, `HasReason`, `WarnsTruly`, and where errors are told `Passed`,
`Kept` and `Rests`. A bucket that appears while a run is about to create it was
created by another run, and is `Handled` when that one has the same file.
`EveryStepCounts` is as above, with the bucket and the call it is at.

### The credentials section

`CredentialsInv` says of a file without a whole key that it is absent, hurt by a
write that was cut short, or being written by the one run that is at work; that is
what `OneAtATime` is for. `LoadedKeyKept` then needs only a look at each action,
since a run without strategy update opens only a file that was absent.
`KeyFilesServed` needs `AllServedSoFar`, the same claim for the entries that a run
has passed, which another provisioner could undo.

### Connecting

`StopsInTime` apart, the properties are not inductive. `ConnectInv` adds `Paced`, which says that no
probe and no delay lasts longer than it may and that attempt *n* begins no
earlier than the sum of the delays before it, and `NotMissed`, which says that
only a probe sent before the endpoint was up is followed by a delay. At the
seventeenth attempt the sum would be 361 s, more than the 300 s that `StopsInTime`
allows; and a deadline that passes without a connection lies within one probe, one
delay and one answer of the moment the endpoint came up. `DelayBounds` computes
the delays of the sixteen attempts.

### The process, the stub and loading

`CommandInv` follows a process: after loading, the file is valid and the project
the same everywhere (`LoadedInv`); the clients of the selected sections are made
(`AdminsInv`); what is left to run is selected, credentials in front (`TodoInv`);
and the key files of the entries passed, or of all of them once the section is
over, are there (`CredentialsPart`, `KeysInv`). The credentials section is reached
through its instance; its actions are shown to move the run as `Moves` says.

`DoneInv` adds what the sections leave behind, for `ExitZeroMeansDone` and
`OnlyWhatIsAsked`. A section that is running has created everything behind its
place in the file, and what it is about to update is there (`PubSubPart`,
`StoragePart`; `PubSubMoves` and `StorageMoves` say it of each action); a section
that is over, because the process has exited or because it is neither running nor
left to run, has left all of its part of the file (`OverPart`), which is where
`SectionsComplete` and `TailComplete` show that no selected section is skipped.
Nothing in `Command` deletes a resource, so other processes only add to it
(`ResourcesStay`). The setting is the one resolved at the start (`DryRunPart`), and
no section is at a write in a dry run (`KeysPart` for the key files).

`NeverFailsByItself` lists what makes a process fail: a call that fails or a kill,
an input that is not `Usable`, an endpoint that is not up when the process connects,
or one without versioning while buckets are provisioned. Nothing that other
processes do, that an earlier start left behind or that the project holds is among
them. `SendInv` adds to `DoneInv` what a section sends: it is for a resource of the
file, an update names at least one path and only mutable ones of its kind
(`SendsWell`), and versioning is set on a bucket that is there. With the topics that
`DoneInv` knows to exist, and the dead letter topics that validation requires in the
file, no create and no update is answered with an error (`CreatesSucceed`,
`UpdatesSucceed`).

`StubInv` and `GracefulExit` are inductive together. `LoadInv` says that a load
which has ended gave one of the results that `expandConfig` allows for the file and
the environment, which never change. `NothingUnexpanded` is then a fact about the
expansion: every field of the types is visited (`VisitsEveryField`), and each result
of `expandMap` stands for the map as written (`ExpandedMapStands`).

`LoadsExactlyTheValid` is a fact about the arithmetic of `DayNotation`, where a
duration is a number of 64 bit, kept (in units of 2^9 ns) as five digits to the base
2048. The carry of a multiplication is a recursive function, but over the five digits
only, so `CarryExists` writes its values down and no induction is needed. With
`Value`, the number that five digits stand for, multiplication is shown to be the
product modulo 2^55 (`MulValue`, exact for what fits by `MulExact`) and the comparison
to be `<` (`LessIsLess`). So a duration that fits is parsed to its nanoseconds
(`ParsedValue`), negative ones included, and lies between the limits of its field,
which are themselves products, exactly for the counts of `RangeOf`
(`RangesAreRight`, `DurationsAreRight`); two backoffs compare as their seconds do
(`BackoffsCompare`, `RetryIsRight`). `ValidIsAcceptable` puts this together with the
expansion.

### Only model-checked

All liveness (`EventuallyProvisioned`, `ApplicationsStart`, `EventuallyEnds`,
`EventuallyExitsZero`, `EndsWhenItMust`): liveness under fairness is out of the
prover's reach. What they rest on is proved: a run of the two sections of an
endpoint takes finitely many steps (`EveryStepCounts`), and a process with a usable
input fails only for a reason outside of it (`OnlyOutsideFails`).

## Plan

All components are modelled, and every safety and action property of a passing run
is proved. What is left is the liveness listed above. The conditions
`LabelsHaveValues`, `ErrorsAreTold`, `OneAtATime` and `Alone` mark where a change
of the code could strengthen the theorems.

## Not modelled

* Logging, wording of errors, `--version`: output without effect on the rest.
* YAML parsing, the name patterns, null bytes and the syntax of durations: which
  texts are valid, and what a duration counts, are constants.
* Key generation and encoding (RSA, PKCS #8, PEM, JSON): a key is its fields and
  its pair. Directories and permissions of the key file.
* Building and closing the clients, the endpoint's URL, TLS, gRPC and HTTP below
  the calls. A Pub/Sub call that is never answered: it has no deadline, and only a
  signal ends it.
* Defaults and quotas of the endpoints, beyond location and storage class:
  nothing in the repository says what they are.
