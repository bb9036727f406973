# Chalkular: a verification development

Chalkular turns chalk reports into Ocular pipelines. Reports arrive from an SQS
queue or by HTTP upload; the scheduler evaluates them against the cluster's
ChalkReportPolicies (CEL expressions compiled once per policy generation) and
creates one pipeline per extracted value. Inside a pipeline, the downloader fetches the
target and the uploader puts the scanners' results into a bucket and reports
them. This directory holds TLA+ models of that system, the TLC
instances that check them, and TLAPS proofs about every instance.

Paths below are relative to the repository; `PROJECT.json` has the machine-readable
lists (components, runs, variants, the map from definitions to source lines,
findings, hazards, theorems).

## 1. Inventory

| component | source | state it keeps | operations | hard behaviour | what makes it correct |
|---|---|---|---|---|---|
| report scheduler | `internal/reports/{scheduler,pipelines,client}.go` | an unbuffered event bus, one result channel per event, locals of `processReports` | `Enqueue`, `Start`, `processReports`, `createPipelinesForReport`, `countActivePipelines` | blocking clients, counts from a lagging cache, partial failure, shutdown in the middle of an event | one event at a time, one answer each; an error leaves no pipeline; an event that passes the threshold adds one batch at most |
| SQS listener | `internal/reports/sqs/listener.go` | the current batch, one goroutine per enqueued message | `Start` | redelivery, expired receipts, lost replies, shutdown while blocked on the bus | a message leaves the queue only after a complete evaluation |
| SQS parsers | `internal/reports/sqs/parsers.go` | locals of the loop over the records of a notification | `RawReportParser`, `S3EventReportParser` | several records per message, one of which fails; objects written again, or the shutdown, between two records | an event is a whole notification, with each object as it was announced |
| HTTP server | `internal/reports/httpserver/*.go` | one handler per request | `scheduleReport`, `authorizationMiddleware`, `Start` | replies before the work is done, shutdown with blocked handlers | uploads are not starved, and each is on the bus once |
| policy compiler | `internal/policy/compiler.go` | an LRU cache of compiled programs by policy UID | `Get`, `Remove` | used by two goroutines with different views of the same policy | the program of a policy is that of its spec |
| policy evaluation | `internal/policy/policy.go`, `internal/reports/pipelines.go` | none | `Matches`, `Extract` | one of several items fails, limits, creations that fail | all pipelines of a policy or none are generated, and what is not created is told of |
| policy reconciler | `internal/controller/chalkreportpolicy_controller.go` | the policy's finalizer and Ready condition | `Reconcile` | lagging informer cache, update conflicts, deletion racing evaluation | Ready is true; edits survive; it converges |
| admission webhook | `internal/webhook/v1beta1/` | none | `Default`, `ValidateCreate`, `ValidateUpdate` | it also sees the reconciler's updates, of policies stored before it was enabled | an adopted policy keeps its users' spec but for the default, and its condition stays right |
| downloader | `cmd/downloader/main.go`, `internal/downloaders/*.go` | files on a volume, an exit code | `main`, `DownloadBuildContext`, `writeTar`, `DownloadDockerImage`, `ExtractChalkFromImage` | layers that fail one by one, entries of all kinds over one another | exit code 0 means that every directory and regular file of the layers was written; links and other entries are skipped |
| uploader | `cmd/uploader/main.go` | objects in a bucket, the results to report, an exit code | `main`, `uploadToS3`, `triggerIngest` | some uploads fail before the report, replies are lost, it is started again, pipelines share the bucket | what is reported is the whole of a pipeline, and its own |
| manager wiring | `cmd/controller/main.go` | the process: one context, shared clients | `main` | cancellation seen by each goroutine at its own moment, restarts | what the clients and the scheduler promise each holds of the two together, and through restarts (`Manager`); the restarts of `PolicyLifecycle` |
| API types, AWS helper, generated clients, Helm patch tool | `api/`, `internal/utils`, `pkg/generated`, `hack/` | none | none | none | not modelled |

How they interact:

- The listener and the HTTP handlers call `Enqueue`: they **block** on an unbuffered
  channel until the scheduler's only goroutine receives, then have a channel for
  the answer. The listener starts a goroutine that reads the answer and deletes
  the message; the handlers drop the channel and reply.
- The scheduler reads pipelines and policies from the **informer caches** of the
  manager's client, which follow the API server with a delay, and creates
  pipelines in the API server.
- The reconciler and the scheduler share the **compiler's cache**; the mutex
  covers one `Get` or `Remove`, not the copy of the policy it is called with.
- The **webhooks** are called by the API server inside every create and update of a
  policy, also those the reconciler makes.
- All goroutines share one **context**, cancelled on shutdown: between two steps of
  any of them, and looked at by each in other places.

## 2. Modules

| module | models | relation to the others |
|---|---|---|
| `EventService` | abstract: what the scheduler promises its clients, one event at a time | implemented by `Scheduler`, used by `Intake` |
| `Scheduler` | `Start`, `processReports`, `createPipelinesForReport`, the count, the cluster around it | implements `EventService` |
| `Scheduler_proof` | theorems about `Scheduler` | |
| `ReportDelivery` | abstract: at-least-once evaluation, as the publisher of a message sees it | implemented by `Intake` |
| `Intake` | listener, waiting goroutines, HTTP handlers, queue, shutdown and restart, **composed with** `EventService` | implements `ReportDelivery` |
| `Intake_proof` | theorems about `Intake` | |
| `S3Intake` | `Intake` with the loop of `S3EventReportParser` in the place of its steps `Parse` and `ParseFails`, and the object store | extends and implements `Intake` |
| `S3Intake_proof` | theorems about `S3Intake` | uses those about `Intake` |
| `Manager` | listener, waiting goroutines, HTTP handlers and queue in front of the **detailed** scheduler, in one process that is shut down, dies and is started again | composes `Intake` and `Scheduler`; implements `Intake` and `ReportDelivery` |
| `Manager_proof` | theorems about `Manager` | uses the lemmas of `Scheduler_proof` and `Intake_proof` |
| `PolicyLifecycle` | API server with the admission webhooks, informer, `Reconcile`, `Compiler`, and the scheduler as the compiler's second user | |
| `PolicyLifecycle_proof` | theorems about `PolicyLifecycle` | |
| `PolicyEvaluation` | `Matches`, `Extract`, the limit, the pipelines built and created, the events recorded, for one policy and one report | implements the scheduler's evaluation of a policy |
| `PolicyEvaluation_proof` | theorems about `PolicyEvaluation` | |
| `Downloader` | the downloader program, from image reference to exit code | |
| `Downloader_proof` | theorems about `Downloader` | |
| `Uploader` | the uploader programs of pipelines that share a bucket, with their executions started again, and the ingest service | |
| `Uploader_proof` | theorems about `Uploader` | |
| `MCS3Intake`, `MCManager`, `MCPolicyLifecycle`, `MCPolicyEvaluation`, `MCDownloader`, `MCUploader` | constants of the instances; `Scheduler` and `Intake` are instantiated by their `.cfg` alone | |

The composition replaces a copy by a contract: `Intake` does not contain the
scheduler's states but the service it implements, and `Scheduler` is shown to
implement that service (`ServesEvents`, `KeepsServing`). That what `Intake` shows
about messages holds with the detailed scheduler in its place, crashes included, is not
left to this argument: `Manager` puts it there, and implements `Intake`
(`ServesClients`) and its abstract specification (`Delivers`). In the same way
`Intake` has one step for a parser that succeeds or fails, `S3Intake` has the parser,
and implements it (`ImplementsIntake`, `ParserImplements`): what is proved of
`Intake` holds of it. `Scheduler` in turn chooses freely how many pipelines a policy
yields; the code that computes them is `PolicyEvaluation`, whose steps are those
choices and the creations after them (`ImplementsScheduler`), so that the limit
`SoftLimit` counts on is the one `createPipelinesForReport` keeps.

### State and actions

**Scheduler.** `sendq` is the queue of goroutines blocked on the channel `eventBus`;
`result[e]` the content of the buffered channel `Enqueue` returns; `phase` where
`Start` is: `select`, `count` (the threshold), `list` (`policies.List`), `evaluate` (the
loops over reports and policies, then over the generated pipelines), `answer` (the
send on the result channel), `sleep`. `pending`, `snapshot`, `left`, `generated` are
the locals of `processReports`. One action per step that another goroutine, the
cluster or a cancellation can come in between. What CEL computes is data: an
evaluation is a member of `Evaluations`, one field per test in the order of the
code, so that every early `continue` is reachable. `waiting`, `active` and `cached` are
the cluster's: pipelines created but not started, running, and running as the
informer's index counts them. `made`, `cut` and `lag` are history, read by no guard.

**Intake.** The queue is external: `msg[m]` and `receipts[m]` say where a message is and
how often it was received; a delivery `<<m, r>>` is the event the scheduler sees.
`listener` is the position of `Start`'s loop; `sending` the delivery it is blocked with;
`waiters` the goroutines. Deleting with an old receipt may be ignored by the queue.
`Parse` and `ParseFails` are the whole parser. A server that cannot listen is only
logged (`ListenFails`). Restarting loses every goroutine and keeps the queue and the
cluster.

**S3Intake.** A record names an object and its ETag, here the number of times the
object was written; the bucket announces what was written (`Notify`) and goes on
being written (`PutObject`). `next`, `merr` and `reports` are the parser's locals.
GetObject with IfMatch reads the announced version or fails; a record may also fail
by the request or the contents, and the loop goes on with the next one
(`RecordFails`). `multierror.Append(err, err)` keeps the last error only, which
changes what is logged and not whether there is one. A body that is no notification, or
has a key that does not decode, is `Malformed`. `handed` is history: the reports that
went on the bus with each delivery.

**Manager.** The variables of `Scheduler` and those of `Intake` but for the scheduler's:
`sched` and `outcome`, which `Intake` knows it by, are functions of `phase` and `result`. The bus is
shared: a client that enqueues and the channel it enqueues on make one step (`PutOnBus`), all other
steps are of one side (`SchedulerStep`, `ClientStep`). `MRestart` loses what the
scheduler's goroutine held (`ForgetEvent`) and what the clients' did; pipelines that were created
stay, and the new process waits for its caches to be synchronised before it starts anything.

**PolicyLifecycle.** `store` is the API server, with UIDs, generations, finalizer,
deletion timestamp and the Ready condition with its observed generation; every
version goes through `watch` to `informer`, and its delivery queues the name in
`dirty`. `Reconcile` is split where another actor may come in: it reads its copy
(`StartReconcile`), drops programs (`Forget`), compiles (`CompilePolicy`), writes (`Write`,
refused unless the copy is the stored version) or is refused and retried
(`WriteFails`). The webhooks, when `webhooks` says they are enabled (`ENABLE_WEBHOOKS`,
which a new deployment may change), are in every create and update: `Admission`
fills in the downloader, `Admits` refuses a template with a target, and the
reconciler's updates of the finalizer go through both, so that an adoption may give
the policy another spec and generation than the copy it was computed from. Updates of
the status do not go through them (`Allowed`). `ListPolicies` and `EvaluatePolicy` are
the scheduler's use of the same cache with its own copies. An LRU evicts any other entry: which one affects
performance only.

**PolicyEvaluation.** An expression is the kind of value it has under each
activation; the content of a target or parameter is the activation it came from,
which is what tells mixed-up items apart. The pipelines are then created one by one
with failures; `events` are those recorded on the policy, the only place where a
failure is told, and `before` the pipelines created for earlier groups of the same
event. For the scheduler (`Sched`) the policy is in `left` until its pipelines are
generated or it is skipped, `generated` is those not tried yet, and `waiting` those
created: `Match` and each extracted value are invisible to it, and generating them or
giving up is its `EvaluatePolicy` with the one `Verdict` that the report and the policy
call for: what all values are (`WellFormed`) and how many, computed from the whole list
while the code goes through it item by item.

**Downloader.** The file system as far as it goes here: at a path there is nothing, a
directory or a file, whose bytes are the numbers of the layers they come from. The
entries of a layer are of any kind at any path, so that a directory may come where a file
is, a file where a directory is, and both below a file. `WriteDir` makes the
directories that are missing and leaves what is there, be it a file (`os.Stat`);
`WriteFile` needs its directories and writes over the beginning of a file;
`SkipEntry` is everything the switch of `writeTar` has no case for, links above all;
`LayerFails` is whatever else may happen, with what it leaves of a path or a file. The
target directory is there from the start, on the volume of the pipeline.

**Uploader.** One process for each pipeline, each a sequence of steps with a failure at
any of them; `bucket` says which pipeline and file an object comes from, and an object
is named by the prefix and the file's name only. PutObject and the ingest request may do
what they were asked to and fail all the same (a lost reply, a timeout). `Restart` is
the program started again, after it died or exited with an error, with nothing of its
earlier execution but what is in the bucket and at the ingest service.

Definitions marked `\* Variant:` are what a plausible mistake would make of the
definition below them: no module uses them. `PROJECT.json` pairs each with the
property that it breaks ("mutants").

## 3. Runs

| run | what it shows | bounds, and why they are enough |
|---|---|---|
| `scheduler_service` | `TypeOK`; `RejectedLeavesNothing`; `SoftLimit`; the scheduler implements `EventService` (`ServesEvents`), with its fairness (`KeepsServing`), and answers every event unless shut down (`EveryEventAnswered`) | 3 events (one served, one waiting behind one waiting), 2 reports of 0 to 2 values, threshold 2, limit 1: the limit is passed, the threshold met from below and above with a cache that lags, and the second report of an event fails after the first generated pipelines |
| `intake_service` | `TypeOK`; `DeletedOnlyAfterEvaluation`; `NoOrphanWaiter`; `AcknowledgedIsReceived`; `WaitersEnd`; `UploadsReturn` | 1 message received twice, 1 upload, 1 restart: an old receipt, an answer and a shutdown can meet, in two lives of the process |
| `intake_batch` | `S3Intake`: `S3TypeOK`; `OneEventPerClient`; only whole notifications are evaluated and deleted (`EvaluatedAsNotified`); at-least-once delivery (`AtLeastOnce`); the parser implements its step of `Intake` (`ImplementsIntake`) | batches of up to 2 messages, one a notification of 2 objects of up to 2 versions and one malformed, each received twice, 1 restart: one delivery waits while the other is parsed or blocked, and expires; a record fails before or after another was read; an object is written again before, between and after |
| `manager_service` | `MTypeOK`; an error means no pipeline (`RejectedLeavesNothing`) and an event that passes the threshold adds one batch (`SoftLimit`), also after a crash in the middle of an event; clients and scheduler together are an `Intake` (`ServesClients`), and at-least-once delivery (`Delivers`) | 1 message received up to twice and 1 upload, of which the scheduler sees any two (`MaxEvents`, a constraint on histories), 1 report of 0 or 1 value, threshold 1, limit 1, 1 restart: a process dies between two creations, or between a creation and its answer, and the message is received again |
| `intake_shutdown` | finding: the listener does not stop | 1 upload, 1 message |
| `policies` | `TypeOK`; `ProgramOfItsSpec`; `ReadyIsTrue`; `EditsSurvive`; `NothingIsUndone`; `Converges` | 1 name used by 2 policies, 4 specs (one without a downloader, one with it, one broken, one refused by the webhook), 2 generations by edits and two more by adoption and deletion, a cache of one program (every insertion of another key evicts), 1 failed update or restart, the webhooks enabled or not before and after it |
| `evaluation_extract` | `TypeOK`; `OnePipelinePerItem`; `CreatedOrTold`; the evaluation is the step `Scheduler` has for it, with the outcome the whole list of values calls for (`ImplementsScheduler`) | all lists of up to 3 of 2 items, all kinds of values, limit 2: below, at and above it; each creation may fail |
| `evaluation_target` | finding: a documented target list is refused | same |
| `creation_count` | finding: the count in the PipelinesCreated event | same |
| `downloader_exit` | `TypeOK`; exit code 0 means that the target is the tree of the directories and regular files of all layers (`ExitMeansWritten`); `LastLayerOnTop` | all contexts of up to 2 layers of up to 2 entries, each a directory, a file of size 0 to 2 or another entry at one of three paths below one another, and all images, with a failure at any step: directories made on the way, links, a file and a directory at one path in either order, an entry below a file, and a file made longer or shorter |
| `downloader_truncate` | finding: files are not truncated | same |
| `uploader_exit` | `TypeOK`; `ReportsAreWhole`; `ExitMeansReported`; `ReportedObjectsAreOwn` | 2 pipelines of up to 2 files out of 3, two of them of the same name, with the same prefix or not, each executed up to twice: a file overwritten by the other pipeline between its upload and its report, and a second report after a lost reply |

Bounds are constants whose names begin with `Max` (in guards or in the sets inputs
come from); the receipts, restarts, UIDs and generations they bound only grow, so
a bound cuts histories short and forbids no step in the histories it keeps.

**Deadlock** is checked for `policies` only. The other systems may really stop: the
scheduler and the listener when they are shut down, a client that never sends, and
`PolicyEvaluation`, `Downloader` and `Uploader`, which are programs that end.
`Manager` stops as its parts do.

**Fairness.**
- `Scheduler!FairSpec`: weak fairness of the goroutine's steps (`Serve`). Its
  calls (List, Create, events) return, with a result or an error. Nothing is assumed of the cluster, the clients or the shutdown. The select between the
  bus and the context stays a choice, with no fairness between the two.
- `Intake!FairSpec`: weak fairness of the service, justified by `KeepsServing` (the
  scheduler implements `EventService!FairSpec`), of the listener's loop, of each
  waiting goroutine, each handler's reply and of closing the server: a runnable
  goroutine runs, and the SQS calls return. Nothing is assumed of publishers,
  users, the visibility timeout, the shutdown and restarts.
- `PolicyLifecycle!FairSpec`: weak fairness of the watch's deliveries, per name, and
  of the reconciler's worker. Nothing is assumed of users, the scheduler, failures.
- `S3Intake`, `Manager`, `PolicyEvaluation`, `Downloader` and `Uploader` state no fairness: their
  properties are of safety.

`UploadsReturn` and `EveryEventAnswered` hold *unless the manager is shut down*, which
is what the code gives: after `Stop` nobody receives. `Converges` excepts a policy
that the enabled webhooks refuse: one stored while they were disabled, which can then
be neither adopted nor deleted until it is edited or they are disabled again.

## 4. Proofs

All theorems are about `Spec` for every value of the constants, under the named
assumptions of the modules: `None` is none of the values it is told apart from,
bounds are naturals, limits are integers (zero and negative ones included),
the cache has at least one entry (1024 in the code; the LRU refuses 0), policies are
finitely many (the list of one API call), the events on the manager's bus are those its clients put there, and defaulting a spec twice is defaulting it
once.

| theorem | says |
|---|---|
| `Scheduler_proof!TypeCorrect`, `RejectionIsClean`, `LimitHolds`, `SchedulerServes` | `TypeOK`, `RejectedLeavesNothing`, `SoftLimit`, `ServesEvents` |
| `Scheduler_proof!AnswerIsNear` | an event is answered within `Longest` steps of the goroutine, which nobody puts off and of which the last does not wait for the client |
| `Intake_proof!TypeCorrect`, `OneEventEach`, `NothingIsLost`, `WaitersAreServed`, `UploadsAreReceived`, `IntakeDelivers` | `TypeOK`, `OneEventPerClient`, `DeletedOnlyAfterEvaluation`, `NoOrphanWaiter`, `AcknowledgedIsReceived`, `AtLeastOnce` |
| `S3Intake_proof!ParserTypeCorrect`, `ParserImplements`, `NotificationsAreWhole`, `ParserDelivers`, `ParserKeepsClients` | `S3TypeOK`, `ImplementsIntake`, `EvaluatedAsNotified`, and `AtLeastOnce`, `OneEventPerClient`, `NoOrphanWaiter` and `AcknowledgedIsReceived` of `S3Intake` |
| `Manager_proof!ManagerTypeCorrect`, `RejectionIsCleanAfterRestarts`, `LimitHoldsAfterRestarts`, `ManagerServesClients`, `ManagerDelivers` | `MTypeOK`, `RejectedLeavesNothing`, `SoftLimit`, `ServesClients`, `Delivers` of `Manager` |
| `Manager_proof!ManagerDeletesEvaluated`, `ManagerWaitersAreServed`, `ManagerReceivesUploads` | `DeletedOnlyAfterEvaluation`, `NoOrphanWaiter`, `AcknowledgedIsReceived` of the clients of `Manager` |
| `PolicyLifecycle_proof!TypeCorrect`, `ProgramsAreRight`, `ReadyIsHonest`, `EditsAreKept`, `UpdatesUndoNothing` | `TypeOK`, `ProgramOfItsSpec`, `ReadyIsTrue`, `EditsSurvive`, `NothingIsUndone` |
| `PolicyEvaluation_proof!TypeCorrect`, `AllOrNothing`, `NothingIsSilent`, `EvaluationIsOfScheduler` | `TypeOK`, `OnePipelinePerItem`, `CreatedOrTold`, `ImplementsScheduler` |
| `Downloader_proof!TypeCorrect`, `ExitIsHonest`, `LastLayerWins` | `TypeOK`, `ExitMeansWritten`, `LastLayerOnTop` |
| `Uploader_proof!TypeCorrect`, `NoPartialReport`, `ExitIsHonest`, `ObjectsAreOwn` | `TypeOK`, `ReportsAreWhole`, `ExitMeansReported`, `ReportedObjectsAreOwn` |

**Scheduler.** `RejectedLeavesNothing` is not inductive: it says nothing of the event
being processed, which could be rejected after it created something. `AttemptOK` adds
that the current event has tried to create pipelines only once all its reports were
evaluated (after which nothing fails) or with a nil answer pending; `TriedOK` adds
that no other event has but those answered nil. `BusOK` (clients on the bus are
distinct, unanswered and not being served) keeps a second answer away.
`SoftLimit` needs `LimitOK`, a potential argument: pipelines incomplete, plus those
generated, plus the most that the policies and reports still to come can generate,
never exceed the count at the threshold test (threshold - 1 + lag) plus one batch.
The lag is no constant: it is whatever the count missed at the test, pipelines created
and not started included, and nothing in the code bounds it. So the theorem limits what
one event adds after it passed, and not what several events add while the cache stands still.
`SchedulerServes` maps each step to a step of `EventService` or a stutter; a failed
creation is `Interrupt` when the context is cancelled and a stutter otherwise.
`AnswerIsNear` is what the prover can reach of `EveryEventAnswered`: `Work` counts a step
for each report, policy and pipeline that may still come (`PerReport`, `PerPolicy`), falls
with every step of the goroutine that processes an event and is touched by no other
(`Nearer`); receiving sets it to `Longest` at most, and the result channel has room for
the answer (`AnswerFits`, from `BusOK`). That a step can be taken while an event is
processed is ENABLED, and stays with `KeepsServing`.

**Intake.** `DeletedOnlyAfterEvaluation` rests on `CleanOK` (while the context is not
cancelled, no event this process holds was cut, so an answer nil means a complete
evaluation; after the cancellation DeleteMessage fails, as it shares the context) and
`FreshOK` (a receipt not yet handed out has never been used, so that the history of
an earlier process says nothing about it). `SentOK` and `NoOrphanWaiter` track a
delivery from the bus to its answer. `PublishedOK` adds what `AtLeastOnce` needs of
messages nobody published. `ClientsOK` says that whoever is on the bus is blocked in
`Enqueue`, which gives `OneEventPerClient` together with `BusOK`. `UploadOK` says of a
blocked handler that its upload is on the bus or was received, which gives
`AcknowledgedIsReceived`: a handler that the shutdown leaves on the bus ends with its
process, without a reply. `NewOK` says that no event on the bus, and none that may still be put there, has
a pipeline, be it of an earlier process.

**S3Intake.** `ParserOK` says that the parser has read every record it has passed, in
order and as announced, unless one failed (`merr`); `HandedOK` that the event of a
delivery on its way or answered has all records. A step of the parser is a step of
`Intake` or a stutter (`StepImplements`), which gives `ParserImplements`; with it, and
with `NothingIsLost` proved of `Intake`, a deleted message had a whole event.

**Manager.** Two halves that need each other (`MInv`). The clients are an Intake only if the
scheduler is the service they know, and a step of the scheduler is a step of that service
only if the event it takes has no pipeline yet (`AttemptOK`). In one process that
follows from its empty result channel; after a crash it does not, as the event
that was being processed has an empty channel and its pipelines (`TriedOK` does not
survive a restart, and is not used here). It follows from `NewOK` of the clients: a
message received again is another delivery, and an upload is never posted twice. `NewOK`
in turn is an invariant of an Intake, hence of the clients as long as they are one. So each
half is preserved by a step from the invariants of both before it (`SchedulerSteps`,
`ClientsStep`, `TakenIsNew`), and the lemmas of `Intake_proof` are used through an instance
with the substitution of `Clients`. `SoftLimit` survives as the potential falls when a process
forgets what it has generated. With `ServesClients` proved, every theorem about
`Intake` holds of the manager (`ManagerIsIntake`): what is deleted, who waits and which
upload is acknowledged are not proved a second time.

**PolicyLifecycle.** `ProgramOfItsSpec` needs that a UID and a generation determine
the spec, not only of the stored policy but of every version that exists: in the
watch, the informer, the reconciler, the scheduler's list and the cache. `VersionInv`
says so (`OneSpec`), with UIDs and generations of no version beyond those given out,
and one name per UID. `ReadyInv` says that every copy is honest (a Ready condition
of its own generation is right), cached programs come from specs that compile, and
a verdict about to be written is right for the copy it will be written to; it is also
half of `ProgramOfItsSpec`, which says that a program used by the scheduler is that of
its copy's spec and that this spec compiles. `NothingIsUndone` compares a stored version with
the next one (`Follows`): a write is refused unless it is based on the stored version, and
`DeletionInv` adds that the reconciler gives the finalizer back for a policy being deleted
only.
`EditsSurvive` needs only that users ask for specs (`EditsInv`): a write is based on
the stored version, and the default of a default is itself. A defaulting adoption is a
new version in the sense of `VersionInv`; that there is room for its generation and the
deletion's below the bound is `RoomToDelete`.

**PolicyEvaluation.** The values extracted so far are those of the first activations,
whose expressions all evaluate (`Extracting`, `Good`); until all are there nothing is created and nobody told (`Quiet`); then each
try leaves a pipeline or an event with its number (`Counted`). For
`EvaluationIsOfScheduler` generating is an evaluation with as many values as there are
activations, which are well formed and within the limit (`GenerateEvaluates`), every way of
giving up is one with none (`SkipEvaluates`) and has its cause in the whole list: an item
that fails makes it ill-formed (`FailureIsOfPolicy`), and a list dropped for its length is over the
limit (`DroppedIsOver`), so that a list exactly at the limit is generated; and a try takes the head of what is left (`TryCreates`).

**Downloader.** `Tree`: as long as no layer failed, there is a file exactly where a file
entry came before the current one, and something exactly where a file or a directory came
at the path or a directory below it. It needs `DiskOK`, what exists is reached through directories only:
so no directory is made at a file, and no file written where a directory is.
`Complete`: as long as no layer failed, a file has the bytes of its last file entry so far.
`EntryDone` says that exactly the current entry joins those before it; `Ended` ties the exit code to the absence of failures.

**Uploader.** `Exact`: without a failure an execution has the result of every file so
far, and its object is in the bucket; `Staged`: only such an execution gets to the
ingest service or exits with 0. `Origin` says that an object comes from a file it is
named for, whoever uploads when, which leaves one candidate when the file is alone with its
name and prefix.

Model-checked only: liveness (`KeepsServing`, `EveryEventAnswered`, `WaitersEnd`,
`UploadsReturn`, `Converges`), which is out of the prover's reach. That a mutated model breaks
a property, and that every step is taken, is of the instances too. No module declares a
RECURSIVE operator.

## 5. Findings

1. `client.go:36`: `Enqueue` ignores its context; when the scheduler has stopped, a
   listener that is handing over a message never returns (`intake_shutdown`).
2. `policy.go:155`: the target may not be a list, which the README and the API type
   document (`evaluation_target`).
3. `scheduler.go:219`: the PipelinesCreated event counts the pipelines of the groups
   before the policy's own (`creation_count`).
4. `buildcontext.go:80`: a file of a build context is not truncated before it is
   written over (`downloader_truncate`).

Not contradicted by any document, but worth knowing: an upload is acknowledged as
processed when the scheduler has received it (`AcknowledgedIsReceived`) and before it has
looked at it (`reports.go:34`), so that a rejection is told to nobody; a policy whose
downloader or profile is missing is logged as skipped and evaluated all the same
(`pipelines.go:41` and `:45`), so the model has no such exit; objects of two
pipelines with the same S3_PREFIX and a file of the same name overwrite each other, after
they were reported too (`main.go:117` of the uploader, the premise of
`ReportedObjectsAreOwn`); chalk.json may be left half written with exit code 0
(`chalk.go:78`, which `ExitMeansWritten` does not speak of); symbolic and hard links and every
other entry that is neither a directory nor a regular file are skipped, and a directory
entry where a file is changes nothing, both without an error (`buildcontext.go:70` and `:72`): exit
code 0 does not mean that they are there, and `ExitMeansWritten` says that they are not.

Two behaviours that hold and are easy to take for granted: pipelines refused because
of a shutdown are reported to nobody but the policy, and the event is answered nil;
its message is kept only because DeleteMessage uses the same cancelled context
(`DeletedOnlyAfterEvaluation`, whose variant gives the call a context of its own). And
a missing reader of the answer blocks nothing only because the result channel has
room for one (`EveryEventAnswered`).

## 6. Not modelled, and why

- **Contents**: CEL semantics, JSON, templates, labels, names of pipelines, metrics and
  logs. Properties here tell outcomes apart, not texts.
- **Time**: the sleep after each event, the visibility timeout and the backoff take any
  time; nothing here depends on how long.
- **HTTP authentication and authorization** are one refusal before the handler
  (`Refuse`); their order changes no state.
- **An evaluation's pipeline counts** in `Scheduler` are chosen freely from `Evaluations`:
  every evaluation in `PolicyEvaluation` is one of them (`ImplementsScheduler`), but not
  each of them need come about.
- **Helm patch tool** (`hack/`): rewrites the text of chart templates at build time; it
  has no state of the running system. Generated code and the AWS configuration: no
  behaviour of their own.
- **The webhook's certificates** and its availability: a call that fails is a refused
  update (`WriteFails`) or a refused user. Which downloader is the default is one
  function for the whole run.
- **Several records of one object** in a notification are allowed by the definitions of
  `S3Intake`; the instance has one record each.
- **The dead-letter policy** of the queue and the limit on attempts of a pipeline's
  pod are the operator's: `MaxReceives` and `MaxAttempts` bound the histories.
- **The reconciler beside the composed manager**: `Manager` has the policies of an event as a
  list of any policies and evaluations, `PolicyLifecycle` has the scheduler as a user
  of the compiler; the two are not one module.
- **Leader election** appears as cancellation and restart of one process. It is off
  unless `--leader-elect` is given (`cmd/controller/main.go:85`), so that a rolling
  update may overlap two managers, which is not modelled.

## 7. Plan

Order of the work, the most important behaviour first:

1. (done) `EventService`, `Scheduler`, their refinement and theorems.
2. (done) `ReportDelivery`, `Intake`, their refinement and theorems.
3. (done) `PolicyLifecycle` and its theorems.
4. (done) `PolicyEvaluation` with the creation of its pipelines, `Downloader`, and
   their theorems.
5. (done) `S3Intake`, its refinement of `Intake` and its theorems.
6. (done) `Uploader` and its theorems.
7. (done) the admission webhooks in `PolicyLifecycle`.
8. (done) `Manager`: `Intake` with the detailed scheduler in the place of `EventService`,
   and the composition of the refinements in one theorem.
9. (done) the action properties `AcknowledgedIsReceived` and `NothingIsUndone`, and their
   theorems.
10. (done) `PolicyEvaluation` as the step `Scheduler` has for it; the theorems of `Intake`
    for `Manager` and `S3Intake`; the bound on the steps to an answer.
11. `PolicyLifecycle` composed with `Scheduler`: an event evaluated against the snapshot
    of policies while they are edited.
12. Two managers at once, when leader election is lost while an event is processed.
