# A formal model of the OTC RDS operator

This directory specifies, model-checks and proves properties of the operator in
this repository: a Kubernetes controller that creates, changes, restarts,
restores and deletes RDS instances (databases) of the Open Telekom Cloud after a
custom resource of kind `Rds`.  All of it is translated from the Go source under
`src/`; Kubernetes and the cloud are modelled from the calls that the source makes.
`PROJECT.json` names, for each definition, the lines it stands for.

## 1. The system

| part | state | operations | depends on |
|---|---|---|---|
| resource `Rds` (`pkg/rds/v1alpha1/types.go`) | spec and status in one object, no status subresource | `HasChanged`, `DeepCopy` | the API server stores it |
| informer handlers (`pkg/controller/controller.go`) | the informer's cache | `addRds`, `delRds`, `updateRds`, resync | put events, with copies of the resource, on the queue |
| work queue and workers (`controller.go`, `worker.go`) | ready events, delayed events, retry counts, `numWorkers` goroutines | `processNextItem`, `processEvent`, retry or give up after `maxRetries` | call the handlers below |
| create handler (`resource.go`: `Create`, `rdsCreate`) | its copy of the resource | look up by name, create, wait, status | cloud, `UpdateStatus` |
| update handler (`worker.go`, `resource.go`: `Update`, `rdsUpdate`) | its copy, the real size and flavor | status, then up to seven stages: enlarge, resize, restart, restore, logs, SQL, alarms | cloud, `UpdateStatus`, `job.go`, `sql.go`, `alarm.go` |
| delete handler (`resource.go`: `Delete`, `rdsDelete`) | the last copy | alarms, backup, delete, Service | cloud, API server |
| `UpdateStatus` (`resource.go`) | the copy it is given | look up, write the object, Endpoints, Service | API server; its write is the next `updateRds` |
| SQL (`sql.go`) | the database | schemas, users, privileges, never dropped | the address in the copy |
| log job (`job.go`) | a Kubernetes job | `Createjob` | API server |
| alarms (`alarm.go`) | alarm rules, topic, subscription | `CreateAlarm`, `DeleteAlarm` | cloud; its messages reach the receiver |
| receiver (`autopilot.go`) | one shared `Subscriber` variable | an alarm grows `Spec.Volumesize` or the flavor | API server, flavor lookup; its write is an edit to the handlers |
| flavor lookup (`resource.go`: `RdsFlavorLookup`) | none | the next bigger flavor of a spec | the cloud's catalogue |
| runner (`internal/runner`, `cmd/main.go`) | the lease, the signal context | leader election, `Run`, its end | starts informer, workers and receiver |

What makes the parts hard to get right together:

- **Concurrency.** Every event is a queue item of its own, because it holds
  pointers, so that the queue does not keep two workers off one resource.  Handlers
  of one resource run at the same time, for minutes, each on its own copy.
- **Feedback.** Each `UpdateStatus` writes the resource; the write comes back as an
  event, besides the resyncs.  Events and retries are processed in any order.
- **Failure.** A call may fail, or be accepted and its answer lost; a job may fail;
  the process may end at any step (a nil dereference, a crash) and lose the queue.
- **Errors that are dropped.** `Create` drops those of `rdsCreate` and `UpdateStatus`
  those of `rdsUpdateStatus`, so that nothing retries them.

What makes the parts correct, as properties over all of them:

- create: one instance for a resource, also after a restart; the id stays;
- delete: no instance is deleted without a completed backup, nor one that no user
  asked to delete; one that was asked for is deleted;
- update: the instance ends as the spec says, whatever order events come in, and what
  is asked for (a restart, a restore, alarm rules, users and schemas) is done;
- status: what a user edits is never undone by a write from an old copy; the status
  ends telling what the instance is;
- Service: it never stands without an address;
- receiver: what an alarm asks for is done to the resource it names, users' edits
  survive, and the flavor becomes the next bigger one;
- alarms: a deleted resource leaves no rule behind that could be deleted;
- processes: no two installations handle a resource, an overlap of two leaders ends,
  a replica that is told to stop ends, no edit is lost with a process.

The hazards behind them are listed, line by line, in `PROJECT.json`.

## 2. Modules

| module | models | code |
|---|---|---|
| `RdsLifecycle` | the abstract specification: what becomes of an instance | the promise of `resource.go`, `worker.go` |
| `RdsObject` | the resource, events, `HasChanged`, the condition of the SQL stage | `types.go`, `event.go`, `controller.go` 78-136, `resource.go` 636 |
| `RdsWorld` | API server, cloud, users, informer and resyncs | external, from the calls in `resource.go` |
| `RdsWorker` | workers, the queue, retries, restart of the process, the order of the stages, `UpdateStatus`, jobs | `worker.go`, `resource.go` 326-517, 668-773, 1003-1019 |
| `RdsCreate` | `Create`, `rdsCreate` | `resource.go` 117-263, 936-959 |
| `RdsUpdate` | `processUpdateRds`, `rdsUpdate`, SQL, logs, alarms as stages | `worker.go` 74-96, `resource.go` 326-666, `sql.go`, `job.go` |
| `RdsDelete` | `Delete`, `rdsDelete` | `resource.go` 265-324, 961-984 |
| `RdsOperator` | all of these together: `Init`, `Next`, fairness, the properties, the refinement of `RdsLifecycle` | `controller.go` `Run` |
| `RdsFlavors` | `RdsFlavorLookup`, and what it is to compute | `resource.go` 775-896 |
| `RdsAlarms` | `CreateAlarm`, `DeleteAlarm`, call by call | `alarm.go` |
| `RdsAutopilot` | `SmnReceiver` with alarms and users | `autopilot.go` |
| `RdsRunner` | processes: start, leader election, informer, filter of namespaces, end | `main.go`, `runner.go`, `controller.go` |
| `MCRdsOperator`, `MCRdsAutopilot`, `MCRdsRunner` | values of constants for TLC | |
| `RdsOperatorProofs`, `RdsBackupProofs`, `RdsPromiseProofs`, `RdsStatusProofs`, `RdsCreateProofs` | theorems about `RdsOperator` | |
| `RdsAutopilotProofs`, `RdsRequestProofs` | theorems about `RdsAutopilot`, its alarms and its lookup | |
| `RdsRunnerProofs` | theorems about `RdsRunner` | |

Three specifications come out of this, by EXTENDS:

    RdsObject <- RdsWorld <- RdsWorker <- RdsCreate, RdsUpdate, RdsDelete <- RdsOperator
    RdsFlavors <- RdsAlarms <- RdsAutopilot
    RdsRunner

and `RdsOperator` implements `RdsLifecycle`
(`INSTANCE RdsLifecycle WITH life <- ..., saved <- backups`).  They meet where the code's
parts meet through the API server: a write of the receiver is to the handlers the
same as an edit of a user (`UserEdit("volume")`, `UserEdit("flavor")` in `RdsWorld`); the
calls of `CreateAlarm` and `DeleteAlarm`, one step each in `RdsOperator`, are made one by
one in `RdsAlarms`; what a handler does with an event, one step in `RdsRunner`, is
`RdsOperator`.

### How state corresponds: `RdsOperator`

- `cr` is the resource in the API server, `svc`, `eps` and `job` its Service,
  Endpoints and log job.  `inst` holds the instances with its name in the cloud,
  each with the job that runs on it; `backups` and `alarms` belong to the cloud.
- `queue` and `delayed` are the rate-limited queue: what `Get` returns next, and what
  was added with `AddRateLimited`.
- `worker[w]` is a goroutine: `pc` and `op` say which call of which stage comes
  next, `ev` is its event, `obj` its `newRds`, `vol` and `flavor` what `rdsUpdate`
  reads from the cloud into `oldRds`, `ret` where `UpdateStatus` returns to.
- `owed`, `condemned` and `released` are history variables: requests less restarts
  and restores made, ids a deleted resource named, ids a user removed from the
  resource.  No action's guard reads them.
- `budget` bounds what users, faults and crashes may do in a run.

A step of a worker is one call to the API server or the cloud with the local code
up to the next call: what other actors can see in between.  `pc` is `us.get`,
`us.put`, `us.svc`, `us.svc2` in the four calls of `UpdateStatus`; `wait` while the
SDK polls a job; `peek` and `get` where `rdsGetById` follows.

In `RdsLifecycle` an instance is `absent`, `there`, `leaving` or `gone`; `Life` maps the
phase and the job of an instance to these, and everything else the operator does is
a stutter.

### How state corresponds: `RdsAutopilot`

- `sub` is the variable `subscriber`: the fields `topic` (the name in `Topicurn`), `text`
  (the metric the message speaks of) and `url`.
- `req[r]` is a request in its goroutine: `todo` are the fields `json.Unmarshal` has
  still to write, `copy` the resource as it was read, `target` the name it acts on,
  `pc` the section it is in (`disk`, `cpu`, `mem` in the order of the code, which
  looks at the message anew in each).
- `rds`, `flagged`, `topics`, `confirmed`, `rules` are the resources and what the cloud
  knows of each name; `caller[c]` is a worker in `CreateAlarm` or `DeleteAlarm`.
- `alone`, `whole` (of a request) and `overlap` are history: no other request was there
  since this one came; its body came whole; rules of the name were made and deleted
  at the same time.

- `caller[c].failed` are the rules, and the topic, of which the call that deletes them
  failed; `flagged` keeps a deleted name until `Delete` is through, so that an error of
  it is retried.

The field of a struct that one goroutine reads while another writes it is a data
race.  A string is a pointer and a length, so that what is read may be one message's
text cut to the length of another's, or running on into the memory behind it.  What
then is read may name no resource (`Garbled`), or another one: `Blends` holds the pairs
of which the first may read as the second.  It is a constant of which the module
assumes only that names read as names, texts (of alarms or invitations) as texts, and
that a blend of a blend is one; the run has the pair of the longer name and the
shorter, and that of an invitation with what is left of an alarm behind it.  A torn value
may be read, or stay in the variable, as long as another request parses (`Torn`).

Calls of `CreateAlarm` and `DeleteAlarm` fail in the way the code notices it: the error
is logged and the function goes on (`TopicNotMade`, `CreateRule` with none made,
`RuleStays`, `TopicStays`), it returns (`CreateReturns`, `DeleteReturns`), or it takes
apart what it has not got (`ListFails`).

### How state corresponds: `RdsRunner`

- `rev` is the resources in the cluster, each by a revision.
- `proc[p]` is a process: its signal context (`ctx`), whether its listener has its port
  (`listening`), the informer's `cache`, the `queue` of copies, its goroutines (`busy`).
  `pc` is `waiting` in the election, `syncing` in `WaitForCacheSync`, `ready` in `Run`,
  `ending` from the return of `Start` to the end of `main`.
- `lease` is who holds the lease of each installation.
- `seen`, `buried` and `dropped` are history: the last revision an update handler was
  done with, resources whose deletion was handled, or thrown away by `delRds`.

### What is abstracted

Strings are model values, numbers or Booleans (`RdsObject` says which).  Only the
first address of an instance is kept.  A resource version is only compared for
equality, so that in `RdsOperator` a write takes the least version no copy still
carries.  The 30 seconds of sleep before an error of `processUpdateRds` and all
timeouts are not timed: a wait may fail at any moment.  Lookups of subnet, network and
group change nothing and may fail.  Users, schemas and privileges are a set of schemas
and whether the users are there.  A write to the API server of which the answer is
lost is a `StatusPut` with a failing call after it: both go on in the same way, since
`UpdateStatus` drops the error.  A nil dereference, of a missing instance or of a
missing list of users, ends the process: `Restarted`.  In `RdsFlavors` the number of
CPUs, a string, is a sequence of digits, for numbers below 1000.  In `RdsRunner` an
event that is queued already is not queued twice, since handling it twice would
show the same, and a process that has ended is always started again.

## 3. Runs

| run | properties | what happens | expected |
|---|---|---|---|
| `safety` | `TypeOK`, `BackupBeforeDelete`, `OnlyCondemnedDeleted`, `ServiceHasEndpoints`, `NoLostEdit`, `IdIsPermanent`, `ImplementsLifecycle` | a creation and a deletion with a fault and a crash; or with a fault where an instance is there already; or an export, a deletion and a creation in any order with a fault | holds |
| `converge` | `NeverTwoInstances`, `InstanceProvided`, `DeleteReachesCloud`, `SpecReachesCloud`, `StatusSettles`, `AutopilotServed`, `SqlServed` | a creation and a deletion; an edit and a change of address; or two edits | holds |
| `retries` | `NoMoreThanWorkers`, `SpecReachesCloud`, `SqlServed` | one worker; two edits and a fault, or a creation, a deletion and a creation with a fault or a crash | holds |
| `autopilot` | `TypeOK`, `AloneActsAsSent`, `OnlyAlarmed`, `NoEditUndone`, `ScalesToNext`, `NothingLeft` | two requests, edits, deletions, two workers with alarms, one or two faults | holds |
| `runner` | `TypeOK`, `OneOperator`, `OverlapEnds`, `StopEnds`, `EditSeen`, `DeletionSeen` | an edit or a deletion with a signal, crash, stall, broken watch or failing handler | holds |
| `requests_lost` | `AskedIsDone` | a restart, a restore or an alarm endpoint is asked for, and a crash | violated |
| `sql_lost` | `SqlServed` | schemas first, users then | violated |
| `endpoint_ip` | `EndpointFollowsIp` | a change of address | violated |
| `requests_repeated` | `ServedOncePerRequest` | one request for a restart or restore | violated |
| `created_twice` | `NeverTwoInstances` | create, delete, create again | violated |
| `orphaned` | `NoOrphan` | a deletion during the creation | violated |
| `downsized` | `NeverDownsized` | an alarm for an instance with 16 CPUs | violated |

A *fault* is one failed call, failed job, or call whose answer is lost, anywhere.

What the passing runs show:

- **Deletion is safe.** No order of two workers, failing backups, lost answers,
  retries and restarts deletes an instance that has no completed backup, and copies
  of the resource that are long outdated never delete an exported instance or one
  made later.  The reason is that ids are never looked up by name in `rdsDelete`.
  With `ImplementsLifecycle`, the steps also come in the order condemned, saved,
  leaving, gone, and none is taken back except a deletion that failed.
- **Writes from old copies are safe.** Only the resource version protects what a user
  edits during a handler, or during a request of the receiver; it suffices
  (`NoLostEdit`, `NoEditUndone`).
- **The spec wins in the end** although a stale event may set an old flavor: the next
  resync compares the spec with the instance and not with the former spec.  It
  relies on `HasChanged` being true when either half is equal; with the
  comparison one would expect, resyncs would be skipped and the run fails.
- **Instances do not multiply** beyond the number of workers, and not at all if users
  create the resource once (`NoMoreThanWorkers`, `NeverTwoInstances`): a restart between
  the creation and the write of its id, after which the resource is new to the
  operator, included.  Created twice under two workers it may get two
  (`created_twice`); `NUM_WORKERS` is 4 by default (`config.go:93`).
- **A creation that succeeds leads to `ACTIVE` and a Service**, a deletion to the end
  of the instance, when no call fails.
- **Users, schemas and alarm rules are made** although the condition for them compares the
  copies of an event and not what is there (`SqlServed`, also after a fault with one
  worker), and although a request for logs ends the handler before the last stage
  (`AutopilotServed`: a later event comes to it).  A crash loses them (below).
- **Alarms one at a time do what they say** (`AloneActsAsSent`, `ScalesToNext`), whatever
  the variable kept from earlier requests.  Two at once may act on the resource of
  one with the metric of the other, and on a resource that none was about whose name
  is that of one of them cut; on nothing else (`OnlyAlarmed`).  A body that is cut
  repeats the alarm before it; hence `whole`.
- **A deletion leaves no alarm but what could not be deleted** (`NothingLeft`), duplicates
  included, whatever other calls failed and however often it was retried, unless
  rules of the same name are being made at that time.  It may take the rules of a
  resource with a longer name along, which `RdsAlarms` models and no property forbids.
- **Two leaders overlap for a while only**: the lease is given back while handlers run,
  and a stalled leader learns late that it lost it; it then ends (`OverlapEnds`).  With a
  handling of the loss that only logs it, the run fails.
- **Edits survive processes** (`EditSeen`), since each process lists what there is and
  resyncs.  Deletions do not: `DeletionSeen` excepts those during an outage, and those
  that come as a `DeletedFinalStateUnknown`, which `delRds` throws away.

### Where code and documents disagree

The runs expected to be violated state what the repository's `README.md` says:

- `requests_lost`: "Instance will restart immediatelly", "RDS will recover immediatelly",
  "Autopilot will create 3 alert rules"; the write that clears the request, or says
  that the rules are there, comes before the call (`resource.go:428`, `467`, `649`), and an
  operator that is restarted between the two forgets it.  Each of the three alone
  violates the property.
- `sql_lost`: "add the names as a list in the RDS spec", "If the database or user is
  missing, the Controller will recreate it"; without `users` a nil pointer is
  dereferenced (`sql.go:32`) and the process ends, users that were added meanwhile are
  lost with its queue, and no resync looks for what is missing (`resource.go:635`).
- `endpoint_ip`: "the endpoint IP updates automatically by the Operator"; the branch that
  updates Endpoints asks whether a `Get` failed with *already exists*
  (`resource.go:761`).
- `requests_repeated`: `reboot: true` restarts the instance "immediatelly"; a resync
  that was queued meanwhile restarts it again (`resource.go:425`).
- `created_twice`: the check by name and the creation are two calls
  (`resource.go:139`, `223`); two workers may both pass the check.
- `orphaned`: "deletes of course the RDS instance in OTC" (`README.md:412`); the delete
  event of a resource whose creation is under way carries no id (`resource.go:267`).
- `downsized`: "the next bigger flavor" and "no downsizing of flavors" (`README.md:249`,
  `253`); the CPUs are compared as strings (`resource.go:829`, `837`), and an alarm for 16
  CPUs asks for 2.

Some more of what the code does wrong is in the model, and no run is about it, because
one step shows it and nothing depends on an order:

- a resource for an instance that is there already never gets its id, and no
  operation works on it (`resource.go:140`, `669`, `954`);
- a creation of which a call fails is not repeated before the operator restarts
  (`resource.go:954`), and a Service that was not created, or removed, in the first attempt
  never is (`resource.go:751`, `277`);
- an edit that meets a status another worker wrote is dropped by `HasChanged`, with the
  request in it (`types.go:80`): with two workers, a restore that meets a new flavor
  is lost without any fault, and users and schemas are with one;
- deletions that happen while no operator runs, or come as a
  `DeletedFinalStateUnknown`, are forgotten (`controller.go:98`, `169`);
- a deleted resource takes the rules of longer names along, and rules of which the
  deletion failed stay (`alarm.go:207`, `208`).

### Bounds

`RdsOperator`: two workers, room for two instances where a second one may arise, two flavors or
sizes where an edit is followed, and one or two outside events of each kind, as
listed by the `Scenarios` of `MCRdsOperator`.  Two workers are enough for an
interleaving of handlers: what a third could do to a handler, the second can do after
it, since handlers share only the world.  Each hazard needs at most one fault, one
crash and three events of users.  `MaxBacklog` lets a resync be queued only while
fewer events are under way (two; one in `converge` and in the two `_lost` runs): resyncs behind others are covered,
unboundedly many are not.  `MaxVersion` is never reached: `TypeOK` would fail.
`MaxRetries` is 0 or 1; with `RetriesSuffice` an event stays at that count instead of
being given up.

`RdsAutopilot`: two requests that run together (a third is a second one that comes
later, as far as one variable can tell), two resources of which one name contains
the other, and may read as it when torn, one of them for high availability, seven flavors in two zones, of which
some are sold out in one (and an eighth, with 16 CPUs, in `downsized`), two workers, one or two alarms, edits or deletions each.

`RdsRunner`: an installation of two replicas with leader election and one without,
one goroutine per process (`RdsOperator` has the handlers' interleavings), one
resource in each namespace, one edit or deletion with one failure of each kind.
Queues are bounded since an event is not queued twice.

`safety` has about 1,020,000 distinct states, `autopilot` 804,000, `retries` 398,000,
`converge` 234,000, `runner` 81,000.  Symmetry, of workers, of requests and of
callers, is used in the runs without liveness only.  `CHECK_DEADLOCK FALSE` is where
the system really may stop: a deleted resource leaves nothing to do (`safety`,
`converge`, `orphaned`), all alarms are handled (`autopilot`, `downsized`), or a process
without resources waits (`runner`).

### Fairness

`FairSpec` of `RdsOperator` states what the code's surroundings guarantee and no more:

- `WF(Step(w))` for each worker: the scheduler runs every goroutine, and calls return;
- `WF(Requeue(1))`: the rate limiter adds a delayed event in the end;
- `WF(JobDone(i))`: the cloud's jobs end;
- `SF(Resync)`: the informer resyncs every `refreshtime` seconds.  Strong, since the
  bound of the backlog disables it again and again while the code's timer
  would not be.

Users, faults, crashes and changes of address are owed nothing.  The liveness runs
take `RetriesSuffice = TRUE`: an event is not retried 300 times in vain.

`FairSpec` of `RdsRunner`: `WF` of `Lifecycle(p)` (the process runs, `RunOrDie` and `main`
return, Kubernetes starts what ended and kills what does not end), of `Take` and
`Handle` per goroutine, of `Notice` and `Resync` (the watch and the timer go on), and of
`Expire` (a lease that nobody renews runs out).  Signals, crashes, stalls, broken
watches and failing handlers are owed nothing.  `RdsAutopilot` states no liveness:
the receiver tries once and logs what fails.

## 4. Proofs

tlapm checks every step for all values of the constants: any number of workers,
instances, versions, edits, faults, crashes, requests, names, flavors and processes.
The assumptions are those named in the modules (sizes and bounds are naturals, the
model values for "none" are none of the others, codes are listed once, a blend
of a blend is one, the resources of a cluster are finitely many), which TLC evaluates in every run.

| theorem | states | by |
|---|---|---|
| `RdsOperatorProofs!TypeCorrect` | `Spec => []TypeOK` | itself |
| `RdsBackupProofs!BackupFirst` | `Spec => []BackupBeforeDelete` | `BackupInv` |
| `RdsPromiseProofs!CondemnedOnly` | `Spec => []OnlyCondemnedDeleted` | `CondemnedInv` |
| `RdsPromiseProofs!LifecycleImplemented` | `Spec => ImplementsLifecycle` | `CondemnedInv` |
| `RdsStatusProofs!CopiesFaithful`, `EditsSurvive`, `IdStays` | `Spec => []CopiesInv`, `NoLostEdit`, `IdIsPermanent` | `CopiesInv` |
| `RdsStatusProofs!ServiceBacked` | `Spec => []ServiceHasEndpoints` | `ServiceInv` |
| `RdsCreateProofs!InstancesBounded` | `Spec => []NoMoreThanWorkers` | `Crowd(Room)` |
| `RdsCreateProofs!OneWorkerOneInstance` | `Cardinality(Workers) <= 1 => (Spec => []NeverTwoInstances)` | `Crowd(Room)`, where `Room` is 1 |
| `RdsCreateProofs!CreatedOnceOneInstance` | `CreatedOnce => (Spec => []NeverTwoInstances)` | `AddInv`, `Crowd(1)` |
| `RdsAutopilotProofs!TypeCorrect` | `Spec => []TypeOK` | `TypeInv` |
| `RdsAutopilotProofs!NothingIsLeft` | `Spec => []NothingLeft` | `GoneInv` |
| `RdsRequestProofs!AloneAsSent`, `ActsOnAlarmsOnly`, `EditsAreKept`, `ScalesToTheNext` | `Spec => AloneActsAsSent`, `OnlyAlarmed`, `NoEditUndone`, `ScalesToNext` | `RequestInv` |
| `RdsRequestProofs!LookupFindsNext` | `RdsFlavorLookup` answers `NextBigger` | no state |
| `RdsRunnerProofs!TypeCorrect` | `Spec => []TypeOK` | `RunnerInv` |
| `RdsRunnerProofs!OneOperatorOnly` | `ListsAreDisjoint => (Spec => []OneOperator)` | `RunnerInv` |

Why the invariants are what they are:

- `BackupInv`: a state with a worker that is about to delete an instance never backed up
  satisfies `BackupBeforeDelete`.  So it says that a worker at the call that deletes
  has an id in `backups`; that a worker that waits for its backup has it running,
  polled by it, or completed; and that a job that is over has nobody who polls it, so
  that `JobOver` cannot be true of a job that failed.  One lemma per action; the other
  handlers leave the worker's delete alone (`HandlerSafe`), other instances do not
  matter (`InstanceSafe`), a restart resets every worker.
- `CondemnedInv` adds that every delete event, queued, delayed or handled, names a
  condemned id or none (`Harmless`, `Loyal`), which old copies of the resource could
  break: an id is condemned in the step that makes the event, and condemned for good.
  With it each step of the operator is mapped to a step of `RdsLifecycle` or a stutter,
  action by action (`JobDone` to `Save` or `End`, `JobFails` to `Stay`, the call that
  deletes to `Leave`, `UserDelete` to `Condemn`).
- `CopiesInv`: every copy of the resource, in the queue, in the rate limiter, in an event
  under way or in the handler's hands, is either outdated, so that the API server
  refuses it, or differs from the stored version only by what its handler did
  (`Faithful`): an id was given where there was none, requests cleared, the autopilot
  set.  The id is the hard part.  A copy may get one at the creation only; that the
  stored version names none then is because the instance it would name is there and
  found by its name (`NamedIsFound`, which needs `CondemnedInv`: it is not deleted before
  the resource is).  And the new id was never released, since it was never given
  (`PastOK`).  Steps that store nothing keep all this (`QuietCopies`); one that stores a
  version outdates every copy (`Outdated`).  Writes of the operator are then told
  from edits by their budget (`WrittenCopy`).
- `ServiceInv`: between the creation of the Endpoints and of the Service the address
  must not go.  The `Endpoints` are created once, and so at most one worker is ever
  between the two calls; `Between` says so.
- `Crowd(n)`: the instances that are there, and the workers that found none and are
  about to create one, are together at most `n`.  `NoMoreThanWorkers` alone is not
  inductive, since every worker may stand before its call while an instance is there.
  The sum is: a creation moves one from the workers to the instances, and a worker
  comes to its call only in a step that finds no instance at all, where the sum is
  the number of such workers (`Crowding`, `Counted`).  The bound is thus that on the
  workers that may stand there at a time: all of them, or one.
- `AddInv`: one, if users create the resource once (`CreatedOnce`: a scenario has one
  creation, or none where it starts with the resource).  Then one add event of it
  at most exists, in the queue, in the rate limiter or in the hands of a worker that has
  not created an instance for it (`Alone`), although a restart makes a new one, as it
  drops the others, and although a failed check gives it back.  `Before` says that
  there is none until the creation, and `Owns` that the handler of an add event is
  `rdsCreate`'s, which never comes to `Decide`, whose errors give the event back.
  `converge` is an instance of the theorem, `created_twice` shows that its hypothesis is
  needed, and `safety`, where a managed resource is exported, deleted and created
  again, has scenarios that do not satisfy it.
- `TypeInv` of `RdsAutopilot` is `TypeOK` with the conjuncts in the form its lemmas need.
- `GoneInv`: while `DeleteAlarm` works on a name, nobody makes rules for it (or `overlap`
  knows); from its list on, each rule of the name is one that is still to be deleted,
  or one of which the deletion failed; and so is its topic at the end.  Steps on other
  names matter in one way, that they may delete rules of this one, too (`OthersGone`,
  `DeletersGone`).  That the resource is deleted is not needed.
- `RequestInv`: what is in the variable, or read from it, looks like something that was
  sent, or names nothing (`Sourced`, `ReadsSent`: the text of a blend is again one, as
  `Blends` is closed under composition); a request alone has parsed its own message,
  and nothing was torn, so that what it reads is that (`Lone`, `AsSent`); and a copy
  that still has the stored version agrees with what is stored, up to what the request
  itself changed in it (`CopyOf`), which is why a write that the API server accepts
  undoes nothing.  `Fresh` and `Parsing` say what a request is at first.
- `LookupFindsNext`: the order of strings is the order of numbers for one digit each
  (`OneDigit`), the zones and kinds of the code are those of `Fits` (`CandidatesFit`), and
  the least of the sorted candidates is the next bigger one.  That the condition on
  one digit is needed is the run `downsized`.
- `RunnerInv`: every event in a queue or a goroutine is of a resource its process
  watches, which covers what was queued before a crash, retried or listed anew.  The
  hypothesis `ListsAreDisjoint` says that no resource is in a namespace on the lists
  of two installations; with one list `*`, the theorem says nothing.

Every invariant and every action property that a passing run checks is proved.  Only
model-checked are the liveness properties (`InstanceProvided`, `DeleteReachesCloud`,
`SpecReachesCloud`, `StatusSettles`, `AutopilotServed`, `SqlServed`, `OverlapEnds`,
`StopEnds`, `EditSeen`, `DeletionSeen`): fairness is outside the prover's reach.  Each
leaf of the proofs is found in a tenth of the provers' default time.

## 5. Not modelled

- Time and rates: sleeps, timeouts, the exponential delays of the queue, a pool of
  workers that sleeps while events wait.  Under fair workers every event is handled
  in the end, and nothing is said of when.
- Inside `CreateSqlUser`: single statements, hosts and privileges of users; inside the
  log job: its pod template.  Both are data that no other part looks at.
- A process that keeps its lease while its network is partitioned from the API server
  in one direction only: leader election is client-go's.
- Several resources in `RdsOperator`: handlers of different resources share the queue
  and the cloud's quota, and otherwise nothing; `RdsRunner` and `RdsAutopilot` have
  several where names and namespaces matter.
- The reading of the configuration and the metrics of `main`, which keep no state that
  anything else depends on; generated clients, listers and informers; the Helm chart and
  the manifests, except for the missing status subresource, which decides what a write
  of the status overwrites.
