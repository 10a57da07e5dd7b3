# TLA+ models of the Deployz control plane

Deployz installs a vendor's web application into each customer's AWS account and
operates it from one control plane. A small relay Lambda in the customer's account
polls the control plane for commands, executes them and reports back. This directory
models the parts of that system whose state several actors change at the same time:
the deployment and its jobs, the relay that executes them, its lease and its
enrollment, the way of a secret into the customer's account, the builds of a release,
the quantity a vendor is billed for and the HTTPS addresses of a deployment. TLC checks each model on small instances;
TLAPS proves the central invariants of seven of them for every value of the constants,
and that the relay implements the abstract promise about commands.

## 1. Inventory

| Component | State it keeps | Operations | What is hard about it |
| --- | --- | --- | --- |
| Rows and rules (`apps/api/src/jobs.ts`, `packages/contracts`, `packages/db`) | `deployments` (state, relayStatus, currentReleaseId, enrollment, cleanupState), `deployment_jobs` (state, key, payload flags, reconcileCount), `releases` | `createOrReuseJob`, `retryAwareIdempotencyKey`, `requireDeploymentIdle`, `deploymentStateAfterFailedJob`, `newerReadyReleaseExists`, `hasStartedInstall` | check-then-insert races; retries and replays of a request; the partial unique index as the only backstop |
| Vendor and customer routes (`server.ts`) | none of their own | launch, deploy, deploy-bulk, rollback, restart, destroy, force-complete, purge, relay reset, public retry, retry-install | read rows, decide, insert, then mark the deployment: four statements other requests interleave with |
| Config and secrets (`config.ts`, `pending-secrets.ts`, `config-update.ts`) | config keys, vault rows (staged and bound), SQS messages, the customer's AppConfigSecret | save, materialize, fan out, claim and redact, fetch, merge, acknowledge, expire | a value leaves the control plane's rows when it is claimed, and must be neither lost nor written back later over a newer one |
| Relay channel (`server.ts`) | credentials, stored stack events | register, commands, release, result, progress, health | lost, repeated and late results; overlapping polls; heartbeats that outlive what they read |
| Watchdog (`worker.ts`) | none | `sweepStuckJobs`, `failStuckJob`, `sweepRelayLiveness`, `sweepStuckBuilds`, `sweepBilling` | acts on a snapshot; races with results; bounded re-offers |
| Build pipeline (`worker.ts`, CodeBuild) | release/build status, currentBuildId | `buildRelease`, `recordBuildResult`, `sweepStuckBuilds` | redelivered messages, stale build events, a build nobody names |
| Relay agent (`packages/relay`) | lease, pending-command marker, the container's answers | poll loop, defer, resume, hand back, report | crashes between executing and reporting; one marker for a batch of commands; overlapping invocations |
| Relay executors (`packages/relay`) | AWS resources | install, recover, deploy, rollback, restart, config, destroy, purge | a call that took effect although nobody recorded it; partial AWS failures |
| Enrollment and links (`server.ts`, `install-link-lifecycle.ts`, `enroll.ts`) | enrollment code and token credential of the row, code and secret of the connector stack | register, reset, rotate, stack update | a registration that races the replacement of the code it was sent with |
| Billing (`billing-*.ts`) | billing state of deployments, subscriptions, quantity at Paddle, checkout intents | mark live, mark removed, reconcile, safety job, webhooks | reconciliations that overlap; conditional updates that miss |
| Custom domains, default HTTPS (`domains.ts`, `default-https.ts`, the relay's `domain.ts`) | `custom_domains`, `deployments.default_https`, domain jobs, zone records, listeners and certificates in AWS | add, check, configure, activate, remove, retry, tear down, sweep records | two machines over one listener; a whole JSON state written from an older copy; an executor that is cut off between its AWS calls |
| Pure parts | none | analysis, infrastructure compiler, status derivation, failure classification, copy map, web | large, but no state |

How they meet: the routes and the worker share nothing but the database, and use
no lock but the row locks of two transactions (`reconcileRunningDigest`,
`failUnverifiedInstall`). What keeps them apart is one unique key, one partial
unique index (`deployment_jobs_one_active_mutating_uidx`), conditional updates
(`... WHERE state IN (active states)`) and the order in which statements run. The
relay sees the control plane only through claimed commands; the control plane sees
AWS only through results and heartbeats.

What makes each component correct:

- *rows and rules*: at most one mutating job is active; a settled job keeps its
  outcome; a repeated request finds its job;
- *routes*: an in-flight state has the job it announces; DELETED is terminal; data
  is deleted, and a failed stack recovered destructively, only where nothing was
  ever installed;
- *relay channel*: service mutations do not overlap; a result is applied once; the
  release pointer names what runs; an install is HEALTHY only once verified;
- *watchdog*: bounded re-offers, no revived job, every stuck job ends;
- *relay agent and executors*: one invocation at a time; every requested command is
  answered once, with what its work did; no migration runs twice; what is owed can
  be found after a cut-off;
- *secrets*: a value that was promised arrives, and no older value follows it;
- *build pipeline*: a release is built once and settled as its build ended;
- *enrollment*: a code binds one installation; only the relay of the current link
  is let in, and it gets in;
- *billing*: what is removed is not billed, what was READY is, and Paddle ends up
  with the right quantity;
- *domains and default HTTPS*: an ACTIVE address is served; one configure job at a
  time; a deployment that is gone leaves nothing in the zone.

`PROJECT.json` lists every component with its status and every hazard with its line.

## 2. Modules

| Module | What it is |
| --- | --- |
| `DeploymentJobs` | The rows of one deployment as `VARIABLES`, the enumerations, the queries and rules over them, job insertion under the key and the index |
| `DeploymentLifecycle` | The routes, the relay's calls and the sweeps as handlers over those rows; `Init`, `Next`, `Spec`; the properties |
| `InvocationLease` | The relay's invocation lease: invocations, the SSM parameter, time, faults; its properties and fairness |
| `CommandDelivery` | The abstract promise about commands: answered at most once, "succeeded" only when the work was, nothing starts after that |
| `RelayCommands` | Command routes, watchdog, poll loop, marker, executors and resumers together; implements `CommandDelivery` |
| `SecretDelivery` | One secret key of one customer on its way from the editor to the AppConfigSecret of each deployment |
| `BuildPipeline` | One release from its creation to its result |
| `Enrollment` | One deployment's pair of code and credential, and the connector stacks that enroll with it |
| `BillingQuantity` | The billing state of an organization's deployments, the subscription's quantity, and who brings them together |
| `DomainHttps` | One deployment's custom domains and default URL: rows, domain jobs, zone, load balancer, the relay's two domain executors |
| `MC...` | What TLC runs for a module that needs it: symmetry, the instances of command types |
| `..._proofs` | The theorems about `DeploymentLifecycle`, `InvocationLease`, `RelayCommands`, `BuildPipeline`, `Enrollment`, `BillingQuantity`, `DomainHttps` and `SecretDelivery` |

The modules share no variables: what one shows is an assumption of another, and each
says so at its head. `InvocationLease` shows when invocations overlap; `RelayCommands`
runs one at a time and `DeploymentLifecycle` takes overlapping polls as a switch.
`DeploymentLifecycle` lets a relay report an offered job at any time with either
outcome; `RelayCommands` says which reports a relay makes. `Enrollment` decides who is
the relay; the others speak of the enrolled one.

### Rows

`dep` is the deployments row: `state`, `relay` (relayStatus), `enrolled`
(enrollmentUsedAt and installationId, which the routes set and clear together),
`reused` (bootstrapStackName = previousBootstrapStackName, which makes the next
INSTALL a recovery), `current` (currentReleaseId; 0 for null) and `cleanup`.
`jobs[1..created]` are the job rows in the order of `created_at`: `state`, `key`
(idempotencyKey; the job's type is its first part), `destructive`
(`dataDeletionAuthorized` of a DESTROY, `recovery.neverInstalled` of an INSTALL),
`zeroStart` (`startAfterConfig`), `requeues` (reconcileCount), `followUps` (the
recorded follow-up decision) and `offered`, which remembers that a relay was given
the job. `ready` are the READY releases, numbered by `created_at`. `history` is a
ghost: whether an INSTALL ever succeeded, and whether anything ever ran.

### Handlers

A route is not atomic. `handler[h]` is one invocation: `op` says which route or
sweep, `at` the next step, and the other fields what it read and carries along.
An operation begins with its `Load...` action (its reads and its refusals: a refused
request is an action that is not enabled) and goes on with one action per
statement or transaction that writes. Between two steps any other handler may run,
and `Crash` may end a handler: what it wrote stays. The correspondence:

| Code | Actions |
| --- | --- |
| deploy, rollback, restart | `LoadDay2` → `InsertRequest` → `MarkJobRequested` |
| deploy-bulk, config fan-out, purge | `LoadBulkDeploy` / `LoadConfigUpdate` / `LoadPurge` → `InsertRequest` |
| destroy | `LoadDestroy` → `RemoveNeverInstalled`, or → `CancelObsoleteInstalls` → `RequireIdleForDestroy` → `DecideDataDeletion` → `InsertDestroy` → `MarkJobRequested` |
| force-complete | `LoadForceComplete` → `CommitForceComplete` |
| relay reset, public retry | `LoadReset` / `LoadPublicRetry` → `CommitFreshCredential` |
| retry-install | `LoadRetryInstall` → `CancelSuperseded` → `InsertRetryInstall` → `MarkJobRequested` |
| launch | `Launch` (one conditional statement) |
| register | `LoadRegister` → `InsertFirstInstall` → `Enroll` |
| commands, release | `LoadClaim` → `CommitClaim`; `HandBack` |
| result, progress | `LoadResult` / `LoadProgress` → `CommitResult` → follow-ups |
| `ensureInstallFollowUps` | `CheckFollowUps` → `QueueFirstFollowUp` → `QueueSecondFollowUp` → `RecordFollowUps` |
| health | `LoadHeartbeat` → `WriteHeartbeat` → `FailUnverifiedInstall` / `ReconcileRunningDigest` → `RepairFollowUps` → follow-ups |
| `sweepStuckJobs` | `LoadStuckJob` → `RequeueStuckJob` / `ParkStuckJob` / `FailStuckJob` |
| `sweepRelayLiveness` | `SweepRelayLiveness` |
| `recordBuildResult`, `flipHealthyDeploymentsToUpdateAvailable` | `LoadReleaseReady` → `CommitReleaseReady` |

### The lease

`lease` is the SSM parameter (owner and time left), `invocation[p]` one invocation:
its next call, its time left and how far its host's clock is ahead. `withLease` of
`lease.ts` becomes `Start` → `Acquire` → `Judge` → `RemoveStale` → `Retake`, the run,
and `FinishRun` → `VerifyOwner` → `Release`; every call to SSM is one step, between
which others run. Durations are relative, so the state space is finite although the
relay runs for ever. An id may be used again: Lambda retries a failed event under the
same request id. Faults are counted against `MaxFaults`: a call that fails
(`CallFails`), a crash (`CutOff`), a lost response, after which the AWS client sends
the call again (the second alternative of `Put` and `Delete`). A run that uses up its
time is cut off without counting as a fault; an `acquire()` that takes the whole
function timeout is counted as one. Not modelled: a record
that cannot be parsed (nothing writes one), an invocation without an installation id
(it has nothing to poll), and a call that takes effect after the invocation that made
it has ended. `fresh`, `stolen` and `cutOff` are history the properties use.

### Relay commands

`job[c]` is the deployment_jobs row of command `c` (state, re-offers, whether it was
offered, whether its record is still parked), `work[c]` what AWS does on its behalf,
`marker` the pending-command parameter, `relay` the invocation: where it is, the
commands it was handed, the answer in its hands. `cache` is the container's
`IdempotencyStore`, which a cold start empties.

| Code | Actions |
| --- | --- |
| day-2 routes, `createOrReuseJob` | `Request` |
| `pollOnce`: read the marker, resume | `Poll`, `ColdStart`, `Resume` |
| GET commands, `authorizeCommand` | `Fetch`, `Authorize` |
| the batch | `Dispatch`, `EndPoll`, `Release` (hand-back) |
| an executor: look, act, record | `Inspect`, `Act`, `RecordRunning`, `Record` |
| a resumer | `Resume` → `SettleNothing` / `SettleMarker` / `DropMarker` |
| POST result, clear of the marker | `Report` → `Clear` |
| the invocation is cut off | `CutOff` |
| AWS ends what was started | `Finish` |
| `sweepStuckJobs` | `Requeue`, `Park`, `GiveUp` |

`MayStart`, `ResumesAt` and `OnRecord` hold what differs between the types: which
evidence an executor asks for before it acts, where it goes on when it finds its own
marker, whether it stops when the marker cannot be read. Every call to SSM, to AWS
and to the control plane is a step that can fail, be lost, or be followed by a
cut-off. What an executor does in AWS is one step, `Act`, and a call that throws has done
nothing there. In the code an `updateService` or `runTask` may have taken effect before a
later call of the same executor throws (`restart.ts:114-138`,
`config-update.ts:542-568` and `826-833`), which leaves work behind an answer "failed";
that combination is not modelled.

### Secrets

`row` says that the key is part of the scope's configuration; `staged` and `bound[d]`
are the rows of the vault; `queue` the CONFIG_UPDATE messages; `jobs[d]` the
CONFIG_UPDATE jobs and the value each still carries; `store[d]` what the customer's
account has. Values are numbered in the order the vendor types them.

| Code | Actions |
| --- | --- |
| `setConfig` | `BeginSave` → `QueueValue` → `PersistValue`, or `SaveFails` |
| create, materialize, install, remove a deployment | `Create` → `Materialize`, `BeginInstall`, `EndInstall`, `Teardown` |
| `fanOutConfigUpdate` | `FanOut` |
| claim, with redaction and delivery of the bound row | `Claim` |
| config fetch, merge and write in the relay | `Fetch`, which may leave out a value that cannot be decrypted → `Write` |
| acknowledgement, which deletes the row, of such a fetch too | `Report` |
| watchdog, TTL, cut-off | `Requeue`, `GiveUp`, `Expire`, `CutOff` |

With `PromptQueue`, messages arrive in order and before the next INSTALL begins. That
is what SQS does in practice and promises nowhere; section 4 has what happens without.

### Builds

`worker` is the handler that holds the BUILD_RELEASE message, `build[b]` CodeBuild's
build of the `b`-th reception, `recorder` the handler of build events and the sweep.
`CreateRelease`, `Receive` → `StartBuild` → `Pin`, `CutOff`, `Redeliver` are the life
of the message (maxReceiveCount is 3); `BuildEnds`, `LoseEvent`, `Forget` what
CodeBuild does; `ReadEvent` or `BeginSweep` → `AskBuild`, then `Record`, the two
writers of a result. `startBuild` returning no id is not modelled.

### Enrollment

Code and credential are minted together, so both are the number of their pair. `row`
is the deployment's row, `relay[r]` a connector stack and its relay, `registers` the
registrations the API has checked but not yet bound. `Launch`, `UpdateSecret`,
`UpdateCode` are what a customer does with a stack; `ColdStart`, `Ask` → `Bind` the
registration; `BeginReplace` → `Replace` the reset, the retries and the rotation of
the link; `TimeOut` an answer that is lost. Not modelled: rows older than
credentials, revocation and expiry of links, the token rotation header, the INSTALL
job (`DeploymentLifecycle` has it).

### Billing

`dep[d]` is the state and the billing state of a deployment; `report`, `removal`,
`result`, `promote` the requests under way and what they have read; `count[q]` a
reconciliation, which counts (`Count`) and then pushes (`Push`) what it has counted.
`MarkLive` and `Promote` start billing; `AcceptRemoval` → `MarkRemoved`, `ReadAtOnce` →
`RemoveAtOnce` (a deployment that was never installed) and `ReadResult` → `EndRemoval`
stop it, each by a conditional write that may miss; `BeginSweep` and `BeginPromote` are
the safety job. Not modelled: the webhook inbox and its duplicates, event order, checkout
intents, TEST deployments, the ledger, the portal, entitlements.

### Domains and the default URL

`Default` is the address in Deployz's zone, `Domains` the custom ones ever added; a
certificate has the name of its address. `row` are the `custom_domains` rows and the
JSON of `default_https`: status, certificate, whose validation record is shown, and
whether the routing target is known. `jobs` are the open domain jobs with the
certificate of their payload, `removal[o]` the newest REMOVE_DOMAIN of an address.
`aws` is the load balancer (443 listener with its default and extra certificates,
port 80's redirect) and ACM, `dns` what is published. `handler` is a check or driver
under way with the row it read.

| Code | Actions |
| --- | --- |
| domain routes | `AddDomain`, `RemoveDomain`, `RetryDefault` |
| `runDomainCheck`, from heartbeats and "Check now" | `StartCheck` → `FinishCheck` |
| `runDefaultHttpsCheck`, from heartbeats and results | `StartDriver` → `FinishDriver` or `TimeOutDriver` |
| `configureDomain`, `removeDomain` | `Execute`: `ConfigureStages`, `RemoveStages` list the states the account goes through; a failing or cut-off executor stops at any of them |
| `applyDomainJobResult`, `applyDefaultHttpsJobResult` | `Report` |
| `sweepStuckJobs` | `Requeue`, `GiveUp` |
| destroy and its result, purge's sweep | `RequestDestroy` → `TearDownDomain` → `TearDownDefault`, `DestroySucceeds`, `SweepRecords` |
| CloudFormation, ACM, the customer's DNS | `CreateLoadBalancer`, `DeleteStack`, `Issue`, `Refuse`, `Publish` |

One check or driver runs at a time, and what it does at its end is one step: the probe
with the write of ACTIVE (`domains.ts:527-532`), the driver's DNS upserts with
`persistState` (`default-https.ts:713-758`). `DeleteStack` waits for the check, the pass
or the destroy request under way. Nothing in the code enforces that; deleting a stack takes many minutes, a
request seconds, and `TornDown` rests on it: a pass that outlived the deletion could
write the state of the default URL back. The
throttles of both are "may or may not run". Not modelled: host names and their
validation, failed installs, force-complete, a destroy repeated after its failure,
jobs parked as WAITING, the cycle numbers inside the keys, a re-offer of a job whose
answer the relay still holds (`RelayCommands` has that).

### Abstractions, and what they cost

- *Time.* Staleness, windows and grace periods may have elapsed or not at any
  moment. Safety proved so holds for every choice of the timeouts; what depends on
  their values (that a slow heartbeat is rarely older than a destroy) is not
  claimed.
- *Reads.* Adjacent reads of one handler are one step where no write of the same
  handler lies between them and no property turns on what comes in between;
  `hasSucceededInstall` of destroy is a step of its own. The reads that decide the
  state a failed watchdog job leads to are taken with the sweep's snapshot.
- *Transactions* are atomic. `recordBuildResult` is the exception: at READ
  COMMITTED it reads deployments that others change before it commits, so it is a
  read step and a commit step.
- *The relay* calls whenever it likes. A job that was ever offered may be reported
  at any time, any number of times and with either outcome while a relay is
  enrolled; a heartbeat's evidence is accepted, failing or missing, and names any
  READY release or the current one. This covers lost acknowledgements, repeated
  and late results, and AWS changing by itself.
- *Polls* do not overlap unless `OverlappingPolls` is TRUE: the relay's invocation
  lease is what prevents it, as far as `InvocationLease` shows.
- *The watchdog* is two operations, by the branch it takes: `StuckJobs` behind a
  CONNECTED relay and `StrandedJobs` behind any other. It acts on one job per
  handler, so a pass over several rows is several handlers with snapshots of
  different ages.
- *Not modelled in the lifecycle modules*: the client's own Idempotency-Key header; domain
  job types; MIGRATION and INFRA_UPGRADE, which nothing creates; the job state
  QUEUED, which nothing writes; the deployment state DISCONNECTED, which nothing
  writes; generations of enrollment codes (a handler that loaded before a reset may
  still enroll, but not with an old code after it: `Enrollment` has those); redaction
  of payloads (`SecretDelivery`); billing (`BillingQuantity`); events,
  previousReleaseId and currentReleaseConfirmedAt. Two config messages that
  are fanned out at the same moment share a key.
- Init lets any set of releases be READY, because an application usually has some
  before a deployment is created.

- *Faults* of the other modules are counted against `MaxFaults`: a lost message, a
  call that fails, a cut-off. Each module names them at its fault operator.

## 3. Runs

| Run | Instance | What it shows |
| --- | --- | --- |
| `lifecycle` | 1 handler, 3 jobs, 2 releases | With handlers that run one after the other and complete, all routes but launch, the unguarded reset and the config fan-out, the relay's calls, releases and both sweeps keep the lifecycle table of `docs/deployment-resilience.md` |
| `removal` | 2, 3, 0 | Interleaved, with credential resets: a DESTROY that may delete data is inserted only where no INSTALL has succeeded that was requested before the destroy found the deployment idle (`DataDeletionSparesInstalls`); settled jobs keep their outcome |
| `commands` | 2, 3, 1 | Interleaved: one active mutation, mutations handed out alone, failed updates keep a serving deployment; the inductive invariant of the proofs, with every part of it (`Consistent`) |
| `first_start` | 2, 3, 1 | Interleaved, with launches and crashes: configuration before auto-deploy, verification after install |
| `invocation_lease` | 3 invocations, 1 fault | Runs overlap only through a deletion by an invocation that had not read what it deletes (`OneRunAtATime`); the inductive invariant; the relay always runs again (`RelayKeepsRunning`) |
| `relay_commands` | any 2 commands of INSTALL, CONFIG_UPDATE, DEPLOY_RELEASE, RESTART, DESTROY; 1 re-offer, 2 faults | Relay and control plane implement `CommandDelivery` (`DeliveryKept`); what is owed can be found (in `Consistent`); no migration runs twice; no mutation starts on another's work unless the record of that work was lost, or a re-offered CONFIG_UPDATE takes its turn before it; every command is answered (`CommandsAreAnswered`) |
| `secret_delivery` | 1 deployment, 2 values, 2 faults (a value that cannot be decrypted is one) | A promised value stays on its way (`ValueIsOnItsWay`) and arrives (`ValueArrives`); no vault row outlives a newer value, and the inductive invariant of the proofs (`Consistent`) |
| `build_pipeline` | 3 receptions, 3 faults | Built once, settled as its build ended, final once READY; leaves BUILDING also without its event (`ReleaseSettles`) |
| `enrollment` | 2 stacks, 3 pairs, 1 fault | A code binds one installation; a registered relay of the current link is let in and no other; the new link connects (`NewLinkConnects`) |
| `billing` | 1 deployment, 2 requests, allowance up to 1, 1 fault | Removed is not billed; READY is billed; the quantity converges, whatever five overlapping reconciliations do |
| `domain_https` | 1 custom domain, 1 fault | One configure job per address, open removals have their job (`Consistent`); an ACTIVE domain is on the listener (`ActiveDomainIsServed`); a deleted deployment leaves no state and no record (`TornDown`) |
| `stale_heartbeat` | 2 handlers, 2 jobs | Expected violation, section 4 |

Each property of a passing run has a mutant in `PROJECT.json`: a plausible bug in the
modelled code for which TLC reports that property violated.

### The lifecycle's runs

`Operations` selects the routes and sweeps of a run, so that a run spends its states
on the interleavings its question is about. Bounds: `MaxJobs` job rows,
`MaxReleases` releases, `MaxRequeues` re-offers (3 in the code; 1 in `commands`, none
elsewhere, where hand-backs put a job back on offer), and the number of handlers. A
bound on job rows disables the insert, after which every behaviour eventually stops;
hence `CHECK_DEADLOCK FALSE` in these configurations. Handlers are interchangeable and
the runs with two of them use that symmetry; every property of these runs is an
invariant or an action property, for which symmetry is sound.

Two handlers are enough for the races these properties can lose, which need one
writer between a read and a write of another; three jobs are enough for an install,
an operation and its retry or teardown; two releases for "newer" and "older".

`removal` spends its third job on an INSTALL that is requested after the first one
failed or was cancelled, next to a DESTROY. Its `Reset` stands for the public retry as
well, which runs the same transaction behind a gate on the state. The relay stays
connected in it, so that INSTALLs are cancelled by the reset and not by destroy, whose
statement is the same; with `RelayLiveness`, where destroy cancels them too, it was run
once and holds (2.5 million states). `PublicRetry` and destroy's cancellation are in
`lifecycle`, `Launch` and `Crash` in `first_start`, and the theorem about the property
covers all of them together.

Under any interleaving of a run's operations hold `OneActiveMutation`, `SettledJobKept`,
`DataDeletionSparesInstalls`, `MutationsHandedOutAlone`,
`FailedUpdateKeepsLive`, `ConfigBeforeAutoDeploy` and `VerifiedOnlyAfterInstall`. While handlers run one after the other,
`InFlightStateHasItsJob`, `DeletedIsTerminal`, `DeletingEndsTheDeployment`,
`UpdateAvailableIsTrue`, `RecoveryOnlyIfNeverInstalled` and
`DataDeletionOnlyIfNeverInstalled` hold too; under
interleavings most of them fail, and section 4 says where. Section 5 has all of them as
theorems, with the conditions under which they hold for every bound.

### The other runs, and the fairness they assume

`invocation_lease` has three invocations (an owner and two that race for its lease),
a run time of 1, a margin of 2, clocks that differ by at most 1, which keeps the
code's order skew < margin, and one fault of any kind on top of any number of
timed-out runs. It checks deadlock and uses no symmetry. `RelayKeepsRunning` assumes
weak fairness of starting some invocation (the EventBridge rule fires every minute,
whatever the last invocation did), of every step of an active invocation (Lambda
schedules it, and SSM answers) and of time. Nothing is assumed of the order in which
invocations are served, and faults may come at any moment, but only finitely many: a
relay that can never reach SSM again does not run, and should not.

In `relay_commands` any two different commands of five types meet, in any order: an install that is resumed and work that is torn down, a restart, and the two
mutations that share a marker. `MaxCommands` bounds the commands requested. Two are
enough for one answer to replace another's record; three of INSTALL, CONFIG_UPDATE,
DEPLOY_RELEASE and DESTROY with one fault were run once and hold (398 thousand
states). `FairSpec` assumes weak fairness of the relay's steps (EventBridge
starts an invocation every minute), of AWS ending what it was given, of the watchdog's
re-offer and giving up (every fifteen minutes, and without assuming that it does so
while the relay still works), and, for DESTROY and PURGE, which the
watchdog never gives up, strong fairness of their work ending well: a stack that can
never be deleted keeps its DESTROY open, as the code intends.

`secret_delivery`: weak fairness of a save's remaining statements, the queue's
fan-out, the binding of staged rows, the relay's steps and the watchdog's re-offers;
nothing is assumed of vendors and of installs. Two values are enough for
one to overtake the other, one deployment for every row of the vault; two deployments
with one fault were run once for the invariants (with symmetry) and hold.

`build_pipeline`: weak fairness of the handler of the message, of the sweep (every fifteen
minutes) and of every build ending (CodeBuild has a timeout). Nothing is assumed of
build events. Four receptions with six faults (899 thousand states) hold.

`enrollment`: weak fairness of the relay's next attempt (each cold start and each
refused poll makes one), of the customer updating a stack's code to that of the link
that is open, and of some checked registration being bound. Two faults (263 thousand
states) hold.

`billing`: weak fairness of what a request under way still has to write, of the
safety job, which runs with the watchdog, and of each reconciliation that has begun;
nothing is assumed of vendors, admins, relays and Paddle.
Two deployments with one request and no fault, and two faults with one deployment, were
run once for the invariants and hold (1.8 million and 551 thousand states). Deadlock is checked.

`domain_https` checks safety with one custom domain beside the default URL, which is
enough for the two to share the listener, and one fault: a cut-off, a failed call, a
refusal by ACM or Cloudflare, a timeout. A deployment that is gone, or an address in
ERROR with nobody to retry it, stops for good, hence `CHECK_DEADLOCK FALSE`. Two
domains without faults were run once and hold (10 million states). So do, once and
without faults (314 thousand states), `DomainComesUp`, `DefaultGetsConfigured` and
`RemovalEnds` under `FairSpec`: weak fairness of a check or driver under way, of the
watchdog's re-offers, of ACM and of the customer publishing what is shown; strong
fairness of the relay's turns and of the heartbeat's checks, which each other's calls
disable again and again. These three take too long to be a run beside the others.

## 4. Where the code and its documentation disagree

`stale_heartbeat` checks a property that `docs/deployment-resilience.md` states, and
TLC finds a behaviour of the code that violates it (`findings` in `PROJECT.json`
quotes the line): a heartbeat decides HEALTHY before a destroy and writes it over
DELETING. The passing runs are built around more behaviours that break a property.
Each shows when a run is widened as named, or when the property, which its module
defines, is added to the named configuration:

| Property | Widen | Behaviour |
| --- | --- | --- |
| `InFlightStateHasItsJob` | 2 handlers, 2 jobs, 1 release; `Register`, `Deploy`, `Claim`, `Result`, `Heartbeat` | the relay settles a job before the route marks UPDATING, which then stays (`server.ts:5594`) |
| `InFlightStateHasItsJob` | `lifecycle` with `ConfigUpdate` | destroy cancels the obsolete INSTALL, is then refused as busy, and leaves INSTALLING without an INSTALL (`server.ts:6111`) |
| `DataDeletionOnlyIfNeverInstalled` | `removal` | destroy of an install that failed, or that a reset cancels, finds the deployment idle and reads that nothing was ever installed; a reset or a public retry has made room for another INSTALL, which succeeds before the DESTROY is inserted; that DESTROY may delete the data of what then runs (`server.ts:6117`, against the comment at `server.ts:6112-6116`) |
| `DataDeletionSparesInstalls` | `removal` with `RelayLiveness`, `StrandedJobs` | the watchdog parks an INSTALL that succeeded meanwhile; the destroy that cancels it may then delete data (`worker.ts:805`) |
| `RecoveryOnlyIfNeverInstalled` | 2 handlers and `RetryInstall` | retry-install cancels an INSTALL that succeeded meanwhile and queues a destructive recovery (`server.ts:6750`) |
| `ReplayAbsorbed` | 1 handler, `Deploy`, `Claim`, `Result` | the base key of a retried command misses the active retry (`server.ts:1250`) |
| `SettledJobKept` | `removal` with `RelayLiveness`, `ForceComplete` | force-complete cancels a DESTROY whose result was recorded after it was read (`server.ts:6276`) |
| `RecoveryOnlyIfNeverInstalled` | `removal` with `PublicRetry` for `Reset` | a public retry read the INSTALL before it succeeded: it sends the deployment back to NOT_INSTALLED with its connector, and the next registration queues a destructive recovery (`server.ts:3317`, `server.ts:8164`) |
| `DeletedIsTerminal` | `lifecycle` with `Reset` | relay reset has no state gate: a removed, never installed deployment goes back to NOT_INSTALLED (`server.ts:6608`) |
| `DeletedIsTerminal` | `lifecycle` with `Crash` | the INSTALL of a registration cut off before enrolling outlives the at-once removal; its timeout turns DELETED into FAILED (`worker.ts:891`) |
| `HealthyIsUpToDate` | 1 handler, 2 jobs, 1 release; `Register`, `Restart`, `Claim`, `Result`, `Heartbeat` | a RESTART that succeeds makes an UPDATE_AVAILABLE deployment HEALTHY, without the newer-release check of deploy and rollback (`server.ts:2074`) |
| `FailedFirstInstallStays` | 1 handler, 1 job, 1 release; `Register`, `Claim`, `Result`, `Heartbeat` | a heartbeat promotes a release on a FAILED first install and the next one recovers it (`server.ts:9359`) |
| `MutationsHandedOutAlone` | `commands` with `OverlappingPolls = TRUE` | two overlapping polls each claim another service mutation (`server.ts:8343`) |
| `OverlapNeedsCutOff` | `invocation_lease` | an invocation finds the lease released since its put and deletes the lease of the next owner: two run although nothing crashed or timed out (`lease.ts:124`) |
| `LostAnswerNeverReruns` | `relay_commands` | an answer that is lost after the next command of the batch took the marker: the re-offered command has no record of its own (`pending.ts:443`; docs/deployment-resilience.md:585) |
| `MutationsDoNotOverlap` without its third conjunct | `relay_commands` with 3 commands, 3 faults | a re-offered CONFIG_UPDATE whose call fails answers its marker with a failure while its rollout goes on; its report is lost and the DEPLOY_RELEASE of the same batch starts (`server.ts:8332`) |
| `MutationsDoNotOverlap` without its fourth conjunct | `relay_commands` with 3 commands, 1 fault | a DEPLOY_RELEASE is re-offered while its rollout runs, and the next poll hands out a CONFIG_UPDATE that is older and was left out of the first batch: it starts beside it (`server.ts:8332`) |
| `AnswerKept` | `relay_commands` | the marker's record of an unreported answer is replaced by the batch's next command, or cleared by DESTROY and PURGE before they report (`destroy.ts:462`, `purge.ts:709`; docs/deployment-resilience.md:588) |
| `SuccessIsEarned` | `relay_commands` | a CONFIG_UPDATE cut off between `updateService` and its marker is re-offered, finds the configuration applied and reports success of a rollout that may still fail (`config-update.ts:469`; `worker.ts:661`) |
| `OmittedRowKept` | `secret_delivery` | a bound value cannot be decrypted when the relay fetches its configuration: the answer leaves it out and keeps the row, the relay applies the rest, names the key in `unboundSecretKeys` at most, and reports success (`config-update.ts:408-417`, `469-471`), and the acknowledgement deletes the row of every key the job named (`server.ts:8854`). No cycle retries it and nobody is told; docs/pending-secret-delivery.md:75-77 and the comments at `server.ts:9608` and `install-config.ts:121` say the row is kept and the next cycle retries, as does the head of test (e) in pending-secret-delivery.integration.test.ts, which never gets to an acknowledgement |
| `SuccessDelivers` | `secret_delivery` | the claim's response is lost: the re-offered job has no value and succeeds without it (`server.ts:2101`) |
| `NoStaleRow` without `\ cut` | `secret_delivery` | two acknowledgements are cut off before they delete the row: every job is done and the vault holds the older value, which the next configuration pass writes back (`server.ts:8845`) |
| `ValueIsOnItsWay` | `secret_delivery` with `PromptQueue = FALSE` | messages of two saves that change places make the older value final |
| `ReadyIsImmutable` | `build_pipeline` | a build that was started but not recorded succeeds and makes the release READY; the redelivered message's handler had read the release before and pins its own build, or fails the release, over it (`worker.ts:298`) |
| `ReasonOnlyIfFailed` | `build_pipeline` | a retry after a failed start goes on to BUILDING and READY with the failure's reason (`schema/core.ts:81`) |
| `EveryReleaseSettles` | `build_pipeline` | a message that is dead after its receptions, or that was never queued, leaves the release PENDING: the sweep looks for BUILDING only |
| `CodeNeverBindsTwice` | `enrollment` | a registration that was checked before a reset and bound after it binds the old code a second time and spends the new link (`server.ts:8198`) |
| `RunningKeepsItsLink` | `enrollment` | the rotation replaces the link of a relay that enrolled after the rotation's check (`install-link-lifecycle.ts:58`) |
| `EveryInstallationIsKnown` | `enrollment` | a replaced registration leaves a stack no row knows of (`server.ts:6590`) |
| `RemovalStopsBilling` | `billing` | a report starts billing between destroy's read and its conditional update, which then misses: billing goes on until the DESTROY's result (`server.ts:6141`; paddle-billing.md:16) |
| `RemovedIsNeverBilled` | `billing` | the same, with a destroy cut off before its billing write and a report between the result's read and its commit: DELETED and billed for ever, and the safety job does not look there. Without any fault too: destroy reads a deployment that was never installed (`server.ts:6026`), which comes up and is billed before the transaction that removes it at once (`server.ts:6044-6063`); its conditional write misses, no result follows, and what was removed stays billed. The comment in `billing-lifecycle.ts:50-51` takes a miss for the same transition already applied |
| `DefaultUrlStays` | `domain_https` | the custom domain got the 443 listener first; its removal deletes the listener, and with it the default URL's certificate, while the default stays ACTIVE and is never checked again (`relay/src/domain.ts:252`; docs/networking-and-https.md:44 calls it the permanent fallback) |
| `RedirectLeadsSomewhere` | `domain_https` | a removal is cut off after deleting the 443 listener; repeated, it finds no listener and leaves port 80 redirecting to nothing (`relay/src/domain.ts:249`; `worker.ts` says a re-offer converges) |
| `RoutingRecordWritten` | `domain_https` with `FairSpec` | the result that first names the load balancer also wires the listener: the machine is CONFIGURING before the routing record was published, and from then on only probes (`default-https.ts:498`) |
| `OwnCertificate` | `domain_https` with 2 domains | a late result of a removed domain is applied to its successor (`domains.ts:325`) |

Most are one pattern: an update by id alone, or by a condition that does not cover
what the decision read, after a read that others overtake (`markJobRequested`, the
heartbeat, the parking, retry-install's cancellation, the builds' bookkeeping, destroy's billing),
next to conditional updates everywhere else. The theorems below say how far that
pattern reaches in the lifecycle.

Deleting only when the read found an expired record would close the hole of
`OverlapNeedsCutOff`: the put that follows decides by itself, and with that change
TLC finds no overlap in the run's instance. The hole between reading an expired lease
and deleting it stays, as the comment in `lease.ts` says.

Read from the code while modelling and outside the models:

- *Secrets*: a staged row written just after a deployment was created and materialized
  is never bound, and a stale one may be bound to the next deployment; with only DELETED deployments a typed value is bound to one and never
  staged. The comment near `config.ts:437` describes staging otherwise.
- *DESTROY and PURGE* do not defer when the marker cannot be read
  (docs/deployment-resilience.md:600 says every command does).
- *Checkout*: two ACTIVE events of one subscription complete the same intent and
  create two deployments: `completePendingCheckoutIntent` selects it without a lock
  and ignores an update of no row (`billing-checkout.ts:241` says otherwise). The
  guard against older snapshots reads and writes apart; a crash after the inbox row
  was inserted makes a redelivery within ten minutes a DUPLICATE that Paddle never
  repeats.
- *Domains*: `createCustomDomain` asks no state of the deployment, so a domain may be
  added before the load balancer exists; it then waits for DNS without a routing
  target, and no pass asks the relay again. `failStuckJob` writes its failure on the
  custom row also for a job of the default URL. A domain removed before its first
  answer leaves its certificate in the customer's account. A heartbeat does not ask
  again for a removal the watchdog failed (the comment at `worker.ts:844` says it
  does). A parked job is not "in flight", so a second CONFIGURE_DOMAIN is queued
  beside it.

## 5. Proofs

Each proof module has an inductive invariant `Consistent` (`LeaseInvariant` for the
lease) that a run also checks, one lemma per action or per kind of action, and theorems
for the properties that follow. They use the named assumptions on the constants, which
TLC evaluates in every run. A theorem that holds only while some operations do not run,
or for one domain, says so in its `ASSUME`; section 4 has the behaviour that breaks it
otherwise.

### The lifecycle

`DeploymentLifecycle_proofs`, for every number of handlers, every bound and every
subset of operations, has two layers; a third, for one handler at a time, follows below.

- `Coherence`: `Spec => []Coherent`. `OneActiveMutation` is not inductive by
  itself. A handler acts on what it carries: it writes the job row it names, adds
  one to the counter it read, writes the state it decided. So `Coherent` adds the
  types, that job rows are inserted in order (a fresh row is not an active one), and
  `HandlerConsistent`: the job a handler names exists, the jobs a poll chose exist, a
  marking step has a state to write, a re-offer is one the bound allowed when the
  counter was read, parking is never the verdict behind a connected relay, and a
  result settles into SUCCEEDED or FAILED. `OneActiveMutation` is
  preserved because an insert passes the index, a claim moves jobs among the active
  states, re-offers touch only active jobs and parking passes the index too.
- `TypeCorrect` and `OneActiveMutationHolds` follow. The second one includes the
  writers of section 4: the index is enough by itself.
- `SettledUnlessUnguarded`: a step that changes a settled job is a step of
  force-complete, retry-install or the watchdog's parking. Those are the three
  updates by id alone; no other route, result, sweep or cancellation can do it.
  `SettledJobKeptHolds`: without those three operations, `SettledJobKept` holds.
- `Invariance`: `Spec => []Consistent`. The other properties relate a write to what an
  earlier step read, so `Consistent` says of each read why it still counts when it is
  acted on:

| Part of `Consistent` | What it says | Theorem it carries | Holds while |
| --- | --- | --- | --- |
| `CarriesItsJob` | the operation, job, key and verdict of a handler fit each other | all below | always |
| `FollowUpsInOrder` | whoever is about to queue the auto-deploy has the configuration pass queued | `ConfigBeforeAutoDeployHolds` | always |
| `PollsAlone` | nothing is RUNNING between a poll's read and its claim | `MutationsHandedOutAloneHolds` | polls do not overlap |
| `OutcomesOnRecord` | the rows and the history agree on what was installed and started | the next two | `SettlesForGood` |
| `RemovalsStand` | the INSTALLs there were when a destroy found the deployment idle have settled, and none with success if it goes on to delete data | `DataDeletionSparesInstallsHolds` | `SettlesForGood` |
| `VerdictsStand` | a failure decided before the job settled is still the right one, because what started stays started while the mutation is active | `FailedUpdateKeepsLiveHolds` | `SettlesForGood` |
| `AnnouncementsStand` | an update that a handler is about to announce exists: READY releases stay, and the pointer belongs to the active mutation | `UpdateAvailableIsTrueHolds` | `PointerOrReleases` |
| `InstallFirst` | INSTALLING comes with the enrollment and lasts until its INSTALL settled; before that nothing of a later stage exists | `VerifiedOnlyAfterInstallHolds` | `InstallsOnce` |

  `SettlesForGood` leaves out retry-install and the parking of stranded jobs, which
  write a settled INSTALL by its id and take its success back; under every other
  operation, crashes included, it needs nothing. `PointerOrReleases` leaves out parking
  and the meeting of heartbeats with finished builds: a build's transaction decides to
  announce from a pointer that a heartbeat moves before the commit. `InstallsOnce` is
  the first install without resets, retries and removals, after which a heartbeat that
  read the earlier attempt may verify the next. All five conditions are on `Operations`
  or the poll switch, and a run's configuration satisfies each.

`Shapes`, `HistoryMoves`, `StateMoves` and `Errands` in the proof module say once what a
step can do to the job rows, the history, the deployment row and the handlers; every
part of `Consistent` has one lemma that rests on these four.

### The lifecycle table

The properties of the table are about one handler at a time. `OneByOne` says so: no two
handlers, and no `Crash`, `Reset` or `ConfigUpdate`. Each of the four is needed, because
section 4 has a behaviour with it that breaks a property below. The run `lifecycle`
satisfies it; the theorems also cover `Launch`, which that run leaves out, and every
number of jobs, releases and re-offers.

- `SerialInvariance`: `Spec => []InTurn`. A property such as `InFlightStateHasItsJob`
  speaks of the moment between two requests, and a request passes through states in which
  it is false: a DESTROY is inserted before DELETING is written, a superseded INSTALL is
  cancelled before its successor is inserted. `InTurn` is `Consistent` with `TableHolds`,
  which says at every step what is so:

| Part of `TableHolds` | What it says |
| --- | --- |
| `NumbersInOrder` | attempts at an INSTALL or a DESTROY have the numbers 0, 1, ..., so the key of the next one is free and its insert succeeds |
| `MutationsInTurn` | only the newest mutation can be active |
| `InstallsOnRecord` | what the deployment row says of enrollment and installs is what the job rows say |
| `JobsFitState` | an active mutation is one the state allows, but for a request that has inserted its job and is about to mark it |
| `StateHasItsJob` | an in-flight state has its job, but for a request that has closed one and is about to insert the next |
| `RequestStands` | what a route has read or made sure of is still so at its next step |
| `ReportStands` | the same for registrations, results, heartbeats, follow-ups and the watchdog |
| `AnnouncementsStand`, `UpdateAvailableIsTrue` | as in `Consistent`, here without `PointerOrReleases` |

  The two exceptions are what the actions in between rely on: `InsertDestroy` and
  `InsertRetryInstall` find the deployment idle and, by `NumbersInOrder`, their key free (or
  the repeated DESTROY already there), so a request that has closed a job comes to its mark. There is one
  lemma per action (`...Keeps`) and per first step (`...Reads`).
- `InFlightStateHasItsJobHolds`, `RecoveryOnlyIfNeverInstalledHolds` and
  `AnnouncedInTurnHolds` follow from `InTurn` alone. `DeletedIsTerminalHolds` and
  `DeletingEndsTheDeploymentHolds` are action properties: by `JobsFitState` only its DESTROY
  can settle a deployment on its way out, and by `RequestStands` and `ReportStands` nobody
  who is about to write a state has read another one.
- `DeletionInTurnHolds` and `SettledInTurnHolds` say that what `SettlesForGood` and the
  condition of `SettledJobKeptHolds` exclude breaks those properties only by interleaving:
  one after the other, retry-install, force-complete and the parking of stranded jobs keep
  them. `DeletionInTurnHolds` is about `DataDeletionOnlyIfNeverInstalled`, which any
  interleaving with destroy's read and insert can break.

`InTurn` is not a property of a run. TLC checked it once, as an `INVARIANT` added to
`lifecycle.cfg` with `Launch` (3.4 million states).

### The lease

TLAPS checks `InvocationLease_proofs` for every set of invocations, run time, margin
and number of faults, and every clock skew below the margin (`TimesAssumption`,
`NoneAssumption`).

- `LeaseInvariance`: `Spec => []LeaseInvariant`. `OneRunAtATime`
  speaks only of who runs. What keeps it is `HoldersOwn`, that a holder whose lease
  was not stolen owns a parameter that outlives it by the margin, and
  `VerdictsStand`, that whoever is about to delete a parameter it has read saw it
  expired on its own clock, or its own. A deletion that follows its read then cannot
  hit a holder: expired on a clock less than a margin ahead means that the holder's
  time is over.
- `OneRunAtATimeHolds`: two owners of one parameter are one, so of two invocations
  that run at once one was stolen from.

### The relay

`RelayCommands_proofs`, for every set of commands and types, and any number of re-offers
and faults:

- `Consistency`: `Spec => []Consistent`. Between the read of the marker and the report
  lie up to seven calls, each of which can fail, be lost or be the last, so the
  invariant says what the relay has in its hands at each of them. `RelayInOrder` and
  `MarkerInOrder` are the shape of both; `TracesHaveRows` (nobody has a trace of a
  command that was not requested); `WorkIsUnanswered` (what an executor is about to do
  has no answer yet); `AnswersAreEarned` (a success on a row, in the container, on the
  marker or in the relay's hands is one of the work); `InstallsGoAlone` and
  `TeardownIsLast` (what the routes keep apart); and `DebtsAreKnown`, the form of
  `DebtIsFindable` that also holds in the middle of an invocation. They make up `Orderly`;
  the rest of the inductive invariant is `Apart`, below.
- `NotRunTwiceHolds`: by `DebtsAreKnown`, a restart or a migration that was started and
  is not on the marker was lost or never recorded, and an executor that finds it on the
  marker does not start it.
- `MutationsDoNotOverlapHolds`: work of another command that runs at a start and is not on
  the marker lost its record, by `DebtsAreKnown` and, for a deletion whose report was lost,
  `DeletionsAreKnown`. Work that is on the marker is the hard case: an executor never asks
  whose marker it is. `StartsApart` says of everything in the batch, and of what is
  executed, that such work makes it wait: it is handed back, or the other command comes
  first, or it is a CONFIG_UPDATE from before it. `TakenInOrder` shows that a fetch
  establishes this: of two commands at hand the first is a CONFIG_UPDATE and the second a
  DEPLOY_RELEASE, and a CONFIG_UPDATE that the relay ever got hold of is the oldest that is
  open, so a re-offered one is in the batch again and in front. `AnswersAreKept` closes the
  last gap, a CONFIG_UPDATE that reports an answer its container remembers while its
  rollout goes on: that answer is on the marker as well, or was not recorded. The run
  had asked for the loss of one of the two records; the proof needs only that of the work
  that is under way, and the property now says so. TLC also checked `Consistent` and the
  property with 3 commands and 1 fault for two CONFIG_UPDATEs, a DEPLOY_RELEASE, a DESTROY
  and a PURGE.
- `DeliveryKeptHolds`: `Spec => DeliveryKept`, the refinement of `CommandDelivery`. `Init`
  maps to its `Init`; `Request`, `Act`, `Finish`, `Report` and the watchdog's `GiveUp`
  map to its steps, every other action to a stutter. A report maps to an answer because
  `AnswersAreEarned`, a start to a start because `WorkIsUnanswered`.

### Builds

`BuildPipeline_proofs`, for every number of receptions and faults:

- `Consistency`: `Spec => []Consistent`. That a release is built once does not follow
  from the writes of the release alone, because a worker may write BUILDING over
  what was recorded. `Consistent` adds `Receptions` (a queued message has receptions
  left, and a worker that holds one of a release nobody pinned has not started yet),
  `StartedBuilds` (a build is numbered by its reception, and one that is no orphan is
  pinned or about to be), `Recordings` (what a recorder carries is what the build it
  names ended with, and a forgotten build has no reader) and `NotOvertaken` (what is
  being recorded is of the pinned build, or nothing is pinned and the release is not
  READY).
- `OneBuildPerReleaseHolds`, `SettledAsBuiltHolds` and `ReadyIsFinalHolds` follow, the
  last one as an action property.

### Enrollment

`Enrollment_proofs`, for every set of stacks and number of pairs and faults:
`Consistency` proves `TypeOK`, `CodeBurnsOnce`, `LetInWhileItsLinkIsCurrent` and
`Registrations` together. `Registrations` is what carries them: a registration that
was checked names a pair the row has had, and one that is bound and not late has spent
the row's own pair. The steps of a stack alone share one lemma
(`RowKept`); asking, binding and replacing have one each. `CodeBurnsOnceHolds`
and `LetInWhileItsLinkIsCurrentHolds` are its corollaries.

### Billing

`BillingQuantity_proofs`, for every finite set of deployments, set of requests,
allowance and number of faults: `Consistency`, with `RemovalsInOrder` as the
strengthening. Billing leaves NOT_STARTED for ever, so a conditional update that
missed because of it has a successor that cannot: once a removal got as far as its
billing, that is started or stopped, and what a later result has read of it stays true
until STOPPED. A removal at once has no successor, so the deployment it missed is in
`hasty`, with those whose removal was cut off, and the property leaves it out.
`RemovedIsNotBilledHolds` follows.

### Domains and the default URL

`DomainHttps_proofs`, for every number of domains (but for the last one) and faults:

- `Consistency`: `Spec => []Consistent`. `OneConfigureJob` needs nothing else: an insert
  asks for an open job of the address. `RemovalsInOrder` ties the marked removals to
  their jobs, `RowsInOrder`, `PassesInOrder` and `RecordsInOrder` say what a pass that
  read a row may write over another one: a driver pass that is under way when the
  deployment goes has a load balancer, and where the default URL's state is gone its
  record is gone, or Cloudflare refused.
- `TornDownHolds`: nothing of the default URL outlives its deployment. It is
  inductive together with `Consistent`.
- `ActiveDomainIsServedHolds`, under `MaxDomains = 1`: a removal that is repeated may
  leave a second REMOVE_DOMAIN job behind that outlives its domain, so for several
  domains the property needs an invariant about the order in which such jobs meet the
  listener of the next one, which is not proved; TLC checked two domains.

### Secrets

`SecretDelivery_proofs`, for every set of deployments and every number of saves and
faults. `NoStaleRow` and `ValueIsOnItsWay` speak of a moment when the save is done or no
job is open; `Carried` is the inductive invariant that says at every other moment why
they will hold. Apart from the types and `QueueInOrder` it is one conjunct per
deployment, `Coherent(d)`, so that a step of one deployment is proved for that one
(`OneDeployment`, and `Untouched` for the others):

| Part of `Coherent` | What it says | Needs `PromptQueue` |
| --- | --- | --- |
| `JobsInOrder` | a job carries what a save wrote, names the key if it has a value, and jobs stand in the order of the saves, before what is still queued | only the order |
| `InstallsInOrder` | no relay, no job; nothing ran, nothing stored; what a save has read of a deployment can only have gone on | no |
| `TurnsInOrder` | jobs are claimed one after the other, and the relay holds what its job had, or nothing; a turn whose value was left out has fetched nothing | no |
| `StaleRowGoes` | a row older than what runs has a job whose success will delete it, unless an acknowledgement was cut off; what the relay has fetched is not newer than the row | no |
| `MessageComes` | whoever was read as claimable, or would still get an older value, has the latest one in a message, an unclaimed job or the relay's hands, or has it already | yes |
| `PromiseKept` | a promised value is in the vault of a deployment that is not installed, and for one that runs it is coming, has arrived to stay (`Arrived`), or an open job will fetch it (`WillFetch`): one that has not fetched yet, or whose fetch left the value out, which loses it only when its success is acknowledged | yes |

- `Consistency`: `Spec => []Consistent`, `NoStaleRow` with what carries it. It needs
  nothing of the queue.
- `ValueIsOnItsWayHolds`: `PromptQueue /\ Spec => []ValueIsOnItsWay`. The hypothesis is the
  one of section 2; without it the property is false (section 4).

`dropped` records what nothing will bring any more: values lost with a claim, expired, left
unbound, and left out by a fetch whose job then succeeded (`Omits`). A turn that
fails after such a fetch, or is cut off, loses nothing, because its row stays. `cut` records that an acknowledgement ended before it deleted its row. Looking for the
invariant showed that `dropped`, which the next save resets, does not excuse enough: the
row that was left behind can become the stale one only after the next save. TLC checked
the two invariants in wider instances than the run's too: one deployment with 3 values
and 3 faults (1.7 million states), two deployments with 2 values and 1 fault, and
`Consistent` without `PromptQueue` for 3 values and 2 faults (1.2 million).

### What is only model-checked

- Liveness everywhere (`RelayKeepsRunning`, `CommandsAreAnswered`, `ValueArrives`,
  `ReleaseSettles`, `NewLinkConnects`, `ReadyIsBilled`, `QuantityConverges`), because it
  and ENABLED are out of the provers' reach. `DeploymentLifecycle` assumes no fairness
  and claims no liveness: its `Spec` is safety only, and what must happen to a job is
  shown by `RelayCommands`, where a relay and a watchdog are scheduled.

## 6. Plan

Done: every module of section 2. Left, in this order:

1. `JobWatchdog`: one job against the watchdog's clock (timeout, runtime bound, grace
   period, heartbeats that refresh lastProgressAt): no job of a live relay is failed
   before its re-offers are used up.
2. Billing's webhook inbox, event order and checkout intents.
3. The interleaved race of `recordBuildResult`'s flip with promotions.
4. `DomainHttps` with two handlers at once, and its liveness as a run of its own.

Theorems next: `ActiveDomainIsServed` for several domains; the modules of the list above.

## 7. Not modelled

- *Team Admin, organizations, auth*: queries, and actions that call the modelled
  operations.
- *Status derivation, failure classification*: pure functions of rows, read when a page
  is shown; nothing of the lifecycle depends on what they return.
- *Repository analysis, infrastructure compiler, application stack, bootstrap stack*:
  the larger part of the repository, pure functions from files to data and templates.
  They hold no state and run to their end by themselves; tests with examples fit them
  better than a model does.
- *Web dashboard, copy map*: presentation.
- *AWS inside one executor*: what CloudFormation, ECS and RDS do is one outcome, except
  for listeners and certificates. So is verification (`packages/relay` probes).

What a modelled component leaves out is named with its module in section 2 and in the
notes of `PROJECT.json`.

## 8. Running

    tlc -config lifecycle.cfg MCDeploymentLifecycle.tla     # removal, commands, first_start, stale_heartbeat too
    tlc -config invocation_lease.cfg InvocationLease.tla
    tlc -config relay_commands.cfg MCRelayCommands.tla
    tlc -config secret_delivery.cfg MCSecretDelivery.tla
    tlc -config build_pipeline.cfg BuildPipeline.tla
    tlc -config enrollment.cfg MCEnrollment.tla
    tlc -config billing.cfg BillingQuantity.tla
    tlc -config domain_https.cfg DomainHttps.tla
    tlapm DeploymentLifecycle_proofs.tla                    # likewise the other ..._proofs

A passing run takes between a few seconds and three minutes.
