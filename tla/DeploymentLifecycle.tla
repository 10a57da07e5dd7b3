------------------------ MODULE DeploymentLifecycle ------------------------
(***************************************************************************)
(* The lifecycle of one deployment as the control plane runs it: every     *)
(* route of apps/api/src/server.ts and every sweep of the worker           *)
(* (packages/cdk/src/lambda/worker.ts) that moves the deployment's state,  *)
(* its release pointer or its jobs, over one Postgres database.            *)
(*                                                                         *)
(* A route or a sweep is not atomic: it reads rows, decides, and writes    *)
(* later in a statement or a transaction of its own.  Each invocation is a *)
(* handler that goes through those steps while other handlers run between  *)
(* them; what it read earlier it carries along.  A handler may be cut off  *)
(* at any step (a crashed or timed-out Lambda, a thrown error, a lost      *)
(* connection): the steps done so far stay.                                *)
(*                                                                         *)
(* Time is not modelled: whatever depends on how long something lasted (a  *)
(* stale job, a relay that missed its check-in window, an elapsed          *)
(* verification window) may be either way.                                 *)
(***************************************************************************)
EXTENDS DeploymentJobs

CONSTANTS
    Handlers,         \* concurrent invocations of the API and the worker
    Operations,       \* the routes and sweeps that run
    HasConfig,        \* the deployment has configuration entries to deliver
    OverlappingPolls  \* the relay's invocation lease and the HTTP client let
                      \* two command polls overlap

VARIABLES
    handler,          \* what each handler is doing
    history           \* whether the deployment ever installed, ever started

vars == << dep, jobs, created, ready, handler, history >>

\* Routes that create or settle work, the relay's calls, and the sweeps.
RequestOperations ==
    { "Deploy", "BulkDeploy", "Rollback", "Restart", "ConfigUpdate", "Destroy",
      "ForceComplete", "Purge", "Reset", "PublicRetry", "RetryInstall", "Launch" }
RelayOperations ==
    { "Register", "Claim", "HandBack", "Result", "Progress", "Heartbeat" }
WorkerOperations == { "StuckJobs", "StrandedJobs", "RelayLiveness", "ReleaseReady" }
AllOperations ==
    RequestOperations \cup RelayOperations \cup WorkerOperations \cup { "Crash" }

ASSUME OperationsAssumption == Operations \subseteq AllOperations
ASSUME SwitchesAssumption == HasConfig \in BOOLEAN /\ OverlappingPolls \in BOOLEAN

Steps == { "idle", "check", "decide", "insert", "mark", "commit", "cancel", "enroll",
           "verify", "promote", "repair", "followUps", "config", "deploy", "record" }

\* A heartbeat's release evidence: accepted, refused for a reason that says the
\* application is not healthy, or missing, stale or not started.
Evidence == { "accepted", "failing", "none" }

(***************************************************************************)
(* A handler remembers the operation, its next step, and the values it     *)
(* read or computed that a later step uses.                                *)
(***************************************************************************)
HandlerRows ==
    [ op: AllOperations \cup { "idle" },
      at: Steps,
      state: DepStates \cup { "none" },      \* the deployment's state as read
      current: 0 .. MaxReleases,             \* its current release as read
      job: 0 .. MaxJobs,                     \* the job the operation is about; for
                                             \* a destroy the newest its check saw,
                                             \* which only the properties use
      seen: JobStates \cup { "none" },       \* that job's state as read
      requeues: 0 .. MaxRequeues,            \* its reconcileCount as read
      key: Keys,                             \* the idempotency key to insert
      next: DepStates \cup { "none" },       \* the deployment state to write
      write: JobStates \cup { "none" },      \* the job state to write
      release: 0 .. MaxReleases,             \* the release it is about
      evidence: Evidence,                    \* what a heartbeat proved
      flag: BOOLEAN,                         \* a condition the read decided
      batch: SUBSET JobIds ]                 \* the jobs a poll will claim

Idle == [ op |-> "idle", at |-> "idle", state |-> "none", current |-> 0,
          job |-> 0, seen |-> "none", requeues |-> 0, key |-> NoKey,
          next |-> "none", write |-> "none", release |-> 0, evidence |-> "none",
          flag |-> FALSE, batch |-> {} ]

TypeOK ==
    /\ dep \in DepRows
    /\ jobs \in [ JobIds -> JobRows ]
    /\ created \in 0 .. MaxJobs
    /\ ready \subseteq Releases
    /\ handler \in [ Handlers -> HandlerRows ]
    /\ history \in [ installed: BOOLEAN, started: BOOLEAN ]

Init ==
    /\ dep = [ state |-> "NOT_INSTALLED", relay |-> "UNKNOWN", enrolled |-> FALSE,
               reused |-> FALSE, current |-> 0, cleanup |-> "none" ]
    /\ jobs = [ j \in JobIds |-> NoJob ]
    /\ created = 0
    /\ ready \in SUBSET Releases
    /\ handler = [ h \in Handlers |-> Idle ]
    /\ history = [ installed |-> FALSE, started |-> FALSE ]

-----------------------------------------------------------------------------
(* Handlers. *)

Starts(h, op) == op \in Operations /\ handler[h] = Idle
At(h, step) == handler[h].at = step
Runs(h, ops, step) == handler[h].op \in ops /\ At(h, step)
Continue(h, row) == handler' = [ handler EXCEPT ![h] = row ]
Finish(h) == Continue(h, Idle)
GoTo(h, step) == Continue(h, [ handler[h] EXCEPT !.at = step ])

rows == << dep, jobs, created, ready, history >>

\* A crash, a timeout or an error between two steps.
Crash(h) ==
    /\ "Crash" \in Operations
    /\ handler[h] # Idle
    /\ Finish(h)
    /\ UNCHANGED rows

-----------------------------------------------------------------------------
(* The vendor's day-2 requests: read the rows and pass the gates, insert    *)
(* the job, then mark the deployment's in-flight state.                     *)

RequireDeployableState ==
    /\ dep.state \notin UndeployableStates
    /\ dep.state = "FAILED" => HasSucceededInstall
    /\ dep.enrolled
    /\ dep.relay # "DISCONNECTED"

LoadDay2(h, op, type, of) ==
    LET key == RetryAwareIdempotencyKey(type, of) IN
    /\ Starts(h, op)
    /\ RequireDeployableState
    /\ DeploymentIdle(key)
    /\ Continue(h, [ Idle EXCEPT !.op = op, !.at = "insert", !.key = key,
                       !.next = IF dep.state \in BulkDeployableStates
                                THEN "UPDATING" ELSE "none" ])
    /\ UNCHANGED rows

LoadDeploy(h, r) == r \in ready /\ LoadDay2(h, "Deploy", "DEPLOY_RELEASE", r)
LoadRollback(h, r) == r \in ready /\ LoadDay2(h, "Rollback", "ROLLBACK", r)
LoadRestart(h) == LoadDay2(h, "Restart", "RESTART", 0)

\* deploy-bulk takes live deployments only and never marks them.
LoadBulkDeploy(h, r) ==
    LET key == RetryAwareIdempotencyKey("DEPLOY_RELEASE", r) IN
    /\ Starts(h, "BulkDeploy")
    /\ r \in ready
    /\ dep.state \in BulkDeployableStates
    /\ dep.relay # "DISCONNECTED" /\ dep.enrolled
    /\ DeploymentIdle(key)
    /\ Continue(h, [ Idle EXCEPT !.op = "BulkDeploy", !.at = "insert", !.key = key ])
    /\ UNCHANGED rows

\* The worker's CONFIG_UPDATE fan-out: one key per message, no idle check.
LoadConfigUpdate(h) ==
    /\ Starts(h, "ConfigUpdate")
    /\ dep.state \notin UndeployableStates
    /\ Continue(h, [ Idle EXCEPT !.op = "ConfigUpdate", !.at = "insert",
                       !.key = Key("CONFIG_UPDATE", "message", 0,
                                   Cardinality(JobsOf({ "CONFIG_UPDATE" }))) ])
    /\ UNCHANGED rows

LoadPurge(h) ==
    LET key == RetryAwareIdempotencyKey("PURGE", 0) IN
    /\ Starts(h, "Purge")
    /\ dep.state = "DELETED" /\ dep.cleanup # "COMPLETE"
    /\ DeploymentIdle(key)
    /\ Continue(h, [ Idle EXCEPT !.op = "Purge", !.at = "insert", !.key = key ])
    /\ UNCHANGED rows

\* The insert of any request: a new row, or an existing one / DEPLOYMENT_BUSY,
\* after which nothing is marked.
InsertRequested(h, destructive, zeroStart) ==
    /\ IF CanInsert(handler[h].key)
       THEN /\ InsertJob(handler[h].key, destructive, zeroStart)
            /\ IF handler[h].next = "none" THEN Finish(h) ELSE GoTo(h, "mark")
       ELSE Finish(h) /\ UNCHANGED << jobs, created >>
    /\ UNCHANGED << dep, ready, history >>

InsertRequest(h) ==
    /\ Runs(h, { "Deploy", "BulkDeploy", "Rollback", "Restart", "ConfigUpdate",
                 "Purge" }, "insert")
    /\ InsertRequested(h, FALSE, FALSE)

\* markJobRequested, and retry-install's transaction: the state is written
\* by deployment id alone.
MarkJobRequested(h) ==
    /\ At(h, "mark")
    /\ dep' = [ dep EXCEPT !.state = handler[h].next ]
    /\ Finish(h)
    /\ UNCHANGED << jobs, created, ready, history >>

-----------------------------------------------------------------------------
(* Removal: destroy, force-complete. *)

\* A deployment that was never launched or never connected is removed at once;
\* any other one gets a DESTROY job.
LoadDestroy(h) ==
    /\ Starts(h, "Destroy")
    /\ dep.state # "DELETED"
    /\ Continue(h, [ Idle EXCEPT !.op = "Destroy", !.state = dep.state,
                       !.flag = dep.relay = "DISCONNECTED",
                       !.key = RetryAwareIdempotencyKey("DESTROY", 0),
                       !.next = "DELETING",
                       !.at = IF dep.state \in { "NOT_INSTALLED", "WAITING_FOR_RELAY" }
                              THEN "commit" ELSE "check" ])
    /\ UNCHANGED rows

RemoveNeverInstalled(h) ==
    /\ Runs(h, { "Destroy" }, "commit")
    /\ dep' = [ dep EXCEPT !.state = "DELETED" ]
    /\ Finish(h)
    /\ UNCHANGED << jobs, created, ready, history >>

\* Behind a relay that was read DISCONNECTED the active INSTALL is obsolete.
CancelObsoleteInstalls(h) ==
    /\ Runs(h, { "Destroy" }, "check")
    /\ IF handler[h].flag THEN CancelActiveInstalls ELSE UNCHANGED jobs
    /\ GoTo(h, "cancel")
    /\ UNCHANGED << dep, created, ready, history >>

RequireIdleForDestroy(h) ==
    /\ Runs(h, { "Destroy" }, "cancel")
    /\ IF DeploymentIdle(handler[h].key)
       THEN Continue(h, [ handler[h] EXCEPT !.at = "decide", !.job = created ])
       ELSE Finish(h)
    /\ UNCHANGED rows

\* Wrong variant: decided from the deployment state the route read first.
NeverHealthyWhenRead(h) == handler[h].state \in { "INSTALLING", "FAILED" }

\* Data deletion is authorised only when no INSTALL ever succeeded, as read
\* after the cancellation and the idle check.
DataDeletionAuthorized(h) == ~ HasSucceededInstall

DecideDataDeletion(h) ==
    /\ Runs(h, { "Destroy" }, "decide")
    /\ Continue(h, [ handler[h] EXCEPT !.at = "insert", !.flag = DataDeletionAuthorized(h) ])
    /\ UNCHANGED rows

\* The insert carries the answer read before it.
InsertDestroy(h) ==
    /\ Runs(h, { "Destroy" }, "insert")
    /\ InsertRequested(h, handler[h].flag, FALSE)

\* performForceCompleteDestroy, path 1: the active DESTROY of an offline relay;
\* path 2: repeated FAILED DESTROYs, the last of them the newest job.
FailedDestroysRequired == 2

LoadForceComplete(h) ==
    LET active == ActiveJobsOf({ "DESTROY" })
        failed == { j \in JobsOf({ "DESTROY" }) : jobs[j].state = "FAILED" } IN
    /\ Starts(h, "ForceComplete")
    /\ \E j \in JobsOf({ "DESTROY" }) :
         /\ \/ /\ IsLatest(j, active)
               /\ dep.state = "DELETING"
               /\ dep.relay = "DISCONNECTED"
            \/ /\ active = {}
               /\ dep.state \in { "DELETING", "FAILED" }
               /\ j \in failed /\ IsLatest(j, Jobs)
               /\ Cardinality(failed) >= FailedDestroysRequired
         /\ Continue(h, [ Idle EXCEPT !.op = "ForceComplete", !.at = "commit", !.job = j,
                            !.write = IF active # {} THEN "CANCELLED" ELSE "none" ])
    /\ UNCHANGED rows

\* The job is cancelled by id alone, whatever became of it since.
CommitForceComplete(h) ==
    /\ Runs(h, { "ForceComplete" }, "commit")
    /\ IF handler[h].write = "CANCELLED"
       THEN SetJobState(handler[h].job, "CANCELLED") ELSE UNCHANGED jobs
    /\ dep' = [ dep EXCEPT !.state = "DELETED", !.cleanup = "SKIPPED_RELAY_OFFLINE" ]
    /\ Finish(h)
    /\ UNCHANGED << created, ready, history >>

-----------------------------------------------------------------------------
(* First installs: launch, register, retry, reset. *)

\* Opening the Quick Create link names the attempt's bootstrap stack.
Launch(h) ==
    /\ Starts(h, "Launch")
    /\ dep.state = "NOT_INSTALLED"
    /\ dep' = [ dep EXCEPT !.state = "WAITING_FOR_RELAY", !.reused = FALSE ]
    /\ UNCHANGED << jobs, created, ready, handler, history >>

\* relay/reset has no state gate; a deployment that never installed starts over.
LoadReset(h) ==
    /\ Starts(h, "Reset")
    /\ Continue(h, [ Idle EXCEPT !.op = "Reset", !.at = "commit",
                       !.next = IF HasSucceededInstall THEN "none" ELSE "NOT_INSTALLED" ])
    /\ UNCHANGED rows

LoadPublicRetry(h) ==
    /\ Starts(h, "PublicRetry")
    /\ ~ HasSucceededInstall
    /\ dep.state \in PublicRetryableStates
    /\ Continue(h, [ Idle EXCEPT !.op = "PublicRetry", !.at = "commit",
                       !.next = "NOT_INSTALLED",
                       !.flag = dep.enrolled \/ dep.reused ]) \* retryKeepsConnector
    /\ UNCHANGED rows

\* One transaction: a new code and credential, the binding cleared and, for a
\* fresh attempt, active INSTALLs cancelled and the state back to the start.
CommitFreshCredential(h) ==
    /\ Runs(h, { "Reset", "PublicRetry" }, "commit")
    /\ IF handler[h].next = "none" THEN UNCHANGED jobs ELSE CancelActiveInstalls
    /\ dep' = [ dep EXCEPT !.enrolled = FALSE, !.relay = "UNKNOWN",
                  !.reused = IF handler[h].next = "none" THEN TRUE ELSE handler[h].flag,
                  !.state = IF handler[h].next = "none" THEN @ ELSE "NOT_INSTALLED" ]
    /\ Finish(h)
    /\ UNCHANGED << created, ready, history >>

\* Wrong variant: only the deployment state says whether it ever installed.
FailedBefore == dep.state = "FAILED"

NeverInstalled == ~ HasSucceededInstall

RetryInstallKey ==
    Key("INSTALL", "request", 0, Cardinality(JobsOf({ "INSTALL" })))

\* retry-install: never after a successful INSTALL; an active one only when it
\* has been silent for too long.
LoadRetryInstall(h) ==
    LET active == ActiveJobsOf({ "INSTALL" }) IN
    /\ Starts(h, "RetryInstall")
    /\ NeverInstalled
    /\ dep.state = "FAILED" \/ active # {}
    /\ dep.enrolled /\ dep.relay # "DISCONNECTED"
    /\ \E j \in 0 .. created :
         /\ IF active = {} THEN j = 0 ELSE j \in active
         /\ Continue(h, [ Idle EXCEPT !.op = "RetryInstall", !.job = j,
                            !.at = IF j = 0 THEN "insert" ELSE "cancel",
                            !.key = RetryInstallKey,
                            !.next = "INSTALLING" ])
    /\ UNCHANGED rows

\* The superseded attempt is closed by id alone.
CancelSuperseded(h) ==
    /\ Runs(h, { "RetryInstall" }, "cancel")
    /\ SetJobState(handler[h].job, "CANCELLED")
    /\ GoTo(h, "insert")
    /\ UNCHANGED << dep, created, ready, history >>

\* A first start waits for its configuration when there is any, and a release.
StartAfterConfig == HasConfig /\ ready # {}

InsertRetryInstall(h) ==
    /\ Runs(h, { "RetryInstall" }, "insert")
    /\ InsertRequested(h, TRUE, StartAfterConfig)

\* register: the relay presents the current, unused enrollment code.
LoadRegister(h) ==
    /\ Starts(h, "Register")
    /\ ~ dep.enrolled
    /\ Continue(h, [ Idle EXCEPT !.op = "Register", !.state = dep.state,
                       !.flag = dep.reused,
                       !.key = RetryAwareIdempotencyKey("INSTALL", 0),
                       !.at = IF dep.state \in { "NOT_INSTALLED", "WAITING_FOR_RELAY" }
                              THEN "insert" ELSE "enroll" ])
    /\ UNCHANGED rows

InsertFirstInstall(h) ==
    /\ Runs(h, { "Register" }, "insert")
    /\ \/ /\ CanInsert(handler[h].key)
          /\ InsertJob(handler[h].key, handler[h].flag, StartAfterConfig)
          /\ GoTo(h, "enroll")
       \/ /\ KeyTaken(handler[h].key)
          /\ GoTo(h, "enroll")
          /\ UNCHANGED << jobs, created >>
       \/ /\ ~ KeyTaken(handler[h].key) /\ ~ CanInsert(handler[h].key)
          /\ Finish(h)
          /\ UNCHANGED << jobs, created >>
    /\ UNCHANGED << dep, ready, history >>

\* The enrollment is conditional on the code being unused; the state written
\* follows from the row read first.
Enroll(h) ==
    /\ Runs(h, { "Register" }, "enroll")
    /\ IF dep.enrolled THEN UNCHANGED dep
       ELSE dep' = [ dep EXCEPT !.enrolled = TRUE, !.relay = "CONNECTED",
                      !.state = IF handler[h].state \in { "NOT_INSTALLED", "WAITING_FOR_RELAY" }
                                THEN "INSTALLING" ELSE @ ]
    /\ Finish(h)
    /\ UNCHANGED << jobs, created, ready, history >>

-----------------------------------------------------------------------------
(* The relay's command poll. *)

\* Wrong variant: a CONFIG_UPDATE rides along with the mutation before it.
AnyMutation(running, j) == ~ running

\* No service mutation is claimed while one was read RUNNING, and a
\* CONFIG_UPDATE only as the first mutation of the batch.
MayClaim(running, j) ==
    /\ ~ running
    /\ Type(j) = "CONFIG_UPDATE" =>
         \A i \in ActiveJobsOf(JobTypes) : jobs[i].state # "RUNNING" => j <= i

LoadClaim(h) ==
    LET candidates == ActiveJobsOf(JobTypes)
        running == \E j \in candidates : jobs[j].state = "RUNNING"
        batch == { j \in candidates : jobs[j].state # "RUNNING" /\ MayClaim(running, j) } IN
    /\ Starts(h, "Claim")
    /\ OverlappingPolls \/ \A g \in Handlers : handler[g].op # "Claim"
    /\ dep.enrolled
    /\ batch # {}
    /\ Continue(h, [ Idle EXCEPT !.op = "Claim", !.at = "commit", !.batch = batch ])
    /\ UNCHANGED rows

\* What the claiming UPDATE matches: the chosen rows that still wait.
Claimed(h) == { j \in handler[h].batch : jobs[j].state \in { "REQUESTED", "WAITING" } }

CommitClaim(h) ==
    /\ Runs(h, { "Claim" }, "commit")
    /\ jobs' = [ j \in JobIds |->
                   IF j \in Claimed(h)
                   THEN [ jobs[j] EXCEPT !.state = "RUNNING", !.offered = TRUE ] ELSE jobs[j] ]
    /\ Finish(h)
    /\ UNCHANGED << dep, created, ready, history >>

\* POST /release: the relay hands a claimed command back unexecuted.
HandBack(h, j) ==
    /\ Starts(h, "HandBack")
    /\ dep.enrolled
    /\ Type(j) \notin { "INSTALL", "CONFIG_UPDATE" }
    /\ jobs[j].state = "RUNNING"
    /\ SetJobState(j, "REQUESTED")
    /\ UNCHANGED << dep, created, ready, handler, history >>

-----------------------------------------------------------------------------
(* Settling a job: the result route, the progress ingest and the watchdog   *)
(* decide the deployment's next state from what they read, then write both  *)
(* rows in one transaction, only if the job is still active.                *)

HasCurrentRelease == dep.current # 0 \/ HasStartedInstall

StateAfter(j, outcome) ==
    LET newer == NewerReadyReleaseExists(dep.current) IN
    IF outcome = "FAILED"
    THEN DeploymentStateAfterFailedJob(Type(j), HasCurrentRelease, newer)
    ELSE DeploymentStateAfterSucceededJob(Type(j), newer)

\* Relays repeat a result until it is acknowledged, so any job that was ever
\* handed out may be reported at any time, with either outcome.
LoadResult(h, j, outcome) ==
    /\ Starts(h, "Result")
    /\ dep.enrolled
    /\ jobs[j].offered
    /\ Continue(h, [ Idle EXCEPT !.op = "Result", !.at = "commit", !.job = j,
                       !.state = IF Type(j) = "INSTALL" THEN dep.state ELSE "none",
                       !.seen = jobs[j].state, !.write = outcome,
                       !.next = StateAfter(j, outcome) ])
    /\ UNCHANGED rows

\* A stack event that already says the create failed settles the INSTALL.
LoadProgress(h, j) ==
    /\ Starts(h, "Progress")
    /\ dep.enrolled
    /\ Type(j) = "INSTALL" /\ jobs[j].state \in { "RUNNING", "WAITING" }
    /\ jobs[j].offered
    /\ Continue(h, [ Idle EXCEPT !.op = "Progress", !.at = "commit", !.job = j,
                       !.write = "FAILED", !.next = StateAfter(j, "FAILED") ])
    /\ UNCHANGED rows

\* Wrong variant: the settling update is not conditional on the job's state.
SettlesAlways(j) == TRUE

Settles(j) == Active(j)

SettleJob(j, outcome, next) ==
    /\ SetJobState(j, outcome)
    /\ dep' = [ dep EXCEPT
                  !.state = IF next = "none" THEN @ ELSE next,
                  !.cleanup = IF Type(j) # "PURGE" THEN @
                              ELSE IF outcome = "SUCCEEDED" THEN "COMPLETE"
                              ELSE "PURGE_FAILED" ]
    /\ history' =
         [ installed |-> history.installed \/ (outcome = "SUCCEEDED" /\ Type(j) = "INSTALL"),
           started |-> \/ history.started
                       \/ /\ outcome = "SUCCEEDED"
                          /\ \/ Type(j) \in { "DEPLOY_RELEASE", "ROLLBACK" }
                             \/ Type(j) = "INSTALL" /\ ~ jobs[j].zeroStart ]

\* After an INSTALL's success, or a replay that read it SUCCEEDED, the route
\* goes on with the follow-ups.
CommitResult(h) ==
    LET j == handler[h].job IN
    /\ Runs(h, { "Result", "Progress" }, "commit")
    /\ IF Settles(j)
       THEN SettleJob(j, handler[h].write, handler[h].next)
       ELSE UNCHANGED << dep, jobs, history >>
    /\ IF /\ Type(j) = "INSTALL"
          /\ IF Settles(j) THEN handler[h].write = "SUCCEEDED"
             ELSE handler[h].seen = "SUCCEEDED"
       THEN GoTo(h, "followUps") ELSE Finish(h)
    /\ UNCHANGED << created, ready >>

-----------------------------------------------------------------------------
(* ensureInstallFollowUps, run by the result route and by heartbeats: the   *)
(* first configuration pass, then the deploy of a READY release, both keyed *)
(* on the install job, then the record that ends the repair.                *)

FollowUpKey(type, j) == Key(type, "install", j, 0)

LaterOperation(j) ==
    \E i \in JobsOf({ "DEPLOY_RELEASE", "ROLLBACK", "DESTROY" }) :
        i > j /\ jobs[i].key # FollowUpKey("DEPLOY_RELEASE", j)

CheckFollowUps(h) ==
    /\ At(h, "followUps")
    /\ IF handler[h].state \in { "DELETING", "DELETED" } THEN Finish(h)
       ELSE GoTo(h, IF LaterOperation(handler[h].job) THEN "record" ELSE "config")
    /\ UNCHANGED rows

\* Wrong variant: the deploy is queued first.
DeployFirst == << "DEPLOY_RELEASE", "CONFIG_UPDATE" >>

FollowUpOrder == << "CONFIG_UPDATE", "DEPLOY_RELEASE" >>

\* One follow-up: nothing to queue (no entries; no deployable release), queued
\* or already there, or refused by the index, which ends the attempt.
QueueFollowUp(h, type, possible, then) ==
    LET key == FollowUpKey(type, handler[h].job) IN
    /\ \/ /\ possible /\ CanInsert(key)
          /\ InsertJob(key, FALSE, FALSE)
          /\ GoTo(h, then)
       \/ /\ possible => KeyTaken(key)
          /\ GoTo(h, then)
          /\ UNCHANGED << jobs, created >>
       \/ /\ possible /\ ~ KeyTaken(key) /\ ~ CanInsert(key)
          /\ Finish(h)
          /\ UNCHANGED << jobs, created >>
    /\ UNCHANGED << dep, ready, history >>

\* Whether there is something to queue; a READY release may still turn out not
\* to be deployable (its image is gone, the topology changed).
PossibleFollowUp(type) ==
    IF type = "CONFIG_UPDATE" THEN { HasConfig } ELSE { FALSE, ready # {} }

QueueFirstFollowUp(h) ==
    /\ At(h, "config")
    /\ \E possible \in PossibleFollowUp(FollowUpOrder[1]) :
         QueueFollowUp(h, FollowUpOrder[1], possible, "deploy")

QueueSecondFollowUp(h) ==
    /\ At(h, "deploy")
    /\ \E possible \in PossibleFollowUp(FollowUpOrder[2]) :
         QueueFollowUp(h, FollowUpOrder[2], possible, "record")

RecordFollowUps(h) ==
    /\ At(h, "record")
    /\ jobs' = [ jobs EXCEPT ![handler[h].job].followUps = TRUE ]
    /\ Finish(h)
    /\ UNCHANGED << dep, created, ready, history >>

-----------------------------------------------------------------------------
(* The heartbeat: write what was decided from the row read first, then, each *)
(* in a transaction of its own, give up an unverified install, reconcile the *)
(* release pointer, and repair missing follow-ups.                           *)

LatestJobIsDestroy == \E j \in JobsOf({ "DESTROY" }) : IsLatest(j, Jobs)

\* Wrong variant: proof of a running release recovers a teardown as well.
RecoveredWhenServing(evidence) ==
    /\ evidence = "accepted"
    /\ dep.state \in { "FAILED", "DELETING" } /\ dep.current # 0

StateRecovered(evidence) ==
    /\ evidence = "accepted"
    /\ dep.state = "FAILED" /\ dep.current # 0
    /\ ~ LatestJobIsDestroy

\* Wrong variant: a healthy heartbeat is enough, whatever the INSTALL says.
VerifiedByHealthAlone(evidence) == dep.state = "INSTALLING" /\ evidence = "accepted"

InstallVerifiedHealthy(evidence) ==
    /\ dep.state = "INSTALLING"
    /\ evidence = "accepted"
    /\ HasSucceededInstall

\* The evidence names the digest of a READY release, the current one, or none.
LoadHeartbeat(h, evidence, release) ==
    /\ Starts(h, "Heartbeat")
    /\ dep.enrolled
    /\ release # 0 => evidence = "accepted" /\ release \in ready \cup { dep.current }
    /\ Continue(h, [ Idle EXCEPT !.op = "Heartbeat", !.at = "commit",
                       !.state = dep.state, !.current = dep.current,
                       !.evidence = evidence, !.release = release,
                       !.next = IF StateRecovered(evidence) \/ InstallVerifiedHealthy(evidence)
                                THEN "HEALTHY" ELSE "none" ])
    /\ UNCHANGED rows

WriteHeartbeat(h) ==
    /\ Runs(h, { "Heartbeat" }, "commit")
    /\ dep' = [ dep EXCEPT !.relay = "CONNECTED",
                  !.state = IF handler[h].next = "none" THEN @ ELSE handler[h].next ]
    /\ GoTo(h, IF handler[h].state = "INSTALLING" /\ handler[h].evidence = "failing"
               THEN "verify"
               ELSE IF handler[h].release \notin { 0, handler[h].current }
               THEN "promote" ELSE "repair")
    /\ UNCHANGED << jobs, created, ready, history >>

\* unverifiedInstall: the newest mutating job is a settled install, deploy or
\* config update that succeeded, and nothing is active.
Unverified ==
    /\ ActiveJobsOf(PointerTypes) = {}
    /\ HasSucceededInstall
    /\ \E j \in JobsOf({ "INSTALL", "DEPLOY_RELEASE", "CONFIG_UPDATE" }) :
         IsLatest(j, JobsOf(PointerTypes)) /\ jobs[j].state = "SUCCEEDED"

\* The row is locked and read again; the window may or may not have elapsed.
FailUnverifiedInstall(h) ==
    /\ Runs(h, { "Heartbeat" }, "verify")
    /\ \/ /\ dep.state = "INSTALLING" /\ Unverified
          /\ dep' = [ dep EXCEPT !.state = "FAILED" ]
       \/ UNCHANGED dep
    /\ GoTo(h, "repair")
    /\ UNCHANGED << jobs, created, ready, history >>

MayPromote(h) ==
    /\ dep.current = handler[h].current
    /\ ActiveJobsOf(PointerTypes) = {}

\* Wrong variant: the promotion leaves an update it resolved announced.
StateKept(release) == dep.state

StateAfterPromotion(release) ==
    IF dep.state = "UPDATE_AVAILABLE" /\ ~ NewerReadyReleaseExists(release)
    THEN "HEALTHY" ELSE dep.state

ReconcileRunningDigest(h) ==
    LET release == handler[h].release IN
    /\ Runs(h, { "Heartbeat" }, "promote")
    /\ IF MayPromote(h)
       THEN /\ dep' = [ dep EXCEPT !.current = release,
                                  !.state = StateAfterPromotion(release) ]
            /\ history' = [ history EXCEPT !.started = TRUE ]
       ELSE UNCHANGED << dep, history >>
    /\ GoTo(h, "repair")
    /\ UNCHANGED << jobs, created, ready >>

RepairFollowUps(h) ==
    /\ Runs(h, { "Heartbeat" }, "repair")
    /\ IF \E j \in JobsOf({ "INSTALL" }) :
             /\ IsLatest(j, JobsOf({ "INSTALL" }))
             /\ jobs[j].state = "SUCCEEDED" /\ ~ jobs[j].followUps
       THEN \E j \in JobsOf({ "INSTALL" }) :
              /\ IsLatest(j, JobsOf({ "INSTALL" }))
              /\ Continue(h, [ handler[h] EXCEPT !.at = "followUps", !.job = j ])
       ELSE Finish(h)
    /\ UNCHANGED rows

-----------------------------------------------------------------------------
(* The worker: stuck jobs, relay liveness, a release that becomes READY.    *)

\* With a CONNECTED relay an in-flight job is offered again a bounded number
\* of times and then failed; without one it is parked and, after the grace
\* period, failed.  DESTROY is never failed here.
\* Wrong variant: re-offers are not counted against the bound.
MayRequeueForever(j) == jobs[j].state \in { "RUNNING", "WAITING" }

MayRequeue(j) ==
    jobs[j].state \in { "RUNNING", "WAITING" } /\ jobs[j].requeues < MaxRequeues

Verdict(j) ==
    IF dep.relay = "CONNECTED"
    THEN IF MayRequeue(j) THEN "REQUESTED"
         ELSE IF Type(j) \in TimedTypes THEN "FAILED" ELSE "none"
    ELSE IF Type(j) \notin TimedTypes THEN "none"
         ELSE IF jobs[j].state # "WAITING" THEN "WAITING" ELSE "FAILED"

\* sweepStuckJobs: "StuckJobs" behind a CONNECTED relay, "StrandedJobs" behind
\* any other.
Watchdog == { "StuckJobs", "StrandedJobs" }

LoadStuckJob(h, j) ==
    LET op == IF dep.relay = "CONNECTED" THEN "StuckJobs" ELSE "StrandedJobs" IN
    /\ Starts(h, op)
    /\ Active(j)
    /\ Verdict(j) # "none"
    /\ Continue(h, [ Idle EXCEPT !.op = op, !.at = "commit", !.job = j,
                       !.requeues = jobs[j].requeues, !.write = Verdict(j),
                       !.next = IF Verdict(j) = "FAILED" THEN StateAfter(j, "FAILED")
                                ELSE "none" ])
    /\ UNCHANGED rows

RequeueStuckJob(h) ==
    LET j == handler[h].job IN
    /\ Runs(h, Watchdog, "commit") /\ handler[h].write = "REQUESTED"
    /\ IF Settles(j)
       THEN jobs' = [ jobs EXCEPT ![j].state = "REQUESTED",
                                  ![j].requeues = handler[h].requeues + 1 ]
       ELSE UNCHANGED jobs
    /\ Finish(h)
    /\ UNCHANGED << dep, created, ready, history >>

\* Parking is by id alone: only the unique index can refuse it.
ParkStuckJob(h) ==
    LET j == handler[h].job IN
    /\ Runs(h, Watchdog, "commit") /\ handler[h].write = "WAITING"
    /\ IF MayActivate(j) THEN SetJobState(j, "WAITING") ELSE UNCHANGED jobs
    /\ Finish(h)
    /\ UNCHANGED << dep, created, ready, history >>

FailStuckJob(h) ==
    LET j == handler[h].job IN
    /\ Runs(h, Watchdog, "commit") /\ handler[h].write = "FAILED"
    /\ IF Settles(j) THEN SettleJob(j, "FAILED", handler[h].next)
       ELSE UNCHANGED << dep, jobs, history >>
    /\ Finish(h)
    /\ UNCHANGED << created, ready >>

SweepRelayLiveness(h) ==
    /\ Starts(h, "RelayLiveness")
    /\ dep.relay = "CONNECTED"
    /\ dep' = [ dep EXCEPT !.relay = "DISCONNECTED" ]
    /\ UNCHANGED << jobs, created, ready, handler, history >>

\* recordBuildResult: inside one transaction the HEALTHY deployments are read
\* and then flipped where still HEALTHY; the release is visible at the commit.
LoadReleaseReady(h, r) ==
    /\ Starts(h, "ReleaseReady")
    /\ r \notin ready
    /\ Continue(h, [ Idle EXCEPT !.op = "ReleaseReady", !.at = "commit", !.release = r,
                       !.flag = /\ dep.state = "HEALTHY"
                                /\ r > dep.current \/ NewerReadyReleaseExists(dep.current) ])
    /\ UNCHANGED rows

CommitReleaseReady(h) ==
    /\ Runs(h, { "ReleaseReady" }, "commit")
    /\ ready' = ready \cup { handler[h].release }
    /\ dep' = IF handler[h].flag /\ dep.state = "HEALTHY"
              THEN [ dep EXCEPT !.state = "UPDATE_AVAILABLE" ] ELSE dep
    /\ Finish(h)
    /\ UNCHANGED << jobs, created, history >>

-----------------------------------------------------------------------------
Load(h) ==
    \/ \E r \in Releases : LoadDeploy(h, r) \/ LoadRollback(h, r) \/ LoadBulkDeploy(h, r)
    \/ LoadRestart(h) \/ LoadConfigUpdate(h) \/ LoadPurge(h)
    \/ LoadDestroy(h) \/ LoadForceComplete(h)
    \/ LoadReset(h) \/ LoadPublicRetry(h) \/ LoadRetryInstall(h) \/ LoadRegister(h)
    \/ LoadClaim(h)
    \/ \E j \in Jobs : LoadProgress(h, j) \/ LoadStuckJob(h, j)
    \/ \E j \in Jobs, outcome \in { "SUCCEEDED", "FAILED" } : LoadResult(h, j, outcome)
    \/ \E evidence \in Evidence, release \in { 0 } \cup Releases :
          LoadHeartbeat(h, evidence, release)
    \/ \E r \in Releases : LoadReleaseReady(h, r)

Advance(h) ==
    \/ InsertRequest(h) \/ MarkJobRequested(h)
    \/ RemoveNeverInstalled(h) \/ CancelObsoleteInstalls(h) \/ RequireIdleForDestroy(h)
    \/ DecideDataDeletion(h) \/ InsertDestroy(h) \/ CommitForceComplete(h)
    \/ CommitFreshCredential(h) \/ CancelSuperseded(h) \/ InsertRetryInstall(h)
    \/ InsertFirstInstall(h) \/ Enroll(h)
    \/ CommitClaim(h) \/ CommitResult(h)
    \/ CheckFollowUps(h) \/ QueueFirstFollowUp(h) \/ QueueSecondFollowUp(h)
    \/ RecordFollowUps(h)
    \/ WriteHeartbeat(h) \/ FailUnverifiedInstall(h) \/ ReconcileRunningDigest(h)
    \/ RepairFollowUps(h)
    \/ RequeueStuckJob(h) \/ ParkStuckJob(h) \/ FailStuckJob(h)
    \/ CommitReleaseReady(h)

\* What one statement does on its own.
AtOnce(h) ==
    \/ Launch(h)
    \/ \E j \in Jobs : HandBack(h, j)
    \/ SweepRelayLiveness(h)

Next == \E h \in Handlers : Load(h) \/ Advance(h) \/ AtOnce(h) \/ Crash(h)

Spec == Init /\ [][Next]_vars

-----------------------------------------------------------------------------
(* Properties that hold whatever handlers interleave, the unguarded writers  *)
(* named in the README aside.                                                *)

\* One mutating job is active at a time, although routes check first and insert
\* later and the watchdog re-offers, parks and revives jobs (the partial unique
\* index behind createOrReuseJob).
OneActiveMutation ==
    \A i, j \in ActiveJobsOf(IndexedTypes) : i = j

\* What makes OneActiveMutation inductive.  Rows are inserted in order, and what
\* a handler carries to a later step fits the rows it will meet there: the jobs
\* it names exist, a marking step has a state to write, a re-offer is one the
\* bound still allows, and no result settles a job into an active state.
RowsInOrder == \A j \in JobIds : j > created => jobs[j] = NoJob

HandlerConsistent(row) ==
    /\ row.op \in Operations \cup { "idle" }
    /\ row.job <= created
    /\ row.batch \subseteq Jobs
    /\ row.at = "mark" => row.next # "none"
    /\ row.write = "REQUESTED" => row.requeues < MaxRequeues
    /\ row.op = "StuckJobs" => row.write # "WAITING"
    /\ row.op = "ReleaseReady" => row.release # 0
    /\ row.op \in { "Result", "Progress" } => row.write \in { "SUCCEEDED", "FAILED" }

Coherent ==
    /\ TypeOK
    /\ RowsInOrder
    /\ \A h \in Handlers : HandlerConsistent(handler[h])
    /\ OneActiveMutation

\* A settled job keeps its outcome: a late or repeated result, a watchdog
\* verdict decided before the job settled, or a cancellation that lost the race
\* changes nothing (the conditional updates of the result, progress and
\* watchdog transactions).
SettledJobKept ==
    [][ \A j \in JobIds : Settled(j) => jobs'[j].state = jobs[j].state ]_vars

\* What the destroy route's comment promises: an active DESTROY that may delete
\* data belongs to a deployment none of whose INSTALLs ever succeeded.  It holds
\* one handler at a time; the README says what breaks it otherwise.
DataDeletionOnlyIfNeverInstalled ==
    \A j \in ActiveJobsOf({ "DESTROY" }) : jobs[j].destructive => ~ history.installed

\* What the route's order of cancelling, checking and reading guarantees in any
\* interleaving: when a DESTROY that may delete data is inserted, no INSTALL has
\* succeeded but one requested after the destroy found the deployment idle.
DataDeletionSparesInstalls ==
    [][ \A h \in Handlers :
          /\ Runs(h, { "Destroy" }, "insert") /\ handler'[h] # handler[h]
          /\ created' # created /\ jobs'[created'].destructive
          /\ history.installed
          => /\ HasSucceededInstall
             /\ \A j \in JobsOf({ "INSTALL" }) :
                   jobs[j].state = "SUCCEEDED" => j > handler[h].job ]_vars

\* An active INSTALL with the authority to delete a failed stack belongs to a
\* deployment none of whose INSTALLs ever succeeded (retry-install's refusal and
\* register's recovery flag).
RecoveryOnlyIfNeverInstalled ==
    \A j \in ActiveJobsOf({ "INSTALL" }) : jobs[j].destructive => ~ history.installed

HandedOut(j) == jobs[j].state # "RUNNING" /\ jobs'[j].state = "RUNNING"

\* A poll hands out a service mutation only while none is RUNNING, and a
\* CONFIG_UPDATE only ahead of the other mutations of its batch, although jobs
\* are inserted, parked and re-offered between the poll's read and its claim.
MutationsHandedOutAlone ==
    [][ \A j \in JobIds : HandedOut(j) =>
          /\ \A i \in JobIds : jobs[i].state # "RUNNING"
          /\ Type(j) = "CONFIG_UPDATE" => \A i \in JobIds : i < j => ~ HandedOut(i) ]_vars

\* A failed day-2 job makes the deployment FAILED exactly when nothing was ever
\* running in it: not after a started install, a deploy or a promotion, and
\* always for the failed first start of a zero-task install.
FailedUpdateKeepsLive ==
    [][ \A j \in JobIds :
          Type(j) \in Day2Types /\ Active(j) /\ jobs'[j].state = "FAILED"
          => (dep'.state = "FAILED" <=> ~ history.started) ]_vars

\* The auto-deploy that first starts a zero-task install is never queued ahead of
\* the configuration pass it depends on, although the result route, replayed
\* results and heartbeats queue both and may be cut off between the two.
ConfigBeforeAutoDeploy ==
    HasConfig =>
        \A j \in JobsOf({ "DEPLOY_RELEASE" }) : jobs[j].key.by = "install" =>
            \E i \in JobsOf({ "CONFIG_UPDATE" }) :
                i < j /\ jobs[i].key = FollowUpKey("CONFIG_UPDATE", jobs[j].key.of)

\* A deployment verified out of INSTALLING had an INSTALL that succeeded: a
\* healthy-looking heartbeat racing ahead of the INSTALL's result proves nothing.
VerifiedOnlyAfterInstall ==
    [][ dep.state = "INSTALLING" /\ dep'.state = "HEALTHY" => history.installed ]_vars

-----------------------------------------------------------------------------
(* Properties of the lifecycle table of docs/deployment-resilience.md, which  *)
(* hold while the handlers run one after the other.                           *)

\* Between requests, an in-flight state is backed by the job it announces, whatever
\* the watchdog parked, re-offered or failed; INSTALLING also by an INSTALL that
\* succeeded and awaits its verification.  So something will end it.
InFlightStateHasItsJob ==
    (\A h \in Handlers : handler[h] = Idle) =>
        /\ dep.state = "UPDATING" => ActiveJobsOf(Day2Types) # {}
        /\ dep.state = "DELETING" => ActiveJobsOf({ "DESTROY" }) # {}
        /\ dep.state = "INSTALLING" =>
              \E j \in JobsOf({ "INSTALL" }) : Active(j) \/ jobs[j].state = "SUCCEEDED"

\* DELETED is terminal: no leftover job, result, purge or sweep revives it.
DeletedIsTerminal == [][ dep.state = "DELETED" => dep'.state = "DELETED" ]_vars

\* A teardown ends in DELETED or FAILED and in nothing else.
DeletingEndsTheDeployment ==
    [][ dep.state = "DELETING" => dep'.state \in { "DELETING", "DELETED", "FAILED" } ]_vars

\* An update is announced only while a newer READY release exists, across
\* settlements that read the pointer before it is promoted and promotions that
\* resolve what they wrote.
UpdateAvailableIsTrue ==
    dep.state = "UPDATE_AVAILABLE" => NewerReadyReleaseExists(dep.current)

\* A day-2 job that succeeds leaves the deployment HEALTHY only when no newer
\* READY release waits to be rolled out.
HealthyIsUpToDate ==
    [][ \A j \in JobIds :
          Type(j) \in Day2Types /\ Active(j) /\ jobs'[j].state = "SUCCEEDED"
          => ~ (dep'.state = "HEALTHY" /\ NewerReadyReleaseExists(dep.current)) ]_vars

\* A failed first install stays FAILED until it is retried or removed.
FailedFirstInstallStays ==
    [][ dep.state = "FAILED" /\ ~ history.installed
        => dep'.state \notin { "HEALTHY", "UPDATE_AVAILABLE", "UPDATING" } ]_vars

\* A repeated request gets the job of its newest attempt while that is active.
ReplayAbsorbed ==
    \A j \in Jobs : LET same == Attempts(Type(j), jobs[j].key.of) IN
        IsLatest(j, same) /\ Active(j)
        => RetryAwareIdempotencyKey(Type(j), jobs[j].key.of) = jobs[j].key

-----------------------------------------------------------------------------
(* What makes the properties above inductive.  Some hold only while certain    *)
(* operations do not run; the README says what those do.                       *)

\* No statement changes or revives a settled INSTALL, deploy or restart.
SettlesForGood == Operations \cap { "RetryInstall", "StrandedJobs" } = {}

\* No job is revived, and a release becomes READY or a heartbeat moves the release
\* pointer, not both.
PointerOrReleases ==
    "StrandedJobs" \notin Operations /\ ~ { "ReleaseReady", "Heartbeat" } \subseteq Operations

\* The first INSTALL is the only one, and nothing cancels it.
InstallsOnce ==
    Operations \cap { "RetryInstall", "StrandedJobs", "Reset", "PublicRetry", "Destroy" } = {}

Names(row, types) == row.job # 0 /\ Type(row.job) \in types
Settlers == { "Result", "Progress" } \cup Watchdog
Day2Requests == { "Deploy", "BulkDeploy", "Rollback", "Restart" }

\* What a handler carries fits the job it names.
CarriesItsJob(row) ==
    /\ row.key.by # "install"
    /\ row.op \in Settlers => row.job # 0
    /\ row.op = "ForceComplete" => Names(row, { "DESTROY" })
    /\ row.op = "Progress" => Names(row, { "INSTALL" })
    /\ row.op = "Heartbeat" => row.write = "none" /\ row.next \in { "HEALTHY", "none" }
    /\ row.op \in { "Register", "RetryInstall" } => row.key.type = "INSTALL"
    /\ row.op = "Destroy" => row.key.type = "DESTROY" /\ row.write = "none"
    /\ row.next = "INSTALLING" => row.op = "RetryInstall"
    /\ row.key.type \in Day2Types => row.op \in Day2Requests
    /\ row.next = "UPDATE_AVAILABLE" => row.op \in Settlers /\ Names(row, Day2Types)
    /\ row.next = "HEALTHY" /\ row.op # "Heartbeat" =>
          row.op \in Settlers /\ Names(row, Day2Types)
    /\ row.write = "FAILED" /\ Names(row, { "INSTALL" }) => row.next = "FAILED"
    /\ row.write = "FAILED" /\ Names(row, Day2Types) => row.next # "none"
    /\ row.at = "mark" => row.op \in RequestOperations
    /\ row.at = "promote" => row.release # 0
    /\ row.at \in { "followUps", "config", "deploy" } =>
          row.op \in { "Result", "Progress", "Heartbeat" }
    /\ \A c, j \in row.batch : Type(c) = "CONFIG_UPDATE" => c <= j

\* The configuration pass is queued when the auto-deploy is about to be.
FollowUpsInOrder ==
    /\ ConfigBeforeAutoDeploy
    /\ \A h \in Handlers :
          handler[h].at = "deploy" /\ HasConfig =>
              KeyTaken(FollowUpKey("CONFIG_UPDATE", handler[h].job))

\* The relay's poll is alone: nothing is RUNNING between its read and its claim.
PollsAlone ==
    /\ \A g, h \in Handlers : handler[g].op = "Claim" /\ handler[h].op = "Claim" => g = h
    /\ \A h \in Handlers : handler[h].op = "Claim" =>
          \A j \in JobIds : jobs[j].state # "RUNNING"

\* What ever succeeded is what the rows say.
OutcomesOnRecord ==
    /\ HasSucceededInstall => history.installed
    /\ HasCurrentRelease => history.started
    /\ SettlesForGood => /\ history.installed => HasSucceededInstall
                         /\ history.started => HasCurrentRelease

\* A failure that was decided before the job settled is still the right one.
VerdictsStand ==
    \A h \in Handlers :
        /\ handler[h].write = "FAILED" /\ Names(handler[h], Day2Types)
        /\ Active(handler[h].job)
        => (handler[h].next = "FAILED" <=> ~ history.started)

\* The INSTALLs there were when a destroy found the deployment idle have settled,
\* and none of them with success when it may delete data.
RemovalsStand ==
    \A h \in Handlers : \A j \in JobsOf({ "INSTALL" }) :
        handler[h].op = "Destroy" /\ handler[h].at \in { "decide", "insert" } /\ j <= handler[h].job
        => /\ ~ Active(j)
           /\ At(h, "insert") /\ handler[h].flag => jobs[j].state # "SUCCEEDED"

\* An update that is about to be announced exists.
AnnouncementsStand ==
    \A h \in Handlers :
        /\ handler[h].next = "UPDATE_AVAILABLE" /\ Active(handler[h].job)
              => NewerReadyReleaseExists(dep.current)
        /\ handler[h].op = "ReleaseReady" /\ handler[h].flag
              => handler[h].release > dep.current \/ NewerReadyReleaseExists(dep.current)

\* INSTALLING comes with the enrollment and lasts until the INSTALL settled.
InstallFirst ==
    /\ ~ dep.enrolled => /\ \A j \in JobsOf({ "INSTALL" }) : Active(j)
                         /\ JobsOf(Day2Types) = {}
                         /\ dep.relay # "CONNECTED"
    /\ dep.state = "INSTALLING" =>
          /\ dep.enrolled
          /\ history.installed \/ ActiveJobsOf({ "INSTALL" }) # {}
          /\ JobsOf(Day2Types) # {} => history.installed
    /\ \A h \in Handlers :
          /\ handler[h].op \in { "Heartbeat", "Result", "Progress", "StuckJobs" }
                                \cup Day2Requests => dep.enrolled
          /\ handler[h].op = "Register" /\ handler[h].at = "enroll"
             /\ handler[h].state \in { "NOT_INSTALLED", "WAITING_FOR_RELAY" }
                => JobsOf({ "INSTALL" }) # {}
          /\ handler[h].op = "Heartbeat" /\ handler[h].next = "HEALTHY"
             /\ dep.state = "INSTALLING" => history.installed

Consistent ==
    /\ Coherent
    /\ \A h \in Handlers : CarriesItsJob(handler[h])
    /\ FollowUpsInOrder
    /\ OutcomesOnRecord
    /\ ~ OverlappingPolls => PollsAlone
    /\ SettlesForGood => VerdictsStand /\ RemovalsStand
    /\ PointerOrReleases => AnnouncementsStand /\ UpdateAvailableIsTrue
    /\ InstallsOnce => InstallFirst

-----------------------------------------------------------------------------
(* The same for the lifecycle table.                                           *)

\* Handlers run one after the other and to their end, no credential is replaced
\* after a successful INSTALL, and no configuration message is fanned out.
OneByOne ==
    /\ \A g, h \in Handlers : g = h
    /\ Operations \cap { "Crash", "Reset", "ConfigUpdate" } = {}

Unstarted == { "NOT_INSTALLED", "WAITING_FOR_RELAY" }
Serving == { "HEALTHY", "UPDATE_AVAILABLE", "UPDATING" }
Ending == { "DELETING", "DELETED" }

\* A deployment whose state lets day-2 work be queued.
Operable ==
    \/ dep.state \in Serving
    \/ dep.state \in { "INSTALLING", "FAILED" } /\ HasSucceededInstall

Busy(types) == ActiveJobsOf(types) # {}
Doing(op, step) == \E h \in Handlers : Runs(h, { op }, step)

\* The first attempt at a removal or an INSTALL has number 0, the next one 1, ...
NumbersInOrder ==
    \A j \in JobsOf({ "INSTALL", "DESTROY" }) :
        /\ Active(j) \/ Settled(j)
        /\ jobs[j].key.by = "request" /\ jobs[j].key.of = 0
        /\ jobs[j].key.n < Cardinality(JobsOf({ Type(j) }))

NextNumber(key) == key.n = Cardinality(JobsOf({ key.type }))

\* A mutation is settled before the next one is inserted.
MutationsInTurn == \A i, j \in JobsOf(IndexedTypes) : i < j => ~ Active(i)

\* What the deployment row says of its installs is what the job rows say.
InstallsOnRecord ==
    /\ history.installed => HasSucceededInstall
    /\ dep.enrolled => dep.state \notin Unstarted
    /\ ~ dep.enrolled =>
          ~ HasSucceededInstall /\ dep.state \in Unstarted \cup { "DELETED" }
    /\ JobsOf({ "CONFIG_UPDATE" }) # {} => HasSucceededInstall

\* An active mutation is one that the deployment's state allows.
JobsFitState ==
    /\ Busy({ "INSTALL" }) =>
          /\ ~ HasSucceededInstall
          /\ \/ dep.state = "INSTALLING"
             \/ dep.state \in Unstarted /\ Doing("Register", "enroll")
             \/ Doing("RetryInstall", "mark")
    /\ Busy(Day2Types) => Operable
    /\ Busy({ "DESTROY" }) => dep.state = "DELETING" \/ Doing("Destroy", "mark")
    /\ Busy({ "PURGE" }) => dep.state = "DELETED"

\* And an in-flight state has its job, but for a request that is replacing it.
StateHasItsJob ==
    /\ dep.state = "UPDATING" => Busy(Day2Types)
    /\ dep.state = "DELETING" => Busy({ "DESTROY" })
    /\ dep.state = "INSTALLING" =>
          \/ Busy({ "INSTALL" }) \/ HasSucceededInstall
          \/ Doing("Destroy", "cancel") \/ Doing("Destroy", "decide")
          \/ Doing("Destroy", "insert") \/ Doing("Destroy", "mark")
          \/ Doing("RetryInstall", "insert")

\* What a request has read, or made sure of, is still so at its next step.
RequestStands(row) ==
    /\ row.op \in Day2Requests =>
          /\ row.key.type \in Day2Types /\ row.next \in { "none", "UPDATING" }
          /\ row.at = "insert" => Operable
          /\ row.next = "UPDATING" => dep.state \in BulkDeployableStates
          /\ row.at = "mark" => Busy(Day2Types)
    /\ row.op = "Purge" =>
          row.key.type = "PURGE" /\ row.next = "none" /\ dep.state = "DELETED"
    /\ row.op = "Destroy" =>
          /\ row.key.type = "DESTROY" /\ row.key.by = "request" /\ row.key.of = 0
          /\ row.key.n <= Cardinality(JobsOf({ "DESTROY" }))
          /\ row.next = "DELETING"
          /\ dep.state # "DELETED"
          /\ row.at = "commit" <=> dep.state \in Unstarted
          /\ row.at = "insert" /\ row.flag => ~ HasSucceededInstall
          /\ row.at # "mark" /\ ~ Busy({ "DESTROY" }) => NextNumber(row.key)
          /\ row.at = "mark" => Busy({ "DESTROY" })
    /\ row.op = "ForceComplete" =>
          IF row.write = "CANCELLED" THEN Active(row.job)
          ELSE ~ Busy(IndexedTypes)
    /\ row.op = "PublicRetry" =>
          /\ row.next = "NOT_INSTALLED"
          /\ ~ HasSucceededInstall /\ dep.state \in PublicRetryableStates
    /\ row.op = "RetryInstall" =>
          /\ row.key.by = "request" /\ row.key.of = 0 /\ row.next = "INSTALLING"
          /\ ~ HasSucceededInstall /\ dep.state \in { "FAILED", "INSTALLING" }
          /\ row.at # "mark" => NextNumber(row.key)
          /\ row.at = "cancel" => Names(row, { "INSTALL" }) /\ Active(row.job)
          /\ row.at = "insert" => ~ Busy(IndexedTypes)
          /\ row.at = "mark" => Busy({ "INSTALL" })
    /\ row.at = "mark" => row.op \in Day2Requests \cup { "Destroy", "RetryInstall" }

\* So is what the relay's calls and the sweeps have read.
ReportStands(row) ==
    /\ row.op = "Register" =>
          /\ row.key.by = "request" /\ row.key.of = 0
          /\ ~ dep.enrolled /\ row.state = dep.state
          /\ row.at = "insert" =>
                NextNumber(row.key) /\ dep.state \in Unstarted /\ ~ Busy(IndexedTypes)
          /\ row.at = "enroll" /\ dep.state \in Unstarted => Busy({ "INSTALL" })
    /\ row.op \in { "Result", "Progress" } /\ row.at = "commit" =>
          /\ row.op = "Result" => row.seen = jobs[row.job].state
          /\ row.op = "Result" /\ Type(row.job) = "INSTALL" => row.state = dep.state
          /\ row.op = "Progress" => row.seen = "none" /\ row.write = "FAILED"
    /\ row.op \in Watchdog => Active(row.job) /\ row.write # "SUCCEEDED"
    /\ row.op \in Settlers /\ row.write \in { "SUCCEEDED", "FAILED" } =>
          /\ Names(row, { "CONFIG_UPDATE", "PURGE" }) => row.next = "none"
          /\ Names(row, { "INSTALL" }) =>
                row.next = IF row.write = "FAILED" THEN "FAILED" ELSE "none"
          /\ Names(row, { "DESTROY" }) =>
                row.next = IF row.write = "FAILED" THEN "FAILED" ELSE "DELETED"
          /\ Names(row, Day2Types) => row.next \in { "FAILED", "HEALTHY", "UPDATE_AVAILABLE" }
    /\ row.op = "Heartbeat" /\ row.at = "commit" =>
          /\ row.state = dep.state
          /\ row.next = "HEALTHY" =>
                dep.state = "FAILED" \/ (dep.state = "INSTALLING" /\ HasSucceededInstall)
    /\ row.op = "Heartbeat" /\ row.at \in { "verify", "promote", "repair" }
       /\ dep.state \in Ending => row.state \in Ending
    /\ row.at = "followUps" => HasSucceededInstall /\ (dep.state \in Ending => row.state \in Ending)
    /\ row.at \in { "config", "deploy" } => HasSucceededInstall /\ dep.state \notin Ending

TableHolds ==
    /\ NumbersInOrder /\ MutationsInTurn /\ InstallsOnRecord
    /\ JobsFitState /\ StateHasItsJob
    /\ \A h \in Handlers : RequestStands(handler[h]) /\ ReportStands(handler[h])
    /\ AnnouncementsStand /\ UpdateAvailableIsTrue

\* The inductive invariant of the lifecycle table.
InTurn == Consistent /\ TableHolds

=============================================================================
