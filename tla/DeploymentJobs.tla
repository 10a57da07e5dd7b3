--------------------------- MODULE DeploymentJobs ---------------------------
(***************************************************************************)
(* The rows the control plane keeps about one deployment, and the queries  *)
(* and rules over them that the API and the worker share                   *)
(* (apps/api/src/jobs.ts, packages/contracts/src/index.ts and the helpers  *)
(* at the top of apps/api/src/server.ts).                                  *)
(*                                                                         *)
(* Job ids are the order of created_at; release ids likewise, with 0 for   *)
(* "no release row".  The custom-domain job types never touch the          *)
(* deployment's lifecycle and are left out, as are MIGRATION and           *)
(* INFRA_UPGRADE, which nothing creates, and the job state QUEUED, which   *)
(* nothing writes.                                                         *)
(***************************************************************************)
EXTENDS Naturals, FiniteSets

CONSTANTS
    MaxJobs,      \* bound: rows ever inserted into deployment_jobs
    MaxReleases,  \* bound: releases of the application
    MaxRequeues   \* MAX_RECONCILE_REQUEUES of the watchdog

ASSUME BoundsAssumption ==
    MaxJobs \in Nat /\ MaxReleases \in Nat /\ MaxRequeues \in Nat

VARIABLES
    dep,       \* the deployments row
    jobs,      \* the deployment_jobs rows, NoJob where none was inserted yet
    created,   \* how many rows of jobs exist
    ready      \* releases whose releaseStatus is READY

-----------------------------------------------------------------------------
(* Enumerations. *)

DepStates == { "NOT_INSTALLED", "WAITING_FOR_RELAY", "INSTALLING", "HEALTHY",
               "UPDATE_AVAILABLE", "UPDATING", "FAILED", "DELETING", "DELETED" }
RelayStates == { "UNKNOWN", "CONNECTED", "DISCONNECTED" }
CleanupStates == { "none", "SKIPPED_RELAY_OFFLINE", "PURGE_FAILED", "COMPLETE" }

JobTypes == { "INSTALL", "DEPLOY_RELEASE", "ROLLBACK", "RESTART",
              "CONFIG_UPDATE", "DESTROY", "PURGE" }
ActiveStates  == { "REQUESTED", "WAITING", "RUNNING" }
SettledStates == { "SUCCEEDED", "FAILED", "CANCELLED" }
JobStates == ActiveStates \cup SettledStates

\* The types behind deployment_jobs_one_active_mutating_uidx.
IndexedTypes == JobTypes \ { "CONFIG_UPDATE" }
\* The types requireDeploymentIdle refuses on.
IdleTypes == JobTypes \ { "PURGE" }
\* The types that own the release pointer while active (MUTATING_JOB_TYPES).
PointerTypes == JobTypes \ { "PURGE" }
\* The operations of a deployment that already runs something.
Day2Types == { "DEPLOY_RELEASE", "ROLLBACK", "RESTART" }
\* The types JOB_TIMEOUTS_MS names: DESTROY is deliberately absent.
TimedTypes == JobTypes \ { "DESTROY" }

\* BULK_DEPLOYABLE_STATES, UNDEPLOYABLE_STATES, PUBLIC_RETRYABLE_STATES.
BulkDeployableStates == { "HEALTHY", "UPDATE_AVAILABLE" }
UndeployableStates ==
    { "NOT_INSTALLED", "WAITING_FOR_RELAY", "DELETING", "DELETED" }
PublicRetryableStates ==
    { "NOT_INSTALLED", "WAITING_FOR_RELAY", "INSTALLING", "FAILED" }

(***************************************************************************)
(* An idempotency key is {deployment}:{TYPE}[:{release}][:RETRY:n] for a   *)
(* request, {deployment}:{TYPE}:install:{installJob} for a follow-up of an *)
(* install, and {deployment}:CONFIG_UPDATE:{messageId} for a config        *)
(* message.                                                                *)
(***************************************************************************)
Keys == [ type: JobTypes, by: { "request", "install", "message" },
          of: Nat, n: Nat ]
Key(type, by, of, n) == [ type |-> type, by |-> by, of |-> of, n |-> n ]
NoKey == [ type |-> "INSTALL", by |-> "request", of |-> 0, n |-> 0 ]

JobIds == 1 .. MaxJobs
JobRows == [ state: { "none" } \cup JobStates,
             key: Keys,
             destructive: BOOLEAN,   \* DESTROY: dataDeletionAuthorized;
                                     \* INSTALL: recovery.neverInstalled
             zeroStart: BOOLEAN,     \* INSTALL: payload.startAfterConfig
             requeues: 0 .. MaxRequeues,
             followUps: BOOLEAN,     \* INSTALL: result.followUps is recorded
             offered: BOOLEAN ]      \* was handed to the relay at least once
NoJob == [ state |-> "none", key |-> NoKey, destructive |-> FALSE,
           zeroStart |-> FALSE, requeues |-> 0, followUps |-> FALSE,
           offered |-> FALSE ]

Releases == 1 .. MaxReleases
DepRows == [ state: DepStates,
             relay: RelayStates,
             enrolled: BOOLEAN,      \* enrollmentUsedAt and installationId set
             reused: BOOLEAN,        \* bootstrapStackName = previousBootstrapStackName
             current: 0 .. MaxReleases,
             cleanup: CleanupStates ]

-----------------------------------------------------------------------------
(* Queries over the rows. *)

Jobs == 1 .. created
Type(j) == jobs[j].key.type
Active(j) == jobs[j].state \in ActiveStates
Settled(j) == jobs[j].state \in SettledStates
JobsOf(types) == { j \in Jobs : Type(j) \in types }
ActiveJobsOf(types) == { j \in JobsOf(types) : Active(j) }

IsLatest(j, S) == j \in S /\ \A i \in S : i <= j

HasSucceededInstall ==
    \E j \in JobsOf({ "INSTALL" }) : jobs[j].state = "SUCCEEDED"

\* Wrong variant: only the release pointer tells what runs.
StartedByNothing == FALSE

HasStartedInstall ==
    \E j \in JobsOf({ "INSTALL", "DEPLOY_RELEASE", "ROLLBACK" }) :
        /\ jobs[j].state = "SUCCEEDED"
        /\ Type(j) = "INSTALL" => ~ jobs[j].zeroStart

NewerReadyReleaseExists(current) == \E r \in ready : r > current

\* Wrong variant: a failed update of a serving deployment changes nothing.
FailedUpdateIgnored(type, hasCurrentRelease, newer) ==
    IF type \in IF hasCurrentRelease THEN Day2Types \cup { "CONFIG_UPDATE", "PURGE" }
               ELSE { "CONFIG_UPDATE", "PURGE" }
    THEN "none" ELSE "FAILED"

\* Wrong variant: a failed purge is a failed deployment.
FailedPurgeFails(type, hasCurrentRelease, newer) ==
    CASE type \in Day2Types ->
            IF ~ hasCurrentRelease THEN "FAILED"
            ELSE IF newer THEN "UPDATE_AVAILABLE" ELSE "HEALTHY"
      [] type = "CONFIG_UPDATE" -> "none"
      [] OTHER -> "FAILED"

\* "none" is the code's null: the failure leaves the deployment state alone.
DeploymentStateAfterFailedJob(type, hasCurrentRelease, newer) ==
    CASE type \in Day2Types ->
            IF ~ hasCurrentRelease THEN "FAILED"
            ELSE IF newer THEN "UPDATE_AVAILABLE" ELSE "HEALTHY"
      [] type \in { "CONFIG_UPDATE", "PURGE" } -> "none"
      [] OTHER -> "FAILED"

\* JOB_SUCCESS_STATE as the result route applies it.
DeploymentStateAfterSucceededJob(type, newer) ==
    CASE type \in { "DEPLOY_RELEASE", "ROLLBACK" } ->
            IF newer THEN "UPDATE_AVAILABLE" ELSE "HEALTHY"
      [] type = "RESTART" -> "HEALTHY"
      [] type = "DESTROY" -> "DELETED"
      [] OTHER -> "none"

\* The attempts a request's base key has behind it.
Attempts(type, of) ==
    { j \in JobsOf({ type }) : jobs[j].key.by = "request" /\ jobs[j].key.of = of }

RetryAwareIdempotencyKey(type, of) ==
    LET attempts == Attempts(type, of) IN
    Key(type, "request", of,
        IF \E j \in attempts : IsLatest(j, attempts) /\ Settled(j)
        THEN Cardinality(attempts) ELSE 0)

\* requireDeploymentIdle: no other active mutation, the same command aside.
DeploymentIdle(key) == \A j \in ActiveJobsOf(IdleTypes) : jobs[j].key = key

-----------------------------------------------------------------------------
(* createOrReuseJob: one INSERT .. ON CONFLICT DO NOTHING under the unique  *)
(* idempotency key and the partial unique index of active mutations.        *)

KeyTaken(key) == \E j \in Jobs : jobs[j].key = key

\* Wrong variant: the table has no partial unique index.
NoIndex(type) == TRUE

IndexAllows(type) == type \in IndexedTypes => ActiveJobsOf(IndexedTypes) = {}

CanInsert(key) ==
    /\ ~ KeyTaken(key)
    /\ IndexAllows(key.type)

InsertJob(key, destructive, zeroStart) ==
    /\ created < MaxJobs
    /\ created' = created + 1
    /\ jobs' = [ jobs EXCEPT ![created + 1] =
                   [ NoJob EXCEPT !.state = "REQUESTED", !.key = key,
                                  !.destructive = destructive,
                                  !.zeroStart = zeroStart ] ]

\* Wrong variant: an UPDATE of a job's state is not under the index.
ActivatesAnyway(j) == TRUE

\* Whether an UPDATE may put job j (back) into an active state: the index
\* refuses it, and the transaction aborts, while another one is active.
MayActivate(j) ==
    Type(j) \in IndexedTypes => ActiveJobsOf(IndexedTypes) \subseteq { j }

SetJobState(j, state) == jobs' = [ jobs EXCEPT ![j].state = state ]

CancelActiveInstalls ==
    jobs' = [ j \in JobIds |->
                IF j \in ActiveJobsOf({ "INSTALL" })
                THEN [ jobs[j] EXCEPT !.state = "CANCELLED" ] ELSE jobs[j] ]

=============================================================================
