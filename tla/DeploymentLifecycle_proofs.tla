--------------------- MODULE DeploymentLifecycle_proofs ---------------------
(***************************************************************************)
(* Theorems about DeploymentLifecycle, for any number of handlers, jobs    *)
(* and releases and any set of running operations.                         *)
(*                                                                         *)
(* Coherent is the first inductive invariant: types, row order, what a     *)
(* handler's next step relies on, one active mutation.  Every step either  *)
(* only reads (ReadStep), or leaves the job rows alone (SameRows), or      *)
(* writes them without activating one (QuietRows, StateRows, CancelRows),  *)
(* or inserts or activates one under the unique index (InsertRows,         *)
(* ActivateRows); MoveStep and AtOnceStep add what the handler does.       *)
(*                                                                         *)
(* Consistent adds what handlers read and what the rows record, one part   *)
(* at a time.  Shapes says what a step does to the job rows, HistoryMoves  *)
(* and StateMoves what it does to the rest, Errands what it does to the    *)
(* handlers; the ...Kept lemmas of the parts rest on these four.           *)
(*                                                                         *)
(* InTurn is the invariant of the lifecycle table, where handlers run one  *)
(* after the other.  Ended and InsertBusy say what a step does to the      *)
(* active jobs, RowsFit what the one handler sees of the table, and each   *)
(* ...Keeps and ...Reads lemma is one action's step.                       *)
(***************************************************************************)
EXTENDS DeploymentLifecycle, FiniteSetTheorems, WellFoundedInduction, TLAPS

-----------------------------------------------------------------------------
(* Facts about the values handlers carry. *)

\* The rows of some types are finitely many existing rows.
LEMMA JobsOfFinite ==
    ASSUME TypeOK, NEW S, S \subseteq Jobs
    PROVE  IsFiniteSet(S) /\ Cardinality(S) \in Nat
<1>1. IsFiniteSet(Jobs)
  BY FS_Interval, BoundsAssumption DEF TypeOK, Jobs
<1> QED
  BY <1>1, FS_Subset, FS_CardinalityType

\* Keys built from natural numbers are keys.
LEMMA KeyType ==
    ASSUME NEW type \in JobTypes, NEW by \in { "request", "install", "message" },
           NEW of \in Nat, NEW n \in Nat
    PROVE  Key(type, by, of, n) \in Keys
BY DEF Key, Keys

\* A retry-aware key is a key, whatever attempts it counts.
LEMMA RetryAwareKeyType ==
    ASSUME TypeOK, NEW type \in JobTypes, NEW of \in Nat
    PROVE  RetryAwareIdempotencyKey(type, of) \in Keys
<1> DEFINE attempts == Attempts(type, of)
<1>1. Cardinality(attempts) \in Nat
  BY JobsOfFinite DEF Attempts, JobsOf
<1>2. (IF \E j \in attempts : IsLatest(j, attempts) /\ Settled(j)
       THEN Cardinality(attempts) ELSE 0) \in Nat
  BY <1>1
<1> QED
  BY <1>2, KeyType DEF RetryAwareIdempotencyKey

\* Job rows are addressed by existing ids.
LEMMA JobIdsOfJobs ==
    ASSUME TypeOK
    PROVE  /\ Jobs \subseteq JobIds
           /\ \A j \in Jobs : j \in 0 .. created /\ jobs[j] \in JobRows /\ Type(j) \in JobTypes
BY BoundsAssumption DEF TypeOK, Jobs, JobIds, JobRows, Keys, Type

\* The state written after a settled job is a deployment state or none.
LEMMA StateAfterType ==
    ASSUME TypeOK, NEW j \in Jobs, NEW outcome \in { "SUCCEEDED", "FAILED" }
    PROVE  StateAfter(j, outcome) \in DepStates \cup { "none" }
BY JobIdsOfJobs
   DEF StateAfter, DeploymentStateAfterFailedJob, DeploymentStateAfterSucceededJob,
       DepStates, Day2Types, JobTypes

-----------------------------------------------------------------------------
(* The shapes of a step. *)

\* A handler's next row keeps the handlers well-formed.
LEMMA HandlerStep ==
    ASSUME Coherent, NEW h \in Handlers, NEW row \in HandlerRows,
           Continue(h, row), created' >= created, created' \in 0 .. MaxJobs,
           HandlerConsistent(row)
    PROVE  /\ handler' \in [ Handlers -> HandlerRows ]
           /\ \A g \in Handlers : HandlerConsistent(handler[g])'
<1>1. handler' \in [ Handlers -> HandlerRows ]
  BY DEF Coherent, TypeOK, Continue
<1>2. ASSUME NEW g \in Handlers PROVE HandlerConsistent(handler[g])'
  <2>1. CASE g = h
    <3>1. handler'[g] = row
      BY <2>1 DEF Coherent, TypeOK, Continue
    <3>2. created \in Nat /\ created' \in Nat /\ row.job \in Nat
      BY BoundsAssumption DEF Coherent, TypeOK, HandlerRows
    <3> QED
      BY <3>1, <3>2 DEF HandlerConsistent, Jobs
  <2>2. CASE g # h
    <3>1. handler'[g] = handler[g] /\ handler[g] \in HandlerRows
      BY <2>2 DEF Coherent, TypeOK, Continue
    <3>2. HandlerConsistent(handler[g])
      BY DEF Coherent
    <3>3. created \in Nat /\ created' \in Nat /\ handler[g].job \in Nat
      BY <3>1, BoundsAssumption DEF Coherent, TypeOK, HandlerRows
    <3> QED
      BY <3>1, <3>2, <3>3 DEF HandlerConsistent, Jobs
  <2> QED BY <2>1, <2>2
<1> QED BY <1>1, <1>2

\* A step that only reads.
LEMMA ReadStep ==
    ASSUME Coherent, NEW h \in Handlers, NEW row \in HandlerRows,
           Continue(h, row), UNCHANGED rows, HandlerConsistent(row)
    PROVE  Coherent'
<1>1. created' >= created /\ created' \in 0 .. MaxJobs
  BY BoundsAssumption DEF Coherent, TypeOK, rows
<1>2. /\ handler' \in [ Handlers -> HandlerRows ]
      /\ \A g \in Handlers : HandlerConsistent(handler[g])'
  BY <1>1, HandlerStep
<1> QED
  BY <1>2 DEF Coherent, TypeOK, rows, RowsInOrder, OneActiveMutation, ActiveJobsOf,
              JobsOf, Jobs, Type, Active

\* A step that writes rows and leaves the job rows in order with one active
\* mutation at most.
LEMMA WriteStep ==
    ASSUME Coherent, NEW h \in Handlers, NEW row \in HandlerRows,
           Continue(h, row), HandlerConsistent(row),
           created' >= created, created' \in 0 .. MaxJobs,
           dep' \in DepRows, jobs' \in [ JobIds -> JobRows ], ready' \subseteq Releases,
           history' \in [ installed: BOOLEAN, started: BOOLEAN ],
           RowsInOrder', OneActiveMutation'
    PROVE  Coherent'
<1>1. /\ handler' \in [ Handlers -> HandlerRows ]
      /\ \A g \in Handlers : HandlerConsistent(handler[g])'
  BY HandlerStep
<1> QED
  BY <1>1 DEF Coherent, TypeOK

\* Writing job rows without activating one or renaming one.
LEMMA QuietRows ==
    ASSUME Coherent, created' = created,
           \A j \in JobIds : /\ jobs'[j].key = jobs[j].key
                             /\ jobs'[j].state \in ActiveStates => Active(j)
                             /\ j > created => jobs'[j] = jobs[j]
    PROVE  RowsInOrder' /\ OneActiveMutation'
<1>1. RowsInOrder'
  BY DEF Coherent, RowsInOrder
<1>2. ActiveJobsOf(IndexedTypes)' \subseteq ActiveJobsOf(IndexedTypes)
  BY JobIdsOfJobs DEF Coherent, ActiveJobsOf, JobsOf, Jobs, Type, Active
<1> QED
  BY <1>1, <1>2 DEF Coherent, OneActiveMutation

\* Leaving the job rows alone.
LEMMA SameRows ==
    ASSUME Coherent, UNCHANGED << jobs, created >>
    PROVE  /\ RowsInOrder' /\ OneActiveMutation'
           /\ jobs' \in [ JobIds -> JobRows ]
           /\ created' >= created /\ created' \in 0 .. MaxJobs
<1>1. RowsInOrder' /\ OneActiveMutation'
  BY QuietRows DEF Active
<1> QED
  BY <1>1, BoundsAssumption DEF Coherent, TypeOK

\* A job row keeps its type under a new state.
LEMMA JobRowState ==
    ASSUME NEW row \in JobRows, NEW state \in JobStates \cup { "none" }
    PROVE  /\ [ row EXCEPT !.state = state ] \in JobRows
           /\ [ row EXCEPT !.state = state ].key = row.key
           /\ [ row EXCEPT !.state = state ].state = state
BY DEF JobRows

\* Writing the state of one job: closing it, or moving an active one on.
LEMMA StateRows ==
    ASSUME Coherent, created' = created, NEW j \in 0 .. created,
           NEW state \in JobStates \cup { "none" }, SetJobState(j, state),
           state \in ActiveStates => Active(j)
    PROVE  /\ RowsInOrder' /\ OneActiveMutation'
           /\ jobs' \in [ JobIds -> JobRows ]
           /\ created' >= created /\ created' \in 0 .. MaxJobs
<1>1. created \in Nat /\ created \in 0 .. MaxJobs /\ jobs \in [ JobIds -> JobRows ]
  BY BoundsAssumption DEF Coherent, TypeOK
<1>2. \A i \in JobIds : jobs'[i] = IF i = j THEN [ jobs[j] EXCEPT !.state = state ] ELSE jobs[i]
  BY <1>1 DEF SetJobState
<1>3. jobs' \in [ JobIds -> JobRows ]
  BY <1>1, <1>2, JobRowState DEF SetJobState
<1>4. \A i \in JobIds : /\ jobs'[i].key = jobs[i].key
                        /\ jobs'[i].state \in ActiveStates => Active(i)
                        /\ i > created => jobs'[i] = jobs[i]
  <2> TAKE i \in JobIds
  <2>1. CASE i = j
    <3>1. jobs'[i] = [ jobs[j] EXCEPT !.state = state ] /\ jobs[j] \in JobRows
      BY <2>1, <1>1, <1>2
    <3>2. jobs'[i].key = jobs[i].key /\ jobs'[i].state = state
      BY <3>1, <2>1, JobRowState
    <3> QED BY <3>2, <2>1, <1>1
  <2>2. CASE i # j
    BY <2>2, <1>2 DEF Active
  <2> QED BY <2>1, <2>2
<1> QED
  BY <1>1, <1>3, <1>4, QuietRows

\* Cancelling every active INSTALL.
LEMMA CancelRows ==
    ASSUME Coherent, created' = created, CancelActiveInstalls
    PROVE  /\ RowsInOrder' /\ OneActiveMutation'
           /\ jobs' \in [ JobIds -> JobRows ]
           /\ created' >= created /\ created' \in 0 .. MaxJobs
<1>1. /\ jobs' \in [ JobIds -> JobRows ]
      /\ created \in Nat
  BY BoundsAssumption
     DEF Coherent, TypeOK, CancelActiveInstalls, JobRows, JobStates, SettledStates
<1>2. \A i \in JobIds : /\ jobs'[i].key = jobs[i].key
                        /\ jobs'[i].state \in ActiveStates => Active(i)
                        /\ i > created => jobs'[i] = jobs[i]
  BY <1>1 DEF Coherent, TypeOK, CancelActiveInstalls, JobRows, Active, ActiveStates,
              ActiveJobsOf, JobsOf, Jobs
<1> QED
  BY <1>1, <1>2, QuietRows DEF Coherent, TypeOK

\* The empty row is a job row.
LEMMA NoJobType == NoJob \in JobRows
<1>1. NoKey \in Keys
  BY DEF NoKey, Keys, JobTypes
<1> QED
  BY <1>1, BoundsAssumption DEF NoJob, JobRows

\* Inserting a row under the unique index.
LEMMA InsertRows ==
    ASSUME Coherent, NEW key \in Keys, NEW destructive \in BOOLEAN,
           NEW zeroStart \in BOOLEAN, CanInsert(key), InsertJob(key, destructive, zeroStart)
    PROVE  /\ RowsInOrder' /\ OneActiveMutation'
           /\ jobs' \in [ JobIds -> JobRows ]
           /\ created' >= created /\ created' \in 0 .. MaxJobs
<1> DEFINE new == [ NoJob EXCEPT !.state = "REQUESTED", !.key = key,
                                 !.destructive = destructive, !.zeroStart = zeroStart ]
<1>1. new \in JobRows /\ new.state = "REQUESTED" /\ new.key = key
  BY NoJobType DEF JobRows, JobStates, ActiveStates
<1>2. created \in Nat /\ created < MaxJobs /\ created' = created + 1 /\ created' \in JobIds
  BY BoundsAssumption DEF Coherent, TypeOK, InsertJob, JobIds
<1>3. jobs' = [ jobs EXCEPT ![created + 1] = new ]
  BY DEF InsertJob
<1> HIDE DEF new
<1>4. jobs' \in [ JobIds -> JobRows ]
  BY <1>1, <1>3 DEF Coherent, TypeOK
<1>5. RowsInOrder'
  BY <1>2, <1>3 DEF Coherent, TypeOK, RowsInOrder, JobIds
<1>6. OneActiveMutation'
  <2>1. \A j \in Jobs : jobs'[j] = jobs[j]
    BY <1>2, <1>3, JobIdsOfJobs DEF Coherent, TypeOK, Jobs
  <2>2. ActiveJobsOf(IndexedTypes)' \subseteq ActiveJobsOf(IndexedTypes) \cup { created + 1 }
    BY <2>1, <1>2 DEF ActiveJobsOf, JobsOf, Jobs, Type, Active
  <2>3. CASE key.type \in IndexedTypes
    <3>1. ActiveJobsOf(IndexedTypes) = {}
      BY <2>3 DEF CanInsert, IndexAllows
    <3> QED
      BY <3>1, <2>2 DEF OneActiveMutation
  <2>4. CASE key.type \notin IndexedTypes
    <3>1. created + 1 \notin ActiveJobsOf(IndexedTypes)'
      BY <2>4, <1>1, <1>2, <1>3 DEF ActiveJobsOf, JobsOf, Type, Coherent, TypeOK
    <3> QED
      BY <3>1, <2>2 DEF OneActiveMutation, Coherent
  <2> QED BY <2>3, <2>4
<1> QED BY <1>2, <1>4, <1>5, <1>6, BoundsAssumption

\* Activating a row the unique index allows.
LEMMA ActivateRows ==
    ASSUME Coherent, created' = created, NEW j \in Jobs,
           MayActivate(j), SetJobState(j, "WAITING")
    PROVE  /\ RowsInOrder' /\ OneActiveMutation'
           /\ jobs' \in [ JobIds -> JobRows ]
           /\ created' >= created /\ created' \in 0 .. MaxJobs
<1> "WAITING" \in JobStates
  BY DEF JobStates, ActiveStates
<1>0. /\ created \in Nat /\ created \in 0 .. MaxJobs /\ j \in JobIds /\ ~ (j > created)
      /\ jobs \in [ JobIds -> JobRows ]
  BY BoundsAssumption DEF Coherent, TypeOK, Jobs, JobIds
<1>1. /\ jobs' \in [ JobIds -> JobRows ]
      /\ created \in Nat /\ created \in 0 .. MaxJobs /\ j \in JobIds /\ ~ (j > created)
  BY <1>0, JobRowState DEF SetJobState
<1>2. \A i \in JobIds : /\ jobs'[i].key = jobs[i].key
                        /\ i # j => jobs'[i] = jobs[i]
  BY <1>0, JobRowState DEF SetJobState
<1>3. RowsInOrder'
  BY <1>1, <1>2 DEF Coherent, RowsInOrder
<1>4. ActiveJobsOf(IndexedTypes)' \subseteq ActiveJobsOf(IndexedTypes) \cup { j }
  BY <1>2, JobIdsOfJobs DEF Coherent, ActiveJobsOf, JobsOf, Jobs, Type, Active
<1>5. CASE Type(j) \in IndexedTypes
  <2>1. ActiveJobsOf(IndexedTypes) \subseteq { j }
    BY <1>5 DEF MayActivate
  <2> QED
    BY <2>1, <1>1, <1>3, <1>4 DEF OneActiveMutation, Coherent, TypeOK
<1>6. CASE Type(j) \notin IndexedTypes
  <2>1. j \notin ActiveJobsOf(IndexedTypes)'
    BY <1>6, <1>1, <1>2 DEF ActiveJobsOf, JobsOf, Type
  <2> QED
    BY <2>1, <1>1, <1>3, <1>4 DEF OneActiveMutation, Coherent, TypeOK
<1> QED BY <1>5, <1>6

-----------------------------------------------------------------------------
(* The steps, and the invariant. *)

\* The row of an idle handler.
LEMMA IdleType == Idle \in HandlerRows
<1>1. NoKey \in Keys
  BY DEF NoKey, Keys, JobTypes
<1> QED
  BY <1>1, BoundsAssumption DEF Idle, HandlerRows, Steps, Evidence

\* What an idle handler carries.
LEMMA IdleFields ==
    /\ Idle.op = "idle" /\ Idle.at = "idle" /\ Idle.job = 0 /\ Idle.batch = {}
    /\ Idle.write = "none" /\ Idle.next = "none"
BY DEF Idle

\* An idle handler is consistent with any rows.
LEMMA IdleConsistent ==
    ASSUME created \in Nat
    PROVE  HandlerConsistent(Idle)
BY IdleFields DEF HandlerConsistent

\* An operation that runs starts from an idle row with a job that exists.
LEMMA LoadStep ==
    ASSUME Coherent, NEW h \in Handlers, NEW row \in HandlerRows,
           row.op \in Operations, row.job <= created, row.batch \subseteq Jobs,
           row.at # "mark", row.write = "REQUESTED" => row.requeues < MaxRequeues,
           row.op = "StuckJobs" => row.write # "WAITING",
           row.op = "ReleaseReady" => row.release # 0,
           row.op \in { "Result", "Progress" } => row.write \in { "SUCCEEDED", "FAILED" },
           Continue(h, row), UNCHANGED rows
    PROVE  Coherent'
BY ReadStep DEF HandlerConsistent

\* One lemma per reading step: the values read are of their types, and the row
\* built from them is one LoadStep accepts.
LEMMA LoadDay2Step ==
    ASSUME Coherent, NEW h \in Handlers, NEW op \in { "Deploy", "Rollback", "Restart" },
           NEW type \in JobTypes, NEW of \in Nat, LoadDay2(h, op, type, of)
    PROVE  Coherent'
<1> DEFINE key  == RetryAwareIdempotencyKey(type, of)
           next == IF dep.state \in BulkDeployableStates THEN "UPDATING" ELSE "none"
           row  == [ Idle EXCEPT !.op = op, !.at = "insert", !.key = key, !.next = next ]
<1>1. key \in Keys /\ next \in DepStates \cup { "none" }
  BY RetryAwareKeyType DEF Coherent, DepStates
<1>2. op \in Operations /\ Continue(h, row) /\ UNCHANGED rows
  BY DEF LoadDay2, Starts
<1> HIDE DEF key, next
<1>3. row \in HandlerRows
  BY <1>1, <1>2, IdleType, OperationsAssumption DEF HandlerRows, Steps
<1>4. /\ row.op = op /\ row.job = 0 /\ row.batch = {} /\ row.at = "insert" /\ row.write = "none"
  BY IdleType, IdleFields DEF HandlerRows
<1>5. created \in Nat
  BY BoundsAssumption DEF Coherent, TypeOK
<1> HIDE DEF row
<1> QED BY <1>1, <1>2, <1>3, <1>4, <1>5, LoadStep

\* deploy-bulk, for one of the selected deployments.
LEMMA LoadBulkDeployStep ==
    ASSUME Coherent, NEW h \in Handlers, NEW r \in Releases, LoadBulkDeploy(h, r)
    PROVE  Coherent'
<1> DEFINE key == RetryAwareIdempotencyKey("DEPLOY_RELEASE", r)
           row == [ Idle EXCEPT !.op = "BulkDeploy", !.at = "insert", !.key = key ]
<1>1. key \in Keys
  BY RetryAwareKeyType DEF Coherent, JobTypes, Releases
<1>2. "BulkDeploy" \in Operations /\ "BulkDeploy" \in AllOperations
  BY OperationsAssumption DEF LoadBulkDeploy, Starts
<1>3. Continue(h, row) /\ UNCHANGED rows
  BY DEF LoadBulkDeploy
<1> HIDE DEF key
<1>4. row \in HandlerRows
  BY <1>1, <1>2, IdleType DEF HandlerRows, Steps
<1>5. row.op = "BulkDeploy" /\ row.job = 0 /\ row.batch = {} /\ row.at = "insert" /\ row.write = "none"
  BY <1>1, IdleType, IdleFields DEF HandlerRows
<1>6. created \in Nat
  BY BoundsAssumption DEF Coherent, TypeOK
<1> HIDE DEF row
<1> QED BY <1>1, <1>2, <1>3, <1>4, <1>5, <1>6, LoadStep

\* A config message: its key counts the messages before it.
LEMMA LoadConfigUpdateStep ==
    ASSUME Coherent, NEW h \in Handlers, LoadConfigUpdate(h)
    PROVE  Coherent'
<1> DEFINE key == Key("CONFIG_UPDATE", "message", 0, Cardinality(JobsOf({ "CONFIG_UPDATE" })))
           row == [ Idle EXCEPT !.op = "ConfigUpdate", !.at = "insert", !.key = key ]
<1>1. key \in Keys
  BY JobsOfFinite, KeyType DEF Coherent, JobsOf, JobTypes
<1>2. "ConfigUpdate" \in Operations /\ "ConfigUpdate" \in AllOperations
  BY OperationsAssumption DEF LoadConfigUpdate, Starts
<1>3. Continue(h, row) /\ UNCHANGED rows
  BY DEF LoadConfigUpdate
<1> HIDE DEF key
<1>4. row \in HandlerRows
  BY <1>1, <1>2, IdleType DEF HandlerRows, Steps
<1>5. row.op = "ConfigUpdate" /\ row.job = 0 /\ row.batch = {} /\ row.at = "insert" /\ row.write = "none"
  BY <1>1, IdleType, IdleFields DEF HandlerRows
<1>6. created \in Nat
  BY BoundsAssumption DEF Coherent, TypeOK
<1> HIDE DEF row
<1> QED BY <1>1, <1>2, <1>3, <1>4, <1>5, <1>6, LoadStep

\* The purge of a removed deployment.
LEMMA LoadPurgeStep ==
    ASSUME Coherent, NEW h \in Handlers, LoadPurge(h)
    PROVE  Coherent'
<1> DEFINE key == RetryAwareIdempotencyKey("PURGE", 0)
           row == [ Idle EXCEPT !.op = "Purge", !.at = "insert", !.key = key ]
<1>1. key \in Keys
  BY RetryAwareKeyType DEF Coherent, JobTypes
<1>2. "Purge" \in Operations /\ "Purge" \in AllOperations
  BY OperationsAssumption DEF LoadPurge, Starts
<1>3. Continue(h, row) /\ UNCHANGED rows
  BY DEF LoadPurge
<1> HIDE DEF key
<1>4. row \in HandlerRows
  BY <1>1, <1>2, IdleType DEF HandlerRows, Steps
<1>5. row.op = "Purge" /\ row.job = 0 /\ row.batch = {} /\ row.at = "insert" /\ row.write = "none"
  BY <1>1, IdleType, IdleFields DEF HandlerRows
<1>6. created \in Nat
  BY BoundsAssumption DEF Coherent, TypeOK
<1> HIDE DEF row
<1> QED BY <1>1, <1>2, <1>3, <1>4, <1>5, <1>6, LoadStep

\* The destroy route, whichever of its two ways it takes.
LEMMA LoadDestroyStep ==
    ASSUME Coherent, NEW h \in Handlers, LoadDestroy(h)
    PROVE  Coherent'
<1> DEFINE state == dep.state
           flag == dep.relay = "DISCONNECTED"
           key == RetryAwareIdempotencyKey("DESTROY", 0)
           next == "DELETING"
           at == IF dep.state \in { "NOT_INSTALLED", "WAITING_FOR_RELAY" }
                 THEN "commit" ELSE "check"
           row == [ Idle EXCEPT !.op = "Destroy", !.state = state, !.flag = flag,
                                !.key = key, !.next = next, !.at = at ]
<1>1. /\ state \in DepStates \cup { "none" } /\ key \in Keys
      /\ next \in DepStates \cup { "none" } /\ at \in Steps /\ at # "mark"
  BY RetryAwareKeyType DEF Coherent, TypeOK, DepRows, DepStates, JobTypes, Steps
<1>2. "Destroy" \in Operations /\ "Destroy" \in AllOperations
  BY OperationsAssumption DEF LoadDestroy, Starts
<1>3. Continue(h, row) /\ UNCHANGED rows
  BY DEF LoadDestroy
<1> HIDE DEF state, key, next, at
<1>4. row \in HandlerRows
  <2>1. \A f \in BOOLEAN :
          [ Idle EXCEPT !.op = "Destroy", !.state = state, !.flag = f, !.key = key, !.next = next, !.at = at ]
            \in HandlerRows
    BY <1>1, <1>2, IdleType DEF HandlerRows, Steps
  <2> QED BY <2>1
<1>5. row.op = "Destroy" /\ row.job = 0 /\ row.batch = {} /\ row.at # "mark" /\ row.write = "none"
  BY <1>1, IdleType, IdleFields DEF HandlerRows
<1>6. created \in Nat
  BY BoundsAssumption DEF Coherent, TypeOK
<1> HIDE DEF row
<1> QED BY <1>1, <1>2, <1>3, <1>4, <1>5, <1>6, LoadStep

\* relay/reset.
LEMMA LoadResetStep ==
    ASSUME Coherent, NEW h \in Handlers, LoadReset(h)
    PROVE  Coherent'
<1> DEFINE next == IF HasSucceededInstall THEN "none" ELSE "NOT_INSTALLED"
           row == [ Idle EXCEPT !.op = "Reset", !.at = "commit", !.next = next ]
<1>1. next \in DepStates \cup { "none" }
  BY DEF DepStates
<1>2. "Reset" \in Operations /\ "Reset" \in AllOperations
  BY OperationsAssumption DEF LoadReset, Starts
<1>3. Continue(h, row) /\ UNCHANGED rows
  BY DEF LoadReset
<1> HIDE DEF next
<1>4. row \in HandlerRows
  BY <1>1, <1>2, IdleType DEF HandlerRows, Steps
<1>5. row.op = "Reset" /\ row.job = 0 /\ row.batch = {} /\ row.at = "commit" /\ row.write = "none"
  BY <1>1, IdleType, IdleFields DEF HandlerRows
<1>6. created \in Nat
  BY BoundsAssumption DEF Coherent, TypeOK
<1> HIDE DEF row
<1> QED BY <1>1, <1>2, <1>3, <1>4, <1>5, <1>6, LoadStep

\* The public retry of a first install.
LEMMA LoadPublicRetryStep ==
    ASSUME Coherent, NEW h \in Handlers, LoadPublicRetry(h)
    PROVE  Coherent'
<1> DEFINE flag == dep.enrolled \/ dep.reused
           next == "NOT_INSTALLED"
           row == [ Idle EXCEPT !.op = "PublicRetry", !.at = "commit", !.next = next,
                                !.flag = flag ]
<1>1. next \in DepStates \cup { "none" }
  BY DEF DepStates
<1>2. "PublicRetry" \in Operations /\ "PublicRetry" \in AllOperations
  BY OperationsAssumption DEF LoadPublicRetry, Starts
<1>3. Continue(h, row) /\ UNCHANGED rows
  BY DEF LoadPublicRetry
<1> HIDE DEF next
<1>4. row \in HandlerRows
  <2>1. \A f \in BOOLEAN :
          [ Idle EXCEPT !.op = "PublicRetry", !.at = "commit", !.next = next, !.flag = f ]
            \in HandlerRows
    BY <1>1, <1>2, IdleType DEF HandlerRows, Steps
  <2> QED BY <2>1
<1>5. row.op = "PublicRetry" /\ row.job = 0 /\ row.batch = {} /\ row.at = "commit" /\ row.write = "none"
  BY <1>1, IdleType, IdleFields DEF HandlerRows
<1>6. created \in Nat
  BY BoundsAssumption DEF Coherent, TypeOK
<1> HIDE DEF row
<1> QED BY <1>1, <1>2, <1>3, <1>4, <1>5, <1>6, LoadStep

\* A registering relay.
LEMMA LoadRegisterStep ==
    ASSUME Coherent, NEW h \in Handlers, LoadRegister(h)
    PROVE  Coherent'
<1> DEFINE state == dep.state
           flag == dep.reused
           key == RetryAwareIdempotencyKey("INSTALL", 0)
           at == IF dep.state \in { "NOT_INSTALLED", "WAITING_FOR_RELAY" }
                   THEN "insert" ELSE "enroll"
           row == [ Idle EXCEPT !.op = "Register", !.state = state, !.flag = flag,
                                !.key = key, !.at = at ]
<1>1. /\ state \in DepStates \cup { "none" } /\ flag \in BOOLEAN /\ key \in Keys
      /\ at \in Steps /\ at # "mark"
  BY RetryAwareKeyType DEF Coherent, TypeOK, DepRows, JobTypes, Steps
<1>2. "Register" \in Operations /\ "Register" \in AllOperations
  BY OperationsAssumption DEF LoadRegister, Starts
<1>3. Continue(h, row) /\ UNCHANGED rows
  BY DEF LoadRegister
<1> HIDE DEF state, key, at
<1>4. row \in HandlerRows
  BY <1>1, <1>2, IdleType DEF HandlerRows, Steps
<1>5. row.op = "Register" /\ row.job = 0 /\ row.batch = {} /\ row.at # "mark" /\ row.write = "none"
  BY <1>1, IdleType, IdleFields DEF HandlerRows
<1>6. created \in Nat
  BY BoundsAssumption DEF Coherent, TypeOK
<1> HIDE DEF row
<1> QED BY <1>1, <1>2, <1>3, <1>4, <1>5, <1>6, LoadStep

\* A heartbeat, whatever it proves.
LEMMA LoadHeartbeatStep ==
    ASSUME Coherent, NEW h \in Handlers, NEW evidence \in Evidence,
           NEW release \in 0 .. MaxReleases, LoadHeartbeat(h, evidence, release)
    PROVE  Coherent'
<1> DEFINE state == dep.state
           current == dep.current
           next == IF StateRecovered(evidence) \/ InstallVerifiedHealthy(evidence)
                   THEN "HEALTHY" ELSE "none"
           row == [ Idle EXCEPT !.op = "Heartbeat", !.at = "commit", !.state = state,
                                !.current = current, !.evidence = evidence,
                                !.release = release, !.next = next ]
<1>1. /\ state \in DepStates \cup { "none" } /\ current \in 0 .. MaxReleases
      /\ next \in DepStates \cup { "none" }
  BY DEF Coherent, TypeOK, DepRows, DepStates
<1>2. "Heartbeat" \in Operations /\ "Heartbeat" \in AllOperations
  BY OperationsAssumption DEF LoadHeartbeat, Starts
<1>3. Continue(h, row) /\ UNCHANGED rows
  BY DEF LoadHeartbeat
<1> HIDE DEF state, current, next
<1>4. row \in HandlerRows
  BY <1>1, <1>2, IdleType DEF HandlerRows, Steps
<1>5. row.op = "Heartbeat" /\ row.job = 0 /\ row.batch = {} /\ row.at = "commit" /\ row.write = "none"
  BY <1>1, IdleType, IdleFields DEF HandlerRows
<1>6. created \in Nat
  BY BoundsAssumption DEF Coherent, TypeOK
<1> HIDE DEF row
<1> QED BY <1>1, <1>2, <1>3, <1>4, <1>5, <1>6, LoadStep

\* A release that becomes READY.
LEMMA LoadReleaseReadyStep ==
    ASSUME Coherent, NEW h \in Handlers, NEW r \in Releases, LoadReleaseReady(h, r)
    PROVE  Coherent'
<1> DEFINE flag == /\ dep.state = "HEALTHY"
                   /\ r > dep.current \/ NewerReadyReleaseExists(dep.current)
           row == [ Idle EXCEPT !.op = "ReleaseReady", !.at = "commit", !.release = r,
                                !.flag = flag ]
<1>1. r \in 0 .. MaxReleases
  BY BoundsAssumption DEF Releases
<1>2. "ReleaseReady" \in Operations /\ "ReleaseReady" \in AllOperations
  BY OperationsAssumption DEF LoadReleaseReady, Starts
<1>3. Continue(h, row) /\ UNCHANGED rows
  BY DEF LoadReleaseReady
<1>4. row \in HandlerRows
  <2>1. \A f \in BOOLEAN :
          [ Idle EXCEPT !.op = "ReleaseReady", !.at = "commit", !.release = r, !.flag = f ]
            \in HandlerRows
    BY <1>1, <1>2, IdleType DEF HandlerRows, Steps
  <2> QED BY <2>1
<1>5. /\ row.op = "ReleaseReady" /\ row.job = 0 /\ row.batch = {} /\ row.at = "commit"
      /\ row.write = "none" /\ row.release = r /\ r # 0
  BY <1>1, IdleType, IdleFields DEF HandlerRows, Releases
<1>6. created \in Nat
  BY BoundsAssumption DEF Coherent, TypeOK
<1> HIDE DEF row
<1> QED BY <1>1, <1>2, <1>3, <1>4, <1>5, <1>6, LoadStep

\* A result, with what it says of the deployment.
LEMMA LoadResultStep ==
    ASSUME Coherent, NEW h \in Handlers, NEW j \in Jobs,
           NEW outcome \in { "SUCCEEDED", "FAILED" }, LoadResult(h, j, outcome)
    PROVE  Coherent'
<1> DEFINE state == IF Type(j) = "INSTALL" THEN dep.state ELSE "none"
           seen == jobs[j].state
           next == StateAfter(j, outcome)
           row == [ Idle EXCEPT !.op = "Result", !.at = "commit", !.job = j, !.state = state,
                                !.seen = seen, !.write = outcome, !.next = next ]
<1>1. /\ state \in DepStates \cup { "none" } /\ seen \in JobStates \cup { "none" }
      /\ next \in DepStates \cup { "none" } /\ outcome \in JobStates \cup { "none" }
      /\ j \in 0 .. MaxJobs /\ j <= created
  BY StateAfterType, JobIdsOfJobs, BoundsAssumption
     DEF Coherent, TypeOK, DepRows, JobRows, JobStates, SettledStates, JobIds, Jobs
<1>2. "Result" \in Operations /\ "Result" \in AllOperations
  BY OperationsAssumption DEF LoadResult, Starts
<1>3. Continue(h, row) /\ UNCHANGED rows
  BY DEF LoadResult
<1> HIDE DEF state, seen, next
<1>4. row \in HandlerRows
  BY <1>1, <1>2, IdleType DEF HandlerRows, Steps
<1>5. row.op = "Result" /\ row.job = j /\ row.batch = {} /\ row.at = "commit" /\ row.write = outcome
  BY <1>1, IdleType, IdleFields DEF HandlerRows
<1>6. created \in Nat
  BY BoundsAssumption DEF Coherent, TypeOK
<1> HIDE DEF row
<1> QED BY <1>1, <1>2, <1>3, <1>4, <1>5, <1>6, LoadStep

\* A stack event that settles an INSTALL.
LEMMA LoadProgressStep ==
    ASSUME Coherent, NEW h \in Handlers, NEW j \in Jobs, LoadProgress(h, j)
    PROVE  Coherent'
<1> DEFINE next == StateAfter(j, "FAILED")
           write == "FAILED"
           row == [ Idle EXCEPT !.op = "Progress", !.at = "commit", !.job = j,
                                !.write = write, !.next = next ]
<1>1. /\ next \in DepStates \cup { "none" } /\ write \in JobStates \cup { "none" }
      /\ j \in 0 .. MaxJobs /\ j <= created /\ write \in { "SUCCEEDED", "FAILED" }
  BY StateAfterType, JobIdsOfJobs, BoundsAssumption
     DEF Coherent, TypeOK, JobStates, SettledStates, JobIds, Jobs
<1>2. "Progress" \in Operations /\ "Progress" \in AllOperations
  BY OperationsAssumption DEF LoadProgress, Starts
<1>3. Continue(h, row) /\ UNCHANGED rows
  BY DEF LoadProgress
<1> HIDE DEF next, write
<1>4. row \in HandlerRows
  BY <1>1, <1>2, IdleType DEF HandlerRows, Steps
<1>5. row.op = "Progress" /\ row.job = j /\ row.batch = {} /\ row.at = "commit" /\ row.write = write
  BY <1>1, IdleType, IdleFields DEF HandlerRows
<1>6. created \in Nat
  BY BoundsAssumption DEF Coherent, TypeOK
<1> HIDE DEF row
<1> QED BY <1>1, <1>2, <1>3, <1>4, <1>5, <1>6, LoadStep

\* Both ways to complete a removal by force.
LEMMA LoadForceCompleteStep ==
    ASSUME Coherent, NEW h \in Handlers, LoadForceComplete(h)
    PROVE  Coherent'
<1> DEFINE write == IF ActiveJobsOf({ "DESTROY" }) # {} THEN "CANCELLED" ELSE "none"
           row(j) == [ Idle EXCEPT !.op = "ForceComplete", !.at = "commit", !.job = j,
                                   !.write = write ]
<1>1. PICK j \in JobsOf({ "DESTROY" }) : Continue(h, row(j)) /\ UNCHANGED rows
  BY DEF LoadForceComplete
<1>2. "ForceComplete" \in Operations /\ "ForceComplete" \in AllOperations
  BY OperationsAssumption DEF LoadForceComplete, Starts
<1>3. /\ j \in 0 .. MaxJobs /\ j <= created
      /\ write \in JobStates \cup { "none" } /\ write # "REQUESTED"
  BY JobIdsOfJobs, BoundsAssumption
     DEF Coherent, TypeOK, JobsOf, Jobs, JobIds, JobStates, SettledStates
<1> HIDE DEF write
<1>4. row(j) \in HandlerRows
  BY <1>2, <1>3, IdleType DEF HandlerRows, Steps
<1>5. /\ row(j).op = "ForceComplete" /\ row(j).job = j /\ row(j).batch = {}
      /\ row(j).at = "commit" /\ row(j).write = write
  BY <1>3, IdleType, IdleFields DEF HandlerRows
<1> HIDE DEF row
<1> QED BY <1>1, <1>2, <1>3, <1>4, <1>5, LoadStep

\* retry-install, with or without an attempt to close first.
LEMMA LoadRetryInstallStep ==
    ASSUME Coherent, NEW h \in Handlers, LoadRetryInstall(h)
    PROVE  Coherent'
<1> DEFINE key == RetryInstallKey
           next == "INSTALLING"
           at(j) == IF j = 0 THEN "insert" ELSE "cancel"
           row(j) == [ Idle EXCEPT !.op = "RetryInstall", !.job = j, !.at = at(j),
                                   !.key = key, !.next = next ]
<1>1. PICK j \in 0 .. created : Continue(h, row(j)) /\ UNCHANGED rows
  BY DEF LoadRetryInstall
<1>2. "RetryInstall" \in Operations /\ "RetryInstall" \in AllOperations
  BY OperationsAssumption DEF LoadRetryInstall, Starts
<1>3. key \in Keys
  BY JobsOfFinite, KeyType DEF Coherent, RetryInstallKey, JobsOf, JobTypes
<1>4. /\ next \in DepStates \cup { "none" } /\ at(j) \in Steps /\ at(j) # "mark"
      /\ j \in 0 .. MaxJobs /\ j <= created
  BY BoundsAssumption DEF Coherent, TypeOK, DepStates, Steps
<1> HIDE DEF key, next, at
<1>5. row(j) \in HandlerRows
  BY <1>2, <1>3, <1>4, IdleType DEF HandlerRows
<1>6. /\ row(j).op = "RetryInstall" /\ row(j).job = j /\ row(j).batch = {}
      /\ row(j).at = at(j) /\ row(j).write = "none"
  BY <1>4, IdleType, IdleFields DEF HandlerRows
<1> HIDE DEF row
<1> QED BY <1>1, <1>2, <1>4, <1>5, <1>6, LoadStep

\* A poll: its batch is of existing jobs.
LEMMA LoadClaimStep ==
    ASSUME Coherent, NEW h \in Handlers, LoadClaim(h)
    PROVE  Coherent'
<1> DEFINE row(batch) == [ Idle EXCEPT !.op = "Claim", !.at = "commit", !.batch = batch ]
<1>1. PICK batch \in SUBSET Jobs : Continue(h, row(batch)) /\ UNCHANGED rows
  BY DEF LoadClaim, ActiveJobsOf, JobsOf
<1>2. "Claim" \in Operations /\ "Claim" \in AllOperations
  BY OperationsAssumption DEF LoadClaim, Starts
<1>3. batch \in SUBSET JobIds /\ created \in Nat
  BY JobIdsOfJobs, BoundsAssumption DEF Coherent, TypeOK
<1>4. row(batch) \in HandlerRows
  BY <1>2, <1>3, IdleType DEF HandlerRows, Steps
<1>5. /\ row(batch).op = "Claim" /\ row(batch).job = 0 /\ row(batch).batch = batch
      /\ row(batch).at = "commit" /\ row(batch).write = "none"
  BY <1>3, IdleType, IdleFields DEF HandlerRows
<1> HIDE DEF row
<1> QED BY <1>1, <1>2, <1>3, <1>4, <1>5, LoadStep

\* The watchdog re-offers only below its bound and parks only behind a relay that
\* is not CONNECTED.
LEMMA VerdictType ==
    ASSUME TypeOK, NEW j \in Jobs
    PROVE  /\ Verdict(j) \in JobStates \cup { "none" }
           /\ Verdict(j) = "REQUESTED" => jobs[j].requeues < MaxRequeues
           /\ dep.relay = "CONNECTED" => Verdict(j) # "WAITING"
BY DEF Verdict, MayRequeue, JobStates, ActiveStates, SettledStates

\* The watchdog's verdict on one job.
LEMMA LoadStuckJobStep ==
    ASSUME Coherent, NEW h \in Handlers, NEW j \in Jobs, LoadStuckJob(h, j)
    PROVE  Coherent'
<1> DEFINE op == IF dep.relay = "CONNECTED" THEN "StuckJobs" ELSE "StrandedJobs"
           requeues == jobs[j].requeues
           write == Verdict(j)
           next == IF Verdict(j) = "FAILED" THEN StateAfter(j, "FAILED") ELSE "none"
           row == [ Idle EXCEPT !.op = op, !.at = "commit", !.job = j,
                                !.requeues = requeues, !.write = write, !.next = next ]
<1>1. Continue(h, row) /\ UNCHANGED rows
  BY DEF LoadStuckJob
<1>2. op \in Operations /\ op \in AllOperations /\ op \in Watchdog
  BY OperationsAssumption DEF LoadStuckJob, Starts, Watchdog
<1>3. /\ write \in JobStates \cup { "none" }
      /\ write = "REQUESTED" => requeues < MaxRequeues
      /\ op = "StuckJobs" => write # "WAITING"
  BY VerdictType DEF Coherent
<1>4. /\ requeues \in 0 .. MaxRequeues /\ next \in DepStates \cup { "none" }
      /\ j \in 0 .. MaxJobs /\ j <= created
  BY StateAfterType, JobIdsOfJobs, BoundsAssumption
     DEF Coherent, TypeOK, JobRows, JobIds, Jobs
<1> HIDE DEF op, requeues, write, next
<1>5. row \in HandlerRows
  BY <1>2, <1>3, <1>4, IdleType DEF HandlerRows, Steps
<1>6. /\ row.op = op /\ row.job = j /\ row.batch = {} /\ row.at = "commit"
      /\ row.write = write /\ row.requeues = requeues
  BY <1>3, <1>4, IdleType, IdleFields DEF HandlerRows
<1> HIDE DEF row
<1> QED BY <1>1, <1>2, <1>3, <1>4, <1>5, <1>6, LoadStep DEF Watchdog

-----------------------------------------------------------------------------
(* The steps after the first. *)

\* What a handler's row carries.
LEMMA HandlerFields ==
    ASSUME Coherent, NEW h \in Handlers
    PROVE  /\ handler[h] \in HandlerRows /\ HandlerConsistent(handler[h])
           /\ handler[h].key \in Keys /\ handler[h].flag \in BOOLEAN
           /\ handler[h].job \in 0 .. created /\ created \in 0 .. MaxJobs
           /\ handler[h].next \in DepStates \cup { "none" }
           /\ handler[h].write \in JobStates \cup { "none" }
           /\ handler[h].release \in 0 .. MaxReleases
           /\ handler[h].requeues \in 0 .. MaxRequeues
<1>1. handler[h] \in HandlerRows /\ HandlerConsistent(handler[h]) /\ created \in 0 .. MaxJobs
  BY DEF Coherent, TypeOK
<1> QED
  BY <1>1, BoundsAssumption DEF HandlerRows, HandlerConsistent

\* A handler that finishes, or moves on to a step it is prepared for, after
\* writing well-formed rows.
LEMMA MoveStep ==
    ASSUME Coherent, NEW h \in Handlers,
           \/ Finish(h)
           \/ \E step \in Steps : /\ step = "mark" => handler[h].next # "none"
                                  /\ GoTo(h, step),
           created' >= created, created' \in 0 .. MaxJobs,
           dep' \in DepRows, jobs' \in [ JobIds -> JobRows ], ready' \subseteq Releases,
           history' \in [ installed: BOOLEAN, started: BOOLEAN ],
           RowsInOrder', OneActiveMutation'
    PROVE  Coherent'
<1>1. CASE Finish(h)
  <2>1. Continue(h, Idle)
    BY <1>1 DEF Finish
  <2>2. Idle \in HandlerRows /\ HandlerConsistent(Idle)
    BY IdleType, IdleConsistent, BoundsAssumption DEF Coherent, TypeOK
  <2> QED BY <2>1, <2>2, WriteStep
<1>2. CASE \E step \in Steps : /\ step = "mark" => handler[h].next # "none"
                               /\ GoTo(h, step)
  <2>1. PICK step \in Steps : /\ step = "mark" => handler[h].next # "none"
                              /\ GoTo(h, step)
    BY <1>2
  <2> DEFINE row == [ handler[h] EXCEPT !.at = step ]
  <2>2. Continue(h, row)
    BY <2>1 DEF GoTo
  <2>3. handler[h] \in HandlerRows /\ HandlerConsistent(handler[h])
    BY HandlerFields
  <2>4. row \in HandlerRows
    BY <2>3 DEF HandlerRows
  <2>5. /\ row.op = handler[h].op /\ row.job = handler[h].job /\ row.at = step
        /\ row.release = handler[h].release
        /\ row.batch = handler[h].batch /\ row.next = handler[h].next
        /\ row.write = handler[h].write /\ row.requeues = handler[h].requeues
    BY <2>3 DEF HandlerRows
  <2>6. HandlerConsistent(row)
    BY <2>1, <2>3, <2>5 DEF HandlerConsistent
  <2> HIDE DEF row
  <2> QED BY <2>2, <2>4, <2>6, WriteStep
<1> QED BY <1>1, <1>2

\* Rows a step leaves alone stay of their types.
LEMMA SameTypes ==
    ASSUME Coherent
    PROVE  /\ UNCHANGED dep => dep' \in DepRows
           /\ UNCHANGED ready => ready' \subseteq Releases
           /\ UNCHANGED history => history' \in [ installed: BOOLEAN, started: BOOLEAN ]
BY DEF Coherent, TypeOK

\* A step that reads and moves on.
LEMMA ReadAndMoveStep ==
    ASSUME Coherent, NEW h \in Handlers, UNCHANGED rows,
           \/ Finish(h)
           \/ \E step \in Steps \ { "mark" } : GoTo(h, step)
    PROVE  Coherent'
<1>1. UNCHANGED << dep, jobs, created, ready, history >>
  BY DEF rows
<1> QED
  BY <1>1, MoveStep, SameRows, SameTypes

\* The deployment row with another state of its type.
LEMMA DepState ==
    ASSUME Coherent, NEW state \in DepStates
    PROVE  [ dep EXCEPT !.state = state ] \in DepRows
BY DEF Coherent, TypeOK, DepRows

\* What the destroy route reads between the cancellation and its insert, and what
\* of it the handler carries on.
RemovalReads(h) ==
    /\ handler[h].op = "Destroy" /\ UNCHANGED rows
    /\ handler'[h] \in HandlerRows
    /\ handler'[h].op = "Destroy" /\ handler'[h].state = handler[h].state
    /\ handler'[h].key = handler[h].key /\ handler'[h].next = handler[h].next
    /\ handler'[h].write = handler[h].write /\ handler'[h].batch = handler[h].batch
    /\ handler'[h].release = handler[h].release
    /\ handler'[h].requeues = handler[h].requeues
    /\ \/ /\ handler'[h].at = "decide" /\ handler'[h].job = created
          /\ handler'[h].flag = handler[h].flag
          /\ handler[h].at = "cancel" /\ DeploymentIdle(handler[h].key)
       \/ /\ handler'[h].at = "insert" /\ handler'[h].job = handler[h].job
          /\ handler'[h].flag = ~ HasSucceededInstall
          /\ handler[h].at = "decide"
    /\ handler' = [ handler EXCEPT ![h] = handler'[h] ]
    /\ \A g \in Handlers \ { h } : handler'[g] = handler[g]

LEMMA ReadsOfRemoval ==
    ASSUME Coherent, NEW h \in Handlers
    PROVE  /\ RequireIdleForDestroy(h)
              => \/ Finish(h) /\ ~ DeploymentIdle(handler[h].key)
                 \/ RemovalReads(h)
           /\ DecideDataDeletion(h) => RemovalReads(h)
<1>1. handler[h] \in HandlerRows /\ created \in 0 .. MaxJobs
  BY HandlerFields
<1>h. ASSUME NEW row, Continue(h, row)
      PROVE  /\ handler'[h] = row /\ \A g \in Handlers \ { h } : handler'[g] = handler[g]
             /\ handler' = [ handler EXCEPT ![h] = handler'[h] ]
  BY <1>h DEF Continue, Coherent, TypeOK
<1>2. ASSUME RequireIdleForDestroy(h), DeploymentIdle(handler[h].key)
      PROVE  RemovalReads(h)
  <2> DEFINE row == [ handler[h] EXCEPT !.at = "decide", !.job = created ]
  <2>1. /\ Continue(h, row) /\ UNCHANGED rows /\ DeploymentIdle(handler[h].key)
        /\ handler[h].op = "Destroy" /\ handler[h].at = "cancel"
    BY <1>2 DEF RequireIdleForDestroy, Runs, At
  <2>2. /\ row \in HandlerRows
        /\ row.op = handler[h].op /\ row.state = handler[h].state
        /\ row.key = handler[h].key /\ row.next = handler[h].next
        /\ row.write = handler[h].write /\ row.batch = handler[h].batch
        /\ row.release = handler[h].release /\ row.requeues = handler[h].requeues
        /\ row.at = "decide" /\ row.job = created /\ row.flag = handler[h].flag
    BY <1>1 DEF HandlerRows, Steps
  <2> HIDE DEF row
  <2>3. QED  BY <1>h, <2>1, <2>2 DEF RemovalReads
<1>3. ASSUME DecideDataDeletion(h) PROVE RemovalReads(h)
  <2> DEFINE never == ~ HasSucceededInstall
             row == [ handler[h] EXCEPT !.at = "insert", !.flag = never ]
  <2>1. /\ Continue(h, row) /\ UNCHANGED rows
        /\ handler[h].op = "Destroy" /\ handler[h].at = "decide"
    BY <1>3 DEF DecideDataDeletion, DataDeletionAuthorized, Runs, At
  <2>2. never \in BOOLEAN
    OBVIOUS
  <2> HIDE DEF never
  <2>3. /\ row \in HandlerRows
        /\ row.op = handler[h].op /\ row.state = handler[h].state
        /\ row.key = handler[h].key /\ row.next = handler[h].next
        /\ row.write = handler[h].write /\ row.batch = handler[h].batch
        /\ row.release = handler[h].release /\ row.requeues = handler[h].requeues
        /\ row.at = "insert" /\ row.job = handler[h].job /\ row.flag = never
    BY <1>1, <2>2 DEF HandlerRows, Steps
  <2> HIDE DEF row
  <2>4. QED  BY <1>h, <2>1, <2>3 DEF RemovalReads, never
<1>4. RequireIdleForDestroy(h) /\ ~ DeploymentIdle(handler[h].key) => Finish(h)
  BY DEF RequireIdleForDestroy
<1>5. QED  BY <1>2, <1>3, <1>4

\* They write no row.
LEMMA RemovalReadsStep ==
    ASSUME Coherent, NEW h \in Handlers, RequireIdleForDestroy(h) \/ DecideDataDeletion(h)
    PROVE  Coherent'
<1>1. CASE Finish(h)
  <2>1. UNCHANGED rows
    BY DEF RequireIdleForDestroy, DecideDataDeletion
  <2>2. QED  BY <1>1, <2>1, ReadAndMoveStep
<1>2. CASE RemovalReads(h)
  <2>1. handler[h] \in HandlerRows /\ HandlerConsistent(handler[h]) /\ created \in Nat
    BY HandlerFields, BoundsAssumption
  <2>2. HandlerConsistent(handler'[h])
    BY <1>2, <2>1 DEF RemovalReads, HandlerConsistent
  <2>3. Continue(h, handler'[h])
    BY <1>2 DEF RemovalReads, Continue
  <2>4. QED  BY <1>2, <2>2, <2>3, WriteStep, SameRows, SameTypes DEF RemovalReads, rows
<1>3. QED  BY <1>1, <1>2, ReadsOfRemoval

\* Whether an install's follow-ups are still wanted.
LEMMA CheckFollowUpsStep ==
    ASSUME Coherent, NEW h \in Handlers, CheckFollowUps(h)
    PROVE  Coherent'
BY ReadAndMoveStep DEF CheckFollowUps, Steps

\* A handler that is cut off.
LEMMA CrashStep ==
    ASSUME Coherent, NEW h \in Handlers, Crash(h)
    PROVE  Coherent'
BY ReadAndMoveStep DEF Crash

\* An insert step: the row is inserted, or it exists, or the index refuses it.
LEMMA InsertRequestedStep ==
    ASSUME Coherent, NEW h \in Handlers, NEW destructive \in BOOLEAN,
           NEW zeroStart \in BOOLEAN, InsertRequested(h, destructive, zeroStart)
    PROVE  Coherent'
<1>1. /\ UNCHANGED << dep, ready, history >>
      /\ \/ Finish(h)
         \/ \E step \in Steps : /\ step = "mark" => handler[h].next # "none"
                                /\ GoTo(h, step)
  BY DEF InsertRequested, Steps
<1>2. CASE CanInsert(handler[h].key)
  <2>1. InsertJob(handler[h].key, destructive, zeroStart)
    BY <1>2 DEF InsertRequested
  <2>2. /\ RowsInOrder' /\ OneActiveMutation'
        /\ jobs' \in [ JobIds -> JobRows ]
        /\ created' >= created /\ created' \in 0 .. MaxJobs
    BY <1>2, <2>1, HandlerFields, InsertRows
  <2> QED BY <1>1, <2>2, MoveStep, SameTypes
<1>3. CASE ~ CanInsert(handler[h].key)
  <2>1. UNCHANGED << jobs, created >>
    BY <1>3 DEF InsertRequested
  <2> QED BY <1>1, <2>1, SameRows, MoveStep, SameTypes
<1> QED BY <1>2, <1>3

\* The insert of a vendor's request.
LEMMA InsertRequestStep ==
    ASSUME Coherent, NEW h \in Handlers, InsertRequest(h)
    PROVE  Coherent'
BY InsertRequestedStep DEF InsertRequest

\* The insert of a DESTROY.
LEMMA InsertDestroyStep ==
    ASSUME Coherent, NEW h \in Handlers, InsertDestroy(h)
    PROVE  Coherent'
BY InsertRequestedStep, HandlerFields DEF InsertDestroy

\* The insert of a repeated INSTALL.
LEMMA InsertRetryInstallStep ==
    ASSUME Coherent, NEW h \in Handlers, InsertRetryInstall(h)
    PROVE  Coherent'
<1>1. StartAfterConfig \in BOOLEAN
  BY SwitchesAssumption DEF StartAfterConfig
<1> QED
  BY <1>1, InsertRequestedStep DEF InsertRetryInstall

\* The in-flight state of a request.
LEMMA MarkJobRequestedStep ==
    ASSUME Coherent, NEW h \in Handlers, MarkJobRequested(h)
    PROVE  Coherent'
<1>1. handler[h].next \in DepStates
  BY HandlerFields DEF MarkJobRequested, At, HandlerConsistent
<1>2. dep' \in DepRows
  BY <1>1, DepState DEF MarkJobRequested
<1> QED
  BY <1>2, SameRows, SameTypes, MoveStep DEF MarkJobRequested

\* Settling a job writes a state of its type for the job and the deployment.
LEMMA SettleTypes ==
    ASSUME Coherent, created' = created, NEW j \in 0 .. created,
           NEW outcome \in JobStates \ ActiveStates, NEW next \in DepStates \cup { "none" },
           SettleJob(j, outcome, next)
    PROVE  /\ dep' \in DepRows
           /\ history' \in [ installed: BOOLEAN, started: BOOLEAN ]
           /\ jobs' \in [ JobIds -> JobRows ]
           /\ RowsInOrder' /\ OneActiveMutation'
           /\ created' >= created /\ created' \in 0 .. MaxJobs
<1>1. dep' \in DepRows
  <2> DEFINE state == IF next = "none" THEN dep.state ELSE next
             cleanup == IF Type(j) # "PURGE" THEN dep.cleanup
                        ELSE IF outcome = "SUCCEEDED" THEN "COMPLETE" ELSE "PURGE_FAILED"
  <2>1. dep \in DepRows /\ state \in DepStates /\ cleanup \in CleanupStates
    BY DEF Coherent, TypeOK, DepRows, CleanupStates
  <2>2. dep' = [ dep EXCEPT !.state = state, !.cleanup = cleanup ]
    BY DEF SettleJob
  <2> HIDE DEF state, cleanup
  <2> QED BY <2>1, <2>2 DEF DepRows
<1>2. history' \in [ installed: BOOLEAN, started: BOOLEAN ]
  <2>1. \A a, b \in BOOLEAN :
          [ installed |-> a, started |-> b ] \in [ installed: BOOLEAN, started: BOOLEAN ]
    OBVIOUS
  <2> QED BY <2>1 DEF SettleJob
<1>3. SetJobState(j, outcome) /\ outcome \notin ActiveStates
  BY DEF SettleJob
<1> QED BY <1>1, <1>2, <1>3, StateRows

\* The removal of a deployment that has nothing to tear down.
LEMMA RemoveNeverInstalledStep ==
    ASSUME Coherent, NEW h \in Handlers, RemoveNeverInstalled(h)
    PROVE  Coherent'
<1>1. dep' \in DepRows
  BY DepState DEF RemoveNeverInstalled, DepStates
<1> QED BY <1>1, SameRows, SameTypes, MoveStep DEF RemoveNeverInstalled

\* The cancellation of INSTALLs before a destroy.
LEMMA CancelObsoleteInstallsStep ==
    ASSUME Coherent, NEW h \in Handlers, CancelObsoleteInstalls(h)
    PROVE  Coherent'
<1>1. "cancel" \in Steps /\ GoTo(h, "cancel") /\ UNCHANGED << dep, created, ready, history >>
  BY DEF CancelObsoleteInstalls, Steps
<1>2. CASE CancelActiveInstalls
  BY <1>1, <1>2, CancelRows, SameTypes, MoveStep
<1>3. CASE UNCHANGED jobs
  BY <1>1, <1>3, SameRows, SameTypes, MoveStep
<1> QED BY <1>2, <1>3 DEF CancelObsoleteInstalls

\* A removal completed by force.
LEMMA CommitForceCompleteStep ==
    ASSUME Coherent, NEW h \in Handlers, CommitForceComplete(h)
    PROVE  Coherent'
<1>1. dep' \in DepRows
  BY DEF CommitForceComplete, Coherent, TypeOK, DepRows, DepStates, CleanupStates
<1>2. Finish(h) /\ UNCHANGED << created, ready, history >>
  BY DEF CommitForceComplete
<1>3. CASE SetJobState(handler[h].job, "CANCELLED")
  <2>1. "CANCELLED" \in JobStates /\ "CANCELLED" \notin ActiveStates
    BY DEF JobStates, SettledStates, ActiveStates
  <2>2. handler[h].job \in 0 .. created
    BY HandlerFields
  <2> QED BY <1>1, <1>2, <1>3, <2>1, <2>2, StateRows, SameTypes, MoveStep
<1>4. CASE UNCHANGED jobs
  BY <1>1, <1>2, <1>4, SameRows, SameTypes, MoveStep
<1> QED BY <1>3, <1>4 DEF CommitForceComplete

\* A step that leaves every handler as it is.
LEMMA AtOnceStep ==
    ASSUME Coherent, UNCHANGED << created, handler >>,
           dep' \in DepRows, jobs' \in [ JobIds -> JobRows ], ready' \subseteq Releases,
           history' \in [ installed: BOOLEAN, started: BOOLEAN ],
           RowsInOrder', OneActiveMutation'
    PROVE  Coherent'
<1>1. \A h \in Handlers : HandlerConsistent(handler[h])'
  BY DEF Coherent, HandlerConsistent, Jobs
<1> QED
  BY <1>1 DEF Coherent, TypeOK

\* A launch writes the deployment only.
LEMMA LaunchStep ==
    ASSUME Coherent, NEW h \in Handlers, Launch(h)
    PROVE  Coherent'
<1>1. dep' \in DepRows
  BY DEF Launch, Coherent, TypeOK, DepRows, DepStates
<1> QED BY <1>1, SameRows, SameTypes, AtOnceStep DEF Launch

\* The liveness sweep writes the relay's state only.
LEMMA SweepRelayLivenessStep ==
    ASSUME Coherent, NEW h \in Handlers, SweepRelayLiveness(h)
    PROVE  Coherent'
<1>1. dep' \in DepRows
  BY DEF SweepRelayLiveness, Coherent, TypeOK, DepRows, RelayStates
<1> QED BY <1>1, SameRows, SameTypes, AtOnceStep DEF SweepRelayLiveness

\* A command handed back was active and stays so.
LEMMA HandBackStep ==
    ASSUME Coherent, NEW h \in Handlers, NEW j \in Jobs, HandBack(h, j)
    PROVE  Coherent'
<1>1. "REQUESTED" \in JobStates /\ Active(j) /\ SetJobState(j, "REQUESTED")
  BY DEF HandBack, JobStates, ActiveStates, Active
<1>2. j \in 0 .. created /\ UNCHANGED << dep, created, ready, handler, history >>
  BY JobIdsOfJobs DEF HandBack, Coherent
<1> QED BY <1>1, <1>2, StateRows, SameTypes, AtOnceStep

\* A new credential, with or without a fresh start.
LEMMA CommitFreshCredentialStep ==
    ASSUME Coherent, NEW h \in Handlers, CommitFreshCredential(h)
    PROVE  Coherent'
<1>1. dep' \in DepRows
  <2> DEFINE reused == IF handler[h].next = "none" THEN TRUE ELSE handler[h].flag
             state == IF handler[h].next = "none" THEN dep.state ELSE "NOT_INSTALLED"
  <2>1. dep \in DepRows /\ reused \in BOOLEAN /\ state \in DepStates
    BY HandlerFields DEF Coherent, TypeOK, DepRows, DepStates
  <2>2. dep' = [ dep EXCEPT !.enrolled = FALSE, !.relay = "UNKNOWN",
                            !.reused = reused, !.state = state ]
    BY DEF CommitFreshCredential
  <2> HIDE DEF reused, state
  <2> QED BY <2>1, <2>2 DEF DepRows, RelayStates
<1>2. Finish(h) /\ UNCHANGED << created, ready, history >>
  BY DEF CommitFreshCredential
<1>3. CASE CancelActiveInstalls
  BY <1>1, <1>2, <1>3, CancelRows, SameTypes, MoveStep
<1>4. CASE UNCHANGED jobs
  BY <1>1, <1>2, <1>4, SameRows, SameTypes, MoveStep
<1> QED BY <1>3, <1>4 DEF CommitFreshCredential

\* The attempt a retry-install closes.
LEMMA CancelSupersededStep ==
    ASSUME Coherent, NEW h \in Handlers, CancelSuperseded(h)
    PROVE  Coherent'
<1>1. /\ "CANCELLED" \in JobStates /\ "CANCELLED" \notin ActiveStates /\ "insert" \in Steps
      /\ SetJobState(handler[h].job, "CANCELLED") /\ GoTo(h, "insert")
      /\ UNCHANGED << dep, created, ready, history >>
  BY DEF CancelSuperseded, JobStates, SettledStates, ActiveStates, Steps
<1>2. handler[h].job \in 0 .. created
  BY HandlerFields
<1> QED BY <1>1, <1>2, StateRows, SameTypes, MoveStep

\* The first INSTALL of a registering relay.
LEMMA InsertFirstInstallStep ==
    ASSUME Coherent, NEW h \in Handlers, InsertFirstInstall(h)
    PROVE  Coherent'
<1>1. /\ UNCHANGED << dep, ready, history >>
      /\ Finish(h) \/ \E step \in Steps : /\ step = "mark" => handler[h].next # "none"
                                          /\ GoTo(h, step)
  BY DEF InsertFirstInstall, Steps
<1>2. handler[h].flag \in BOOLEAN /\ handler[h].key \in Keys /\ StartAfterConfig \in BOOLEAN
  BY HandlerFields, SwitchesAssumption DEF StartAfterConfig
<1>3. CASE /\ CanInsert(handler[h].key)
           /\ InsertJob(handler[h].key, handler[h].flag, StartAfterConfig)
  <2>1. /\ RowsInOrder' /\ OneActiveMutation'
        /\ jobs' \in [ JobIds -> JobRows ]
        /\ created' >= created /\ created' \in 0 .. MaxJobs
    BY <1>2, <1>3, InsertRows
  <2> QED BY <1>1, <2>1, MoveStep, SameTypes
<1>4. CASE UNCHANGED << jobs, created >>
  BY <1>1, <1>4, SameRows, MoveStep, SameTypes
<1> QED BY <1>3, <1>4 DEF InsertFirstInstall

\* The enrollment of a relay.
LEMMA EnrollStep ==
    ASSUME Coherent, NEW h \in Handlers, Enroll(h)
    PROVE  Coherent'
<1>1. dep' \in DepRows
  <2> DEFINE state == IF handler[h].state \in { "NOT_INSTALLED", "WAITING_FOR_RELAY" }
                      THEN "INSTALLING" ELSE dep.state
  <2>1. dep \in DepRows /\ state \in DepStates
    BY DEF Coherent, TypeOK, DepRows, DepStates
  <2>2. dep' \in { dep, [ dep EXCEPT !.enrolled = TRUE, !.relay = "CONNECTED",
                                     !.state = state ] }
    BY DEF Enroll
  <2> HIDE DEF state
  <2> QED BY <2>1, <2>2 DEF DepRows, RelayStates
<1> QED
  BY <1>1, SameRows, SameTypes, MoveStep DEF Enroll

\* A claimed job was active and stays so.
LEMMA CommitClaimStep ==
    ASSUME Coherent, NEW h \in Handlers, CommitClaim(h)
    PROVE  Coherent'
<1>1. /\ Claimed(h) \subseteq Jobs
      /\ \A j \in Claimed(h) : Active(j)
  BY HandlerFields DEF Claimed, HandlerConsistent, Active, ActiveStates
<1>2. jobs' = [ j \in JobIds |->
                  IF j \in Claimed(h)
                  THEN [ jobs[j] EXCEPT !.state = "RUNNING", !.offered = TRUE ] ELSE jobs[j] ]
  BY DEF CommitClaim
<1>3. jobs' \in [ JobIds -> JobRows ]
  BY <1>2 DEF Coherent, TypeOK, JobRows, JobStates, ActiveStates
<1>4. \A j \in JobIds : /\ jobs'[j].key = jobs[j].key
                        /\ jobs'[j].state \in ActiveStates => Active(j)
                        /\ j > created => jobs'[j] = jobs[j]
  <2> TAKE j \in JobIds
  <2>1. CASE j \in Claimed(h)
    <3>1. /\ jobs[j] \in JobRows
          /\ jobs'[j] = [ jobs[j] EXCEPT !.state = "RUNNING", !.offered = TRUE ]
      BY <1>2, <2>1 DEF Coherent, TypeOK
    <3>2. jobs'[j].key = jobs[j].key
      BY <3>1 DEF JobRows
    <3>3. Active(j) /\ ~ (j > created)
      BY <1>1, <2>1, BoundsAssumption DEF Jobs, Coherent, TypeOK
    <3> QED BY <3>2, <3>3
  <2>2. CASE j \notin Claimed(h)
    BY <1>2, <2>2 DEF Active
  <2> QED BY <2>1, <2>2
<1>5. Finish(h) /\ UNCHANGED << dep, created, ready, history >>
  BY DEF CommitClaim
<1>6. created' >= created /\ created' \in 0 .. MaxJobs
  BY <1>5, BoundsAssumption DEF Coherent, TypeOK
<1> QED BY <1>3, <1>4, <1>5, <1>6, QuietRows, SameTypes, MoveStep

\* A result or progress event that settles its job, or comes too late.
LEMMA CommitResultStep ==
    ASSUME Coherent, NEW h \in Handlers, CommitResult(h)
    PROVE  Coherent'
<1> DEFINE j == handler[h].job
<1>1. /\ UNCHANGED << created, ready >> /\ "followUps" \in Steps
      /\ Finish(h) \/ GoTo(h, "followUps")
  BY DEF CommitResult, Steps
<1>2. CASE SettleJob(j, handler[h].write, handler[h].next)
  <2>1. handler[h].write \in JobStates \ ActiveStates
    BY HandlerFields
       DEF CommitResult, Runs, HandlerConsistent, JobStates, SettledStates, ActiveStates
  <2>2. j \in 0 .. created /\ handler[h].next \in DepStates \cup { "none" }
    BY HandlerFields
  <2> QED BY <1>1, <1>2, <2>1, <2>2, SettleTypes, SameTypes, MoveStep
<1>3. CASE UNCHANGED << dep, jobs, history >>
  BY <1>1, <1>3, SameRows, SameTypes, MoveStep
<1> QED BY <1>2, <1>3 DEF CommitResult

\* A follow-up of an install, queued or not.
LEMMA QueueFollowUpStep ==
    ASSUME Coherent, NEW h \in Handlers, NEW type \in JobTypes, NEW possible,
           NEW then \in Steps \ { "mark" }, QueueFollowUp(h, type, possible, then)
    PROVE  Coherent'
<1> DEFINE key == FollowUpKey(type, handler[h].job)
<1>1. /\ UNCHANGED << dep, ready, history >>
      /\ Finish(h) \/ GoTo(h, then)
  BY DEF QueueFollowUp
<1>2. key \in Keys
  BY HandlerFields, KeyType, BoundsAssumption DEF FollowUpKey
<1>3. CASE CanInsert(key) /\ InsertJob(key, FALSE, FALSE)
  <2>1. /\ RowsInOrder' /\ OneActiveMutation'
        /\ jobs' \in [ JobIds -> JobRows ]
        /\ created' >= created /\ created' \in 0 .. MaxJobs
    BY <1>2, <1>3, InsertRows
  <2> QED BY <1>1, <2>1, MoveStep, SameTypes
<1>4. CASE UNCHANGED << jobs, created >>
  BY <1>1, <1>4, SameRows, MoveStep, SameTypes
<1> QED BY <1>3, <1>4 DEF QueueFollowUp

\* The configuration pass.
LEMMA QueueFirstFollowUpStep ==
    ASSUME Coherent, NEW h \in Handlers, QueueFirstFollowUp(h)
    PROVE  Coherent'
<1>1. FollowUpOrder[1] \in JobTypes /\ "deploy" \in Steps \ { "mark" }
  BY DEF FollowUpOrder, JobTypes, Steps
<1> QED
  BY <1>1, QueueFollowUpStep DEF QueueFirstFollowUp

\* The deploy after it.
LEMMA QueueSecondFollowUpStep ==
    ASSUME Coherent, NEW h \in Handlers, QueueSecondFollowUp(h)
    PROVE  Coherent'
<1>1. FollowUpOrder[2] \in JobTypes /\ "record" \in Steps \ { "mark" }
  BY DEF FollowUpOrder, JobTypes, Steps
<1> QED
  BY <1>1, QueueFollowUpStep DEF QueueSecondFollowUp

\* The record of the follow-ups keeps the state of the INSTALL.
LEMMA RecordFollowUpsStep ==
    ASSUME Coherent, NEW h \in Handlers, RecordFollowUps(h)
    PROVE  Coherent'
<1> DEFINE j == handler[h].job
<1>1. j \in 0 .. created /\ created \in Nat /\ created \in 0 .. MaxJobs
  BY HandlerFields, BoundsAssumption
<1>2. \A i \in JobIds : jobs'[i] = IF i = j THEN [ jobs[i] EXCEPT !.followUps = TRUE ]
                                            ELSE jobs[i]
  BY DEF RecordFollowUps, Coherent, TypeOK
<1>3. jobs' \in [ JobIds -> JobRows ]
  <2>1. \A i \in JobIds : [ jobs[i] EXCEPT !.followUps = TRUE ] \in JobRows
    BY DEF Coherent, TypeOK, JobRows
  <2> QED BY <1>2, <2>1 DEF RecordFollowUps, Coherent, TypeOK
<1>4. \A i \in JobIds : /\ jobs'[i].key = jobs[i].key
                        /\ jobs'[i].state \in ActiveStates => Active(i)
                        /\ i > created => jobs'[i] = jobs[i]
  <2> TAKE i \in JobIds
  <2>1. CASE i = j
    <3>1. jobs[i] \in JobRows /\ jobs'[i] = [ jobs[i] EXCEPT !.followUps = TRUE ]
      BY <1>2, <2>1 DEF Coherent, TypeOK
    <3>2. jobs'[i].key = jobs[i].key /\ jobs'[i].state = jobs[i].state
      BY <3>1 DEF JobRows
    <3> HIDE DEF j
    <3> QED BY <1>1, <2>1, <3>2 DEF Active
  <2>2. CASE i # j
    BY <1>2, <2>2 DEF Active
  <2> QED BY <2>1, <2>2
<1>5. Finish(h) /\ UNCHANGED << dep, created, ready, history >>
  BY DEF RecordFollowUps
<1> QED BY <1>1, <1>3, <1>4, <1>5, QuietRows, SameTypes, MoveStep

\* What a heartbeat writes first.
LEMMA WriteHeartbeatStep ==
    ASSUME Coherent, NEW h \in Handlers, WriteHeartbeat(h)
    PROVE  Coherent'
<1>1. dep' \in DepRows
  <2> DEFINE state == IF handler[h].next = "none" THEN dep.state ELSE handler[h].next
  <2>1. dep \in DepRows /\ state \in DepStates
    BY HandlerFields DEF Coherent, TypeOK, DepRows
  <2>2. dep' = [ dep EXCEPT !.relay = "CONNECTED", !.state = state ]
    BY DEF WriteHeartbeat
  <2> HIDE DEF state
  <2> QED BY <2>1, <2>2 DEF DepRows, RelayStates
<1>2. /\ UNCHANGED << jobs, created, ready, history >>
      /\ \E step \in Steps \ { "mark" } : GoTo(h, step)
  BY DEF WriteHeartbeat, Steps
<1> QED
  BY <1>1, <1>2, SameRows, SameTypes, MoveStep

\* An install given up for want of verification.
LEMMA FailUnverifiedInstallStep ==
    ASSUME Coherent, NEW h \in Handlers, FailUnverifiedInstall(h)
    PROVE  Coherent'
<1>1. dep' \in DepRows
  BY DepState, SameTypes DEF FailUnverifiedInstall, DepStates
<1>2. /\ UNCHANGED << jobs, created, ready, history >>
      /\ \E step \in Steps \ { "mark" } : GoTo(h, step)
  BY DEF FailUnverifiedInstall, Steps
<1> QED
  BY <1>1, <1>2, SameRows, SameTypes, MoveStep

\* A promotion of the release pointer.
LEMMA ReconcileRunningDigestStep ==
    ASSUME Coherent, NEW h \in Handlers, ReconcileRunningDigest(h)
    PROVE  Coherent'
<1> DEFINE release == handler[h].release
           state == StateAfterPromotion(release)
<1>1. dep \in DepRows /\ release \in 0 .. MaxReleases /\ state \in DepStates
  BY HandlerFields DEF StateAfterPromotion, Coherent, TypeOK, DepRows, DepStates
<1>2. dep' \in { dep, [ dep EXCEPT !.current = release, !.state = state ] }
  BY DEF ReconcileRunningDigest
<1>3. history' \in { history, [ history EXCEPT !.started = TRUE ] }
  BY DEF ReconcileRunningDigest
<1>4. history' \in [ installed: BOOLEAN, started: BOOLEAN ]
  BY <1>3 DEF Coherent, TypeOK
<1>5. /\ UNCHANGED << jobs, created, ready >>
      /\ \E step \in Steps \ { "mark" } : GoTo(h, step)
  BY DEF ReconcileRunningDigest, Steps
<1> HIDE DEF release, state
<1>6. dep' \in DepRows
  BY <1>1, <1>2 DEF DepRows
<1> QED
  BY <1>4, <1>5, <1>6, SameRows, SameTypes, MoveStep

\* The repair goes on with the newest INSTALL.
LEMMA RepairFollowUpsStep ==
    ASSUME Coherent, NEW h \in Handlers, RepairFollowUps(h)
    PROVE  Coherent'
<1>1. UNCHANGED rows
  BY DEF RepairFollowUps
<1>2. CASE Finish(h)
  BY <1>1, <1>2, ReadAndMoveStep
<1>3. ASSUME NEW j \in Jobs,
             Continue(h, [ handler[h] EXCEPT !.at = "followUps", !.job = j ])
      PROVE  Coherent'
  <2> DEFINE row == [ handler[h] EXCEPT !.at = "followUps", !.job = j ]
  <2>1. handler[h] \in HandlerRows /\ HandlerConsistent(handler[h])
    BY HandlerFields
  <2>2. j \in 0 .. MaxJobs /\ j <= created
    BY JobIdsOfJobs, BoundsAssumption DEF Coherent, TypeOK, Jobs, JobIds
  <2>3. row \in HandlerRows
    BY <2>1, <2>2 DEF HandlerRows, Steps
  <2>4. /\ row.op = handler[h].op /\ row.job = j /\ row.at = "followUps"
        /\ row.release = handler[h].release /\ row.batch = handler[h].batch
        /\ row.write = handler[h].write /\ row.requeues = handler[h].requeues
    BY <2>1 DEF HandlerRows
  <2>5. HandlerConsistent(row)
    BY <2>1, <2>2, <2>4 DEF HandlerConsistent
  <2>6. Continue(h, row)
    BY <1>3
  <2> HIDE DEF row
  <2> QED BY <1>1, <2>3, <2>5, <2>6, ReadStep
<1> QED
  BY <1>2, <1>3 DEF RepairFollowUps, JobsOf

\* A re-offer the bound still allows.
LEMMA RequeueStuckJobStep ==
    ASSUME Coherent, NEW h \in Handlers, RequeueStuckJob(h)
    PROVE  Coherent'
<1> DEFINE j == handler[h].job
           requeues == handler[h].requeues + 1
<1>1. /\ j \in 0 .. created /\ created \in Nat /\ created \in 0 .. MaxJobs
      /\ requeues \in 0 .. MaxRequeues
  BY HandlerFields, BoundsAssumption DEF RequeueStuckJob, HandlerConsistent
<1>2. Finish(h) /\ UNCHANGED << dep, created, ready, history >>
  BY DEF RequeueStuckJob
<1>3. CASE Settles(j)
  <2>1. jobs' = [ jobs EXCEPT ![j].state = "REQUESTED", ![j].requeues = requeues ] /\ Active(j)
    BY <1>3 DEF RequeueStuckJob, Settles
  <2> HIDE DEF j, requeues
  <2>2. \A i \in JobIds :
          jobs'[i] = IF i = j
                     THEN [ jobs[i] EXCEPT !.state = "REQUESTED", !.requeues = requeues ]
                     ELSE jobs[i]
    BY <2>1 DEF Coherent, TypeOK, JobRows
  <2>3. \A i \in JobIds :
          LET row == [ jobs[i] EXCEPT !.state = "REQUESTED", !.requeues = requeues ] IN
            row \in JobRows /\ row.key = jobs[i].key
    BY <1>1 DEF Coherent, TypeOK, JobRows, JobStates, ActiveStates
  <2>4. jobs' \in [ JobIds -> JobRows ]
    BY <2>1, <2>2, <2>3 DEF Coherent, TypeOK
  <2>5. \A i \in JobIds : /\ jobs'[i].key = jobs[i].key
                          /\ jobs'[i].state \in ActiveStates => Active(i)
                          /\ i > created => jobs'[i] = jobs[i]
    <3> TAKE i \in JobIds
    <3>1. CASE i = j
      <4>1. Active(i) /\ ~ (i > created)
        BY <1>1, <2>1, <3>1 DEF Active
      <4>2. jobs'[i].key = jobs[i].key
        BY <2>2, <2>3, <3>1
      <4> QED BY <4>1, <4>2
    <3>2. CASE i # j
      BY <2>2, <3>2 DEF Active
    <3> QED BY <3>1, <3>2
  <2> QED BY <1>1, <1>2, <2>4, <2>5, QuietRows, SameTypes, MoveStep
<1>4. CASE UNCHANGED jobs
  BY <1>2, <1>4, SameRows, SameTypes, MoveStep
<1> QED BY <1>3, <1>4 DEF RequeueStuckJob

\* A park, under the unique index.
LEMMA ParkStuckJobStep ==
    ASSUME Coherent, NEW h \in Handlers, ParkStuckJob(h)
    PROVE  Coherent'
<1> DEFINE j == handler[h].job
<1>1. j \in 0 .. created /\ created \in Nat
  BY HandlerFields, BoundsAssumption
<1>2. Finish(h) /\ UNCHANGED << dep, created, ready, history >>
  BY DEF ParkStuckJob
<1>3. CASE j \in Jobs /\ MayActivate(j) /\ SetJobState(j, "WAITING")
  <2>1. /\ RowsInOrder' /\ OneActiveMutation'
        /\ jobs' \in [ JobIds -> JobRows ]
        /\ created' >= created /\ created' \in 0 .. MaxJobs
    BY <1>2, <1>3, ActivateRows
  <2> QED BY <1>2, <2>1, SameTypes, MoveStep
<1>4. CASE UNCHANGED jobs
  BY <1>2, <1>4, SameRows, SameTypes, MoveStep
<1>5. ASSUME j \notin Jobs, SetJobState(j, "WAITING")
      PROVE  UNCHANGED jobs
  BY <1>1, <1>5 DEF SetJobState, Jobs, JobIds, Coherent, TypeOK
<1> QED BY <1>3, <1>4, <1>5 DEF ParkStuckJob

\* A job the watchdog gives up.
LEMMA FailStuckJobStep ==
    ASSUME Coherent, NEW h \in Handlers, FailStuckJob(h)
    PROVE  Coherent'
<1> DEFINE j == handler[h].job
<1>1. Finish(h) /\ UNCHANGED << created, ready >>
  BY DEF FailStuckJob
<1>2. CASE SettleJob(j, "FAILED", handler[h].next)
  <2>1. "FAILED" \in JobStates \ ActiveStates
    BY DEF JobStates, SettledStates, ActiveStates
  <2>2. j \in 0 .. created /\ handler[h].next \in DepStates \cup { "none" }
    BY HandlerFields
  <2> QED BY <1>1, <1>2, <2>1, <2>2, SettleTypes, SameTypes, MoveStep
<1>3. CASE UNCHANGED << dep, jobs, history >>
  BY <1>1, <1>3, SameRows, SameTypes, MoveStep
<1> QED BY <1>2, <1>3 DEF FailStuckJob

\* The commit of a READY release.
LEMMA CommitReleaseReadyStep ==
    ASSUME Coherent, NEW h \in Handlers, CommitReleaseReady(h)
    PROVE  Coherent'
<1>1. handler[h].op = "ReleaseReady"
  BY DEF CommitReleaseReady, Runs
<1>2. handler[h].release \in Releases
  BY <1>1, HandlerFields, BoundsAssumption DEF HandlerConsistent, Releases
<1>3. ready' \subseteq Releases
  BY <1>2 DEF CommitReleaseReady, Coherent, TypeOK
<1>4. dep' \in DepRows
  <2>1. dep \in DepRows /\ [ dep EXCEPT !.state = "UPDATE_AVAILABLE" ] \in DepRows
    BY DepState DEF Coherent, TypeOK, DepStates
  <2> QED BY <2>1 DEF CommitReleaseReady
<1>5. Finish(h) /\ UNCHANGED << jobs, created, history >>
  BY DEF CommitReleaseReady
<1> QED BY <1>3, <1>4, <1>5, SameRows, SameTypes, MoveStep

-----------------------------------------------------------------------------
(* The invariant. *)

\* The first states are consistent.
LEMMA InitCoherent ==
    ASSUME Init
    PROVE  Coherent
<1>1. created = 0 /\ created \in 0 .. MaxJobs /\ ready \subseteq Releases
  BY BoundsAssumption DEF Init
<1>2. dep \in DepRows
  BY BoundsAssumption DEF Init, DepRows, DepStates, RelayStates, CleanupStates
<1>3. jobs \in [ JobIds -> JobRows ] /\ RowsInOrder
  BY NoJobType DEF Init, RowsInOrder
<1>4. /\ handler \in [ Handlers -> HandlerRows ]
      /\ \A h \in Handlers : HandlerConsistent(handler[h])
  <2>1. Idle \in HandlerRows /\ HandlerConsistent(Idle)
    BY <1>1, IdleType, IdleConsistent
  <2> QED BY <2>1 DEF Init
<1>5. OneActiveMutation
  BY <1>1 DEF OneActiveMutation, ActiveJobsOf, JobsOf, Jobs
<1>6. history \in [ installed: BOOLEAN, started: BOOLEAN ]
  BY DEF Init
<1> QED BY <1>1, <1>2, <1>3, <1>4, <1>5, <1>6 DEF Coherent, TypeOK

\* Every step keeps the invariant.
LEMMA NextCoherent ==
    ASSUME Coherent, [Next]_vars
    PROVE  Coherent'
<1>1. ASSUME NEW h \in Handlers, Load(h)
      PROVE  Coherent'
  <2>1. ASSUME NEW r \in Releases, LoadDeploy(h, r) \/ LoadRollback(h, r)
        PROVE  Coherent'
    BY <2>1, LoadDay2Step DEF LoadDeploy, LoadRollback, Releases, JobTypes
  <2>2. CASE LoadRestart(h)
    BY <2>2, LoadDay2Step DEF LoadRestart, JobTypes
  <2>3. ASSUME NEW evidence \in Evidence, NEW release \in { 0 } \cup Releases,
               LoadHeartbeat(h, evidence, release)
        PROVE  Coherent'
    BY <2>3, LoadHeartbeatStep, BoundsAssumption DEF Releases
  <2> QED
    BY <1>1, <2>1, <2>2, <2>3, LoadBulkDeployStep, LoadConfigUpdateStep, LoadPurgeStep,
       LoadDestroyStep, LoadForceCompleteStep, LoadResetStep, LoadPublicRetryStep,
       LoadRetryInstallStep, LoadRegisterStep, LoadClaimStep, LoadProgressStep,
       LoadStuckJobStep, LoadResultStep, LoadReleaseReadyStep
    DEF Load
<1>2. ASSUME NEW h \in Handlers, Advance(h)
      PROVE  Coherent'
  BY <1>2, InsertRequestStep, MarkJobRequestedStep, RemoveNeverInstalledStep,
     CancelObsoleteInstallsStep, RemovalReadsStep, InsertDestroyStep,
     CommitForceCompleteStep, CommitFreshCredentialStep, CancelSupersededStep,
     InsertRetryInstallStep, InsertFirstInstallStep, EnrollStep, CommitClaimStep,
     CommitResultStep, CheckFollowUpsStep, QueueFirstFollowUpStep, QueueSecondFollowUpStep,
     RecordFollowUpsStep, WriteHeartbeatStep, FailUnverifiedInstallStep,
     ReconcileRunningDigestStep, RepairFollowUpsStep, RequeueStuckJobStep,
     ParkStuckJobStep, FailStuckJobStep, CommitReleaseReadyStep
  DEF Advance
<1>3. ASSUME NEW h \in Handlers, AtOnce(h)
      PROVE  Coherent'
  BY <1>3, LaunchStep, HandBackStep, SweepRelayLivenessStep DEF AtOnce
<1>4. ASSUME NEW h \in Handlers, Crash(h)
      PROVE  Coherent'
  BY <1>4, CrashStep
<1>5. CASE UNCHANGED vars
  BY <1>5, SameRows, SameTypes, AtOnceStep DEF vars, Coherent, TypeOK
<1> QED
  BY <1>1, <1>2, <1>3, <1>4, <1>5 DEF Next

\* Every reachable state is consistent: rows and handlers are of their types, job
\* rows are inserted in order, what a handler carries to a later step of its route
\* or sweep fits the rows it will find, and one mutation is active at most.
THEOREM Coherence == Spec => []Coherent
<1>1. Init => Coherent
  BY InitCoherent
<1>2. Coherent /\ [Next]_vars => Coherent'
  BY NextCoherent
<1> QED
  BY <1>1, <1>2, PTL DEF Spec

\* Rows and handlers stay of their types, for any number of each.
THEOREM TypeCorrect == Spec => []TypeOK
<1>1. Coherent => TypeOK
  BY DEF Coherent
<1> QED
  BY <1>1, Coherence, PTL

\* However many routes and sweeps interleave, and wherever they are cut off, one
\* service mutation of the deployment is active at a time: the insert of
\* createOrReuseJob and the watchdog's park are the only ways to activate a job,
\* and both are under the partial unique index.
THEOREM OneActiveMutationHolds == Spec => []OneActiveMutation
<1>1. Coherent => OneActiveMutation
  BY DEF Coherent
<1> QED
  BY <1>1, Coherence, PTL

-----------------------------------------------------------------------------
(* Settled jobs. *)

\* The statements that close or park a job by id alone.
UnguardedWrite(h) ==
    CommitForceComplete(h) \/ CancelSuperseded(h) \/ ParkStuckJob(h)

Kept == \A j \in JobIds : Settled(j) => jobs'[j].state = jobs[j].state

\* A state is never both active and settled.
LEMMA SettledIsNotActive ==
    ASSUME NEW j, Settled(j)
    PROVE  ~ Active(j)
BY DEF Settled, Active, SettledStates, ActiveStates

\* Writing the state of a job that has not settled.
LEMMA SetUnsettledKeeps ==
    ASSUME Coherent, NEW j, NEW state, SetJobState(j, state), ~ Settled(j)
    PROVE  Kept
<1>1. \A i \in JobIds : i # j => jobs'[i] = jobs[i]
  BY DEF SetJobState, Coherent, TypeOK
<1> QED BY <1>1 DEF Kept

\* Inserting a row touches no existing one.
LEMMA InsertKeeps ==
    ASSUME Coherent, NEW key, NEW destructive, NEW zeroStart,
           InsertJob(key, destructive, zeroStart)
    PROVE  Kept
<1>1. created \in Nat /\ created + 1 \in JobIds
  BY BoundsAssumption DEF Coherent, TypeOK, InsertJob, JobIds
<1>2. jobs[created + 1] = NoJob
  BY <1>1 DEF Coherent, RowsInOrder
<1>3. ~ Settled(created + 1)
  BY <1>2 DEF Settled, SettledStates, NoJob
<1>4. \A i \in JobIds : i # created + 1 => jobs'[i] = jobs[i]
  BY DEF InsertJob, Coherent, TypeOK
<1> QED BY <1>3, <1>4 DEF Kept

\* Cancelling the active INSTALLs touches no settled row.
LEMMA CancelKeeps ==
    ASSUME CancelActiveInstalls
    PROVE  Kept
BY SettledIsNotActive DEF CancelActiveInstalls, Kept, ActiveJobsOf

\* A step that is no unguarded write keeps the outcome of every settled job.
LEMMA AdvanceKeeps ==
    ASSUME Coherent, NEW h \in Handlers, Advance(h), ~ UnguardedWrite(h)
    PROVE  Kept
<1>1. ASSUME UNCHANGED jobs PROVE Kept
  BY <1>1 DEF Kept
<1>2. ASSUME NEW destructive, NEW zeroStart, InsertRequested(h, destructive, zeroStart)
      PROVE  Kept
  BY <1>1, <1>2, InsertKeeps DEF InsertRequested
<1>3. CASE InsertRequest(h) \/ InsertDestroy(h) \/ InsertRetryInstall(h)
  BY <1>2, <1>3 DEF InsertRequest, InsertDestroy, InsertRetryInstall
<1>4. CASE CancelObsoleteInstalls(h) \/ CommitFreshCredential(h)
  BY <1>1, <1>4, CancelKeeps DEF CancelObsoleteInstalls, CommitFreshCredential
<1>5. CASE InsertFirstInstall(h)
  BY <1>1, <1>5, InsertKeeps DEF InsertFirstInstall
<1>6. CASE QueueFirstFollowUp(h) \/ QueueSecondFollowUp(h)
  BY <1>1, <1>6, InsertKeeps DEF QueueFirstFollowUp, QueueSecondFollowUp, QueueFollowUp
<1>7. CASE CommitClaim(h)
  BY <1>7 DEF CommitClaim, Claimed, Kept, Settled, SettledStates
<1>8. CASE CommitResult(h) \/ FailStuckJob(h)
  <2>1. CASE Settles(handler[h].job)
    <3>1. PICK outcome : SetJobState(handler[h].job, outcome)
      BY <1>8, <2>1 DEF CommitResult, FailStuckJob, SettleJob
    <3>2. ~ Settled(handler[h].job)
      BY <2>1, SettledIsNotActive DEF Settles
    <3> QED BY <3>1, <3>2, SetUnsettledKeeps
  <2>2. CASE ~ Settles(handler[h].job)
    BY <1>1, <1>8, <2>2 DEF CommitResult, FailStuckJob
  <2> QED BY <2>1, <2>2
<1>9. CASE RequeueStuckJob(h)
  <2>1. CASE Settles(handler[h].job)
    <3>1. \A i \in JobIds : i # handler[h].job => jobs'[i] = jobs[i]
      BY <1>9, <2>1 DEF RequeueStuckJob, Coherent, TypeOK
    <3>2. ~ Settled(handler[h].job)
      BY <2>1, SettledIsNotActive DEF Settles
    <3> QED BY <3>1, <3>2 DEF Kept
  <2>2. CASE ~ Settles(handler[h].job)
    BY <1>1, <1>9, <2>2 DEF RequeueStuckJob
  <2> QED BY <2>1, <2>2
<1>10. CASE RecordFollowUps(h)
  BY <1>10 DEF RecordFollowUps, Kept, Coherent, TypeOK, JobRows
<1>11. CASE \/ MarkJobRequested(h) \/ RemoveNeverInstalled(h) \/ RequireIdleForDestroy(h)
            \/ DecideDataDeletion(h)
            \/ Enroll(h) \/ CheckFollowUps(h) \/ WriteHeartbeat(h)
            \/ FailUnverifiedInstall(h) \/ ReconcileRunningDigest(h) \/ RepairFollowUps(h)
            \/ CommitReleaseReady(h)
  BY <1>1, <1>11
     DEF MarkJobRequested, RemoveNeverInstalled, RequireIdleForDestroy, DecideDataDeletion, Enroll,
         CheckFollowUps, WriteHeartbeat, FailUnverifiedInstall, ReconcileRunningDigest,
         RepairFollowUps, CommitReleaseReady, rows
<1> QED
  BY <1>3, <1>4, <1>5, <1>6, <1>7, <1>8, <1>9, <1>10, <1>11 DEF Advance, UnguardedWrite

\* A first step only reads, and no step done at once settles or revives a job.
LEMMA OtherStepsKeep ==
    ASSUME Coherent, NEW h \in Handlers, Load(h) \/ AtOnce(h) \/ Crash(h)
    PROVE  Kept
<1>1. ASSUME UNCHANGED jobs PROVE Kept
  BY <1>1 DEF Kept
<1>2. CASE Load(h)
  BY <1>1, <1>2
     DEF Load, LoadDeploy, LoadRollback, LoadRestart, LoadDay2, LoadBulkDeploy,
         LoadConfigUpdate, LoadPurge, LoadDestroy, LoadForceComplete, LoadReset,
         LoadPublicRetry, LoadRetryInstall, LoadRegister, LoadClaim, LoadProgress,
         LoadStuckJob, LoadResult, LoadHeartbeat, LoadReleaseReady, rows
<1>3. CASE AtOnce(h)
  <2>1. ASSUME NEW j \in Jobs, HandBack(h, j) PROVE Kept
    BY <2>1, SetUnsettledKeeps DEF HandBack, Settled, SettledStates
  <2> QED
    BY <1>1, <1>3, <2>1 DEF AtOnce, Launch, SweepRelayLiveness
<1>4. CASE Crash(h)
  BY <1>1, <1>4 DEF Crash, rows
<1> QED BY <1>2, <1>3, <1>4

\* Only three statements can change the outcome of a settled job, whatever else
\* interleaves: the force-complete and retry-install cancellations and the
\* watchdog's park, which are by job id alone.
THEOREM SettledUnlessUnguarded ==
    Spec => [][ (\E h \in Handlers : UnguardedWrite(h)) \/ Kept ]_vars
<1>1. Coherent /\ [Next]_vars
      => [ (\E h \in Handlers : UnguardedWrite(h)) \/ Kept ]_vars
  BY AdvanceKeeps, OtherStepsKeep DEF Next
<1> QED
  BY <1>1, Coherence, PTL DEF Spec

\* Where none of those three runs, a settled job keeps its outcome: a late or
\* repeated result, a verdict decided before the job settled, or a cancellation
\* that lost the race changes nothing.
THEOREM SettledJobKeptHolds ==
    ASSUME Operations \cap { "ForceComplete", "RetryInstall", "StrandedJobs" } = {}
    PROVE  Spec => SettledJobKept
<1>1. ASSUME Coherent, NEW h \in Handlers PROVE ~ UnguardedWrite(h)
  <2>1. /\ handler[h].op \in Operations \cup { "idle" }
        /\ handler[h].op = "StuckJobs" => handler[h].write # "WAITING"
    BY <1>1 DEF Coherent, HandlerConsistent
  <2> QED
    BY <2>1 DEF UnguardedWrite, CommitForceComplete, CancelSuperseded, ParkStuckJob,
                Runs, Watchdog
<1>2. Coherent /\ [Next]_vars
      => [ \A j \in JobIds : Settled(j) => jobs'[j].state = jobs[j].state ]_vars
  BY <1>1, AdvanceKeeps, OtherStepsKeep DEF Next, Kept
<1> QED
  BY <1>2, Coherence, PTL DEF Spec, SettledJobKept

-----------------------------------------------------------------------------
(* The shapes of a step, as far as the job rows go. *)

Inserts ==
    \E key \in Keys, destructive \in BOOLEAN, zeroStart \in BOOLEAN :
        /\ CanInsert(key) /\ InsertJob(key, destructive, zeroStart)
        /\ UNCHANGED << dep, ready, history >>

\* A result, a failed stack event or a verdict of the watchdog settles its job.
SettlesItsJob(h) ==
    /\ handler[h].op \in Settlers
    /\ handler[h].job \in Jobs
    /\ Active(handler[h].job)
    /\ handler[h].write \in { "SUCCEEDED", "FAILED" }
    /\ SettleJob(handler[h].job, handler[h].write, handler[h].next)
    /\ UNCHANGED << created, ready >>

SameRow(j) ==
    /\ jobs'[j].key = jobs[j].key
    /\ jobs'[j].destructive = jobs[j].destructive
    /\ jobs'[j].zeroStart = jobs[j].zeroStart

\* What else may become of a job's state.
Moved(h, j) ==
    \/ jobs'[j].state = jobs[j].state
    \/ Active(j) /\ jobs'[j].state = "REQUESTED"
    \/ j \in Claimed(h) /\ jobs'[j].state = "RUNNING" /\ CommitClaim(h)
    \/ /\ Active(j) /\ jobs'[j].state = "CANCELLED" /\ Type(j) = "INSTALL"
       /\ handler[h].op \in { "Destroy", "Reset", "PublicRetry" }
    \/ /\ j = handler[h].job /\ jobs'[j].state = "CANCELLED"
       /\ handler[h].op \in { "ForceComplete", "RetryInstall" }
    \/ /\ j = handler[h].job /\ jobs'[j].state = "WAITING" /\ MayActivate(j)
       /\ handler[h].op = "StrandedJobs"

MovesJobs(h) ==
    /\ UNCHANGED << created, history >>
    /\ \A j \in JobIds : SameRow(j) /\ Moved(h, j)

Step(h) == Load(h) \/ Advance(h) \/ AtOnce(h) \/ Crash(h)

\* One job's state is written.
LEMMA SetIsMove ==
    ASSUME Coherent, NEW h \in Handlers, NEW i \in 0 .. created, NEW state \in JobStates,
           SetJobState(i, state), UNCHANGED << created, history >>,
           i \in JobIds =>
           \/ Active(i) /\ state = "REQUESTED"
           \/ /\ i = handler[h].job /\ state = "CANCELLED"
              /\ handler[h].op \in { "ForceComplete", "RetryInstall" }
           \/ /\ i = handler[h].job /\ state = "WAITING" /\ MayActivate(i)
              /\ handler[h].op = "StrandedJobs"
    PROVE  MovesJobs(h)
<1>1. \A j \in JobIds : jobs'[j] = IF j = i THEN [ jobs[i] EXCEPT !.state = state ] ELSE jobs[j]
  BY DEF SetJobState, Coherent, TypeOK
<1>2. \A j \in JobIds : jobs[j] \in JobRows
  BY DEF Coherent, TypeOK
<1>3. \A j \in JobIds : SameRow(j)
  BY <1>1, <1>2 DEF SameRow, JobRows
<1>4. \A j \in JobIds : j # i => jobs'[j].state = jobs[j].state
  BY <1>1
<1>5. i \in JobIds => jobs'[i].state = state
  BY <1>1, <1>2 DEF JobRows
<1> QED BY <1>3, <1>4, <1>5 DEF MovesJobs, Moved

\* Cancelling the active INSTALLs moves jobs.
LEMMA CancelIsMove ==
    ASSUME Coherent, NEW h \in Handlers, CancelActiveInstalls, UNCHANGED << created, history >>,
           handler[h].op \in { "Destroy", "Reset", "PublicRetry" }
    PROVE  MovesJobs(h)
<1>1. \A j \in JobIds : jobs[j] \in JobRows
  BY DEF Coherent, TypeOK
<1>2. ASSUME NEW j \in JobIds PROVE SameRow(j) /\ Moved(h, j)
  <2>1. CASE j \in ActiveJobsOf({ "INSTALL" })
    <3>1. jobs'[j] = [ jobs[j] EXCEPT !.state = "CANCELLED" ] /\ jobs[j] \in JobRows
      BY <1>1, <2>1 DEF CancelActiveInstalls
    <3>2. Active(j) /\ Type(j) = "INSTALL"
      BY <2>1 DEF ActiveJobsOf, JobsOf
    <3> QED BY <3>1, <3>2 DEF SameRow, Moved, JobRows
  <2>2. CASE j \notin ActiveJobsOf({ "INSTALL" })
    BY <2>2 DEF CancelActiveInstalls, SameRow, Moved
  <2> QED BY <2>1, <2>2
<1> QED BY <1>2 DEF MovesJobs

\* A result or a verdict that still settles its job.
LEMMA SettleIsSettle ==
    ASSUME Coherent, NEW h \in Handlers, CarriesItsJob(handler[h]),
           handler[h].op \in Settlers,
           handler[h].write \in { "SUCCEEDED", "FAILED" }, UNCHANGED << created, ready >>,
           IF Settles(handler[h].job)
           THEN SettleJob(handler[h].job, handler[h].write, handler[h].next)
           ELSE UNCHANGED << dep, jobs, history >>
    PROVE  UNCHANGED << jobs, created, dep, ready, history >> \/ SettlesItsJob(h)
<1>1. CASE Settles(handler[h].job)
  <2>1. Active(handler[h].job) /\ handler[h].job \in Jobs
    BY <1>1, HandlerFields, BoundsAssumption DEF Settles, CarriesItsJob, Settlers, Jobs
  <2> QED BY <1>1, <2>1 DEF SettlesItsJob
<1>2. CASE ~ Settles(handler[h].job)
  BY <1>2
<1> QED BY <1>1, <1>2

\* Every step leaves the job rows alone, inserts one, settles one or moves some.
LEMMA Shapes ==
    ASSUME Coherent, NEW h \in Handlers, CarriesItsJob(handler[h]), Step(h)
    PROVE  \/ UNCHANGED << jobs, created >>
           \/ Inserts
           \/ SettlesItsJob(h)
           \/ MovesJobs(h)
<1> DEFINE Shape == \/ UNCHANGED << jobs, created >>
                    \/ Inserts
                    \/ SettlesItsJob(h)
                    \/ MovesJobs(h)
<1>f. /\ handler[h].key \in Keys /\ handler[h].flag \in BOOLEAN
      /\ handler[h].job \in 0 .. created /\ handler[h].op \in Operations \cup { "idle" }
      /\ handler[h].op = "StuckJobs" => handler[h].write # "WAITING"
      /\ handler[h].op \in { "Result", "Progress" } =>
            handler[h].write \in { "SUCCEEDED", "FAILED" }
  BY HandlerFields DEF HandlerConsistent
<1>c. created \in Nat /\ \A j \in JobIds : jobs[j] \in JobRows
  BY BoundsAssumption DEF Coherent, TypeOK
<1>1. CASE Load(h)
  BY <1>1
     DEF Load, LoadDeploy, LoadRollback, LoadRestart, LoadDay2, LoadBulkDeploy,
         LoadConfigUpdate, LoadPurge, LoadDestroy, LoadForceComplete, LoadReset,
         LoadPublicRetry, LoadRetryInstall, LoadRegister, LoadClaim, LoadProgress,
         LoadStuckJob, LoadResult, LoadHeartbeat, LoadReleaseReady, rows
<1>2. CASE Crash(h)
  BY <1>2 DEF Crash, rows
<1>3. CASE AtOnce(h)
  <2>1. ASSUME NEW j \in Jobs, HandBack(h, j) PROVE Shape
    <3>1. j \in 0 .. created /\ Active(j) /\ "REQUESTED" \in JobStates
      BY <2>1, <1>c DEF HandBack, Active, ActiveStates, JobStates, Jobs
    <3> QED BY <2>1, <3>1, SetIsMove DEF HandBack
  <2> QED BY <1>3, <2>1 DEF AtOnce, Launch, SweepRelayLiveness
<1>4. CASE Advance(h)
  <2>1. ASSUME NEW destructive \in BOOLEAN, NEW zeroStart \in BOOLEAN,
               InsertRequested(h, destructive, zeroStart)
        PROVE  Shape
    BY <2>1, <1>f DEF InsertRequested, Inserts
  <2>2. CASE InsertRequest(h) \/ InsertDestroy(h) \/ InsertRetryInstall(h)
    BY <2>1, <2>2, <1>f DEF InsertRequest, InsertDestroy, InsertRetryInstall, StartAfterConfig
  <2>3. CASE InsertFirstInstall(h)
    BY <2>3, <1>f DEF InsertFirstInstall, Inserts, StartAfterConfig
  <2>4. CASE QueueFirstFollowUp(h) \/ QueueSecondFollowUp(h)
    <3>1. ASSUME NEW type \in { "CONFIG_UPDATE", "DEPLOY_RELEASE" }
          PROVE FollowUpKey(type, handler[h].job) \in Keys
      BY <1>f, <1>c, KeyType DEF FollowUpKey, JobTypes
    <3>2. FollowUpOrder[1] = "CONFIG_UPDATE" /\ FollowUpOrder[2] = "DEPLOY_RELEASE"
      BY DEF FollowUpOrder
    <3> QED BY <2>4, <3>1, <3>2
            DEF QueueFirstFollowUp, QueueSecondFollowUp, QueueFollowUp, Inserts
  <2>5. CASE CancelObsoleteInstalls(h) \/ CommitFreshCredential(h)
    BY <2>5, CancelIsMove DEF CancelObsoleteInstalls, CommitFreshCredential, Runs
  <2>6. CASE CommitForceComplete(h) \/ CancelSuperseded(h)
    <3>1. "CANCELLED" \in JobStates
      BY DEF JobStates, SettledStates
    <3> QED BY <2>6, <3>1, <1>f, SetIsMove DEF CommitForceComplete, CancelSuperseded, Runs
  <2>7. CASE CommitClaim(h)
    <3>1. ASSUME NEW j \in JobIds PROVE SameRow(j) /\ Moved(h, j)
      <4>1. CASE j \in Claimed(h)
        BY <2>7, <4>1, <1>c DEF CommitClaim, SameRow, Moved, JobRows
      <4>2. CASE j \notin Claimed(h)
        BY <2>7, <4>2, <1>c DEF CommitClaim, SameRow, Moved, JobRows
      <4> QED BY <4>1, <4>2
    <3> QED BY <2>7, <3>1 DEF CommitClaim, MovesJobs
  <2>8. CASE CommitResult(h)
    BY <2>8, <1>f, SettleIsSettle DEF CommitResult, Runs, Settlers
  <2>9. CASE FailStuckJob(h)
    BY <2>9, <1>f, SettleIsSettle DEF FailStuckJob, Runs, Settlers
  <2>10. CASE RequeueStuckJob(h)
    <3>1. CASE Settles(handler[h].job)
      <4>1. ASSUME NEW j \in JobIds PROVE SameRow(j) /\ Moved(h, j)
        <5>1. CASE j = handler[h].job
          BY <2>10, <3>1, <5>1, <1>c
             DEF RequeueStuckJob, SameRow, Moved, JobRows, Settles, Coherent, TypeOK
        <5>2. CASE j # handler[h].job
          BY <2>10, <3>1, <5>2 DEF RequeueStuckJob, SameRow, Moved, Coherent, TypeOK
        <5> QED BY <5>1, <5>2
      <4> QED BY <2>10, <4>1 DEF RequeueStuckJob, MovesJobs
    <3> QED BY <2>10, <3>1 DEF RequeueStuckJob
  <2>11. CASE ParkStuckJob(h)
    <3>1. "WAITING" \in JobStates
      BY DEF JobStates, ActiveStates
    <3> QED BY <2>11, <3>1, <1>f, SetIsMove DEF ParkStuckJob, Runs, Watchdog
  <2>12. CASE RecordFollowUps(h)
    <3>1. ASSUME NEW j \in JobIds PROVE SameRow(j) /\ Moved(h, j)
      BY <2>12, <1>c DEF RecordFollowUps, SameRow, Moved, JobRows, Coherent, TypeOK
    <3> QED BY <2>12, <3>1 DEF RecordFollowUps, MovesJobs
  <2>13. CASE \/ MarkJobRequested(h) \/ RemoveNeverInstalled(h) \/ RequireIdleForDestroy(h)
              \/ DecideDataDeletion(h)
              \/ Enroll(h) \/ CheckFollowUps(h) \/ WriteHeartbeat(h)
              \/ FailUnverifiedInstall(h) \/ ReconcileRunningDigest(h) \/ RepairFollowUps(h)
              \/ CommitReleaseReady(h)
    BY <2>13
       DEF MarkJobRequested, RemoveNeverInstalled, RequireIdleForDestroy, DecideDataDeletion, Enroll,
           CheckFollowUps, WriteHeartbeat, FailUnverifiedInstall, ReconcileRunningDigest,
           RepairFollowUps, CommitReleaseReady, rows
  <2> QED
    BY <1>4, <2>2, <2>3, <2>4, <2>5, <2>6, <2>7, <2>8, <2>9, <2>10, <2>11, <2>12, <2>13
    DEF Advance
<1> QED BY <1>1, <1>2, <1>3, <1>4 DEF Step

\* Existing rows stay what they are about.
LEMMA RowsKept ==
    ASSUME Coherent, NEW h \in Handlers, CarriesItsJob(handler[h]), Step(h)
    PROVE  \A j \in Jobs : j \in Jobs' /\ SameRow(j)
<1>1. created \in Nat /\ Jobs \subseteq JobIds
  BY BoundsAssumption DEF Coherent, TypeOK, Jobs, JobIds
<1>2. CASE UNCHANGED << jobs, created >>
  BY <1>2 DEF Jobs, SameRow
<1>3. CASE Inserts
  BY <1>1, <1>3 DEF Inserts, InsertJob, Jobs, SameRow, Coherent, TypeOK
<1>4. CASE SettlesItsJob(h)
  <2>1. PICK state : SetJobState(handler[h].job, state) /\ UNCHANGED created
    BY <1>4 DEF SettlesItsJob, SettleJob
  <2>2. ASSUME NEW j \in Jobs PROVE SameRow(j)
    <3>1. j \in JobIds /\ jobs[j] \in JobRows
      BY <1>1 DEF Coherent, TypeOK
    <3> QED BY <2>1, <3>1 DEF SetJobState, SameRow, JobRows, Coherent, TypeOK
  <2> QED BY <2>1, <2>2 DEF Jobs
<1>5. CASE MovesJobs(h)
  BY <1>1, <1>5 DEF MovesJobs, Jobs
<1> QED BY <1>2, <1>3, <1>4, <1>5, Shapes

-----------------------------------------------------------------------------
(* What handlers carry. *)

\* What fits the rows before a step fits them after it.
LEMMA StillFits ==
    ASSUME Coherent, NEW row \in HandlerRows, row.job \in 0 .. created,
           row.batch \subseteq Jobs, CarriesItsJob(row),
           \A j \in Jobs : j \in Jobs' /\ SameRow(j),
           NEW g \in Handlers, handler'[g] = row
    PROVE  CarriesItsJob(handler[g])'
<1>1. created \in Nat
  BY BoundsAssumption DEF Coherent, TypeOK
<1>2. row.job # 0 => row.job \in Jobs
  BY <1>1 DEF Jobs
<1>3. row.job # 0 => Type(row.job) = Type(row.job)'
  BY <1>2 DEF SameRow, Type
<1>4. \A types : Names(row, types) <=> Names(row, types)'
  BY <1>3 DEF Names
<1>6. \A c \in row.batch : Type(c) = Type(c)'
  BY DEF SameRow, Type
<1>7. CarriesItsJob(row)'
  BY <1>4, <1>6 DEF CarriesItsJob
<1> QED BY <1>7 DEF CarriesItsJob, Names, Type

\* An idle handler fits any rows.
LEMMA IdleFits == CarriesItsJob(Idle)
BY DEF Idle, NoKey, CarriesItsJob, Names, Watchdog, Settlers, Day2Types

\* Retry-aware keys are the keys of requests.
LEMMA RequestKey ==
    ASSUME NEW type, NEW of
    PROVE  /\ RetryAwareIdempotencyKey(type, of).by = "request"
           /\ RetryAwareIdempotencyKey(type, of).type = type
BY DEF RetryAwareIdempotencyKey, Key

\* The steps a read step leads to.
FirstSteps == { "insert", "commit", "check", "cancel", "enroll" }

\* What a handler has just read is so.
ReadRight(row) ==
    /\ row.op = "Claim" =>
          /\ ~ OverlappingPolls => \A g \in Handlers : handler[g].op # "Claim"
          /\ \A j \in JobIds : jobs[j].state # "RUNNING"
    /\ row.op = "Register" =>
          /\ row.state = dep.state
          /\ row.at = "enroll" => dep.state \notin { "NOT_INSTALLED", "WAITING_FOR_RELAY" }
    /\ row.op \in { "Heartbeat", "Result", "Progress" } \cup Day2Requests => dep.enrolled
    /\ row.op = "StuckJobs" => dep.relay = "CONNECTED"
    /\ row.op = "Heartbeat" /\ row.next = "HEALTHY" =>
          dep.state = "FAILED" \/ HasSucceededInstall
    /\ row.op = "ReleaseReady" /\ row.flag =>
          row.release > dep.current \/ NewerReadyReleaseExists(dep.current)
    /\ row.write = "FAILED" /\ Names(row, Day2Types) =>
          (row.next = "FAILED" <=> ~ HasCurrentRelease)
    /\ row.next = "UPDATE_AVAILABLE" => NewerReadyReleaseExists(dep.current)

FitsAsRead(row) ==
    /\ CarriesItsJob(row) /\ ReadRight(row) /\ row.at \in FirstSteps
    /\ row.op = "Destroy" => row.at # "insert"

\* What a read step lets its handler carry fits the rows it read.
LEMMA LoadFits ==
    ASSUME Coherent, NEW h \in Handlers, Load(h)
    PROVE  FitsAsRead(handler'[h])
<1>c. created \in Nat /\ Jobs \subseteq JobIds /\ 0 \notin Jobs
  BY BoundsAssumption DEF Coherent, TypeOK, Jobs, JobIds
<1>h. \A row : Continue(h, row) => handler'[h] = row
  BY DEF Continue, Coherent, TypeOK
<1> USE DEF NoKey, FirstSteps
<1>n. "INSTALL" \notin Day2Types /\ "DESTROY" \notin Day2Types
  BY DEF Day2Types
<1>1. ASSUME NEW op \in { "Deploy", "Rollback", "Restart" }, NEW type, NEW of,
             LoadDay2(h, op, type, of)
      PROVE  FitsAsRead(handler'[h])
  <2> DEFINE key  == RetryAwareIdempotencyKey(type, of)
             next == IF dep.state \in BulkDeployableStates THEN "UPDATING" ELSE "none"
  <2>1. handler'[h] = [ Idle EXCEPT !.op = op, !.at = "insert", !.key = key, !.next = next ]
    BY <1>1, <1>h DEF LoadDay2
  <2>2. key.by = "request" /\ dep.enrolled /\ next \in { "UPDATING", "none" }
    BY <1>1, RequestKey DEF LoadDay2, RequireDeployableState
  <2> HIDE DEF key, next
  <2> QED
    BY <1>n, <2>1, <2>2
    DEF Idle, FitsAsRead, CarriesItsJob, ReadRight, Names, Watchdog, Settlers, Day2Requests
<1>2. CASE \E r \in Releases : LoadDeploy(h, r) \/ LoadRollback(h, r)
  BY <1>1, <1>2 DEF LoadDeploy, LoadRollback
<1>3. CASE LoadRestart(h)
  BY <1>1, <1>3 DEF LoadRestart
<1>4. CASE \E r \in Releases : LoadBulkDeploy(h, r)
  <2>1. PICK r \in Releases : LoadBulkDeploy(h, r)
    BY <1>4
  <2> DEFINE key == RetryAwareIdempotencyKey("DEPLOY_RELEASE", r)
  <2>2. handler'[h] = [ Idle EXCEPT !.op = "BulkDeploy", !.at = "insert", !.key = key ]
    BY <2>1, <1>h DEF LoadBulkDeploy
  <2>3. key.by = "request" /\ dep.enrolled
    BY <2>1, RequestKey DEF LoadBulkDeploy
  <2> HIDE DEF key
  <2> QED
    BY <1>n, <2>2, <2>3
    DEF Idle, FitsAsRead, CarriesItsJob, ReadRight, Names, Watchdog, Settlers, Day2Requests
<1>5. CASE LoadConfigUpdate(h)
  <2> DEFINE key == Key("CONFIG_UPDATE", "message", 0, Cardinality(JobsOf({ "CONFIG_UPDATE" })))
  <2>1. handler'[h] = [ Idle EXCEPT !.op = "ConfigUpdate", !.at = "insert", !.key = key ]
    BY <1>5, <1>h DEF LoadConfigUpdate
  <2>2. key.by = "message" /\ key.type \notin Day2Types
    BY DEF Key, Day2Types
  <2> HIDE DEF key
  <2> QED
    BY <1>n, <2>1, <2>2
    DEF Idle, FitsAsRead, CarriesItsJob, ReadRight, Names, Watchdog, Settlers, Day2Requests
<1>6. CASE LoadPurge(h)
  <2> DEFINE key == RetryAwareIdempotencyKey("PURGE", 0)
  <2>1. handler'[h] = [ Idle EXCEPT !.op = "Purge", !.at = "insert", !.key = key ]
    BY <1>6, <1>h DEF LoadPurge
  <2>2. key.by = "request" /\ key.type \notin Day2Types
    BY RequestKey DEF Day2Types
  <2> HIDE DEF key
  <2> QED
    BY <1>n, <2>1, <2>2
    DEF Idle, FitsAsRead, CarriesItsJob, ReadRight, Names, Watchdog, Settlers, Day2Requests
<1>7. CASE LoadDestroy(h)
  <2> DEFINE key == RetryAwareIdempotencyKey("DESTROY", 0)
             flag == dep.relay = "DISCONNECTED"
             at == IF dep.state \in { "NOT_INSTALLED", "WAITING_FOR_RELAY" }
                   THEN "commit" ELSE "check"
  <2>1. handler'[h] = [ Idle EXCEPT !.op = "Destroy", !.state = dep.state, !.flag = flag,
                                    !.key = key, !.next = "DELETING", !.at = at ]
    BY <1>7, <1>h DEF LoadDestroy
  <2>2. /\ key.by = "request" /\ key.type = "DESTROY" /\ key.type \notin Day2Types
        /\ at \in { "commit", "check" }
    BY RequestKey DEF Day2Types
  <2> HIDE DEF key, flag, at
  <2> QED
    BY <1>n, <2>1, <2>2
    DEF Idle, FitsAsRead, CarriesItsJob, ReadRight, Names, Watchdog, Settlers, Day2Requests
<1>8. CASE LoadForceComplete(h)
  <2>1. PICK j \in JobsOf({ "DESTROY" }), write \in { "CANCELLED", "none" } :
           handler'[h] = [ Idle EXCEPT !.op = "ForceComplete", !.at = "commit", !.job = j,
                                       !.write = write ]
    BY <1>8, <1>h DEF LoadForceComplete
  <2>2. j # 0 /\ Type(j) = "DESTROY"
    BY <1>c DEF JobsOf
  <2> QED
    BY <1>n, <2>1, <2>2
    DEF Idle, FitsAsRead, CarriesItsJob, ReadRight, Names, Watchdog, Settlers, Day2Requests
<1>9. CASE LoadReset(h)
  <2> DEFINE next == IF HasSucceededInstall THEN "none" ELSE "NOT_INSTALLED"
  <2>1. handler'[h] = [ Idle EXCEPT !.op = "Reset", !.at = "commit", !.next = next ]
    BY <1>9, <1>h DEF LoadReset
  <2>2. next \in { "none", "NOT_INSTALLED" }
    OBVIOUS
  <2> HIDE DEF next
  <2> QED
    BY <1>n, <2>1, <2>2
    DEF Idle, FitsAsRead, CarriesItsJob, ReadRight, Names, Watchdog, Settlers, Day2Requests
<1>9a. CASE LoadPublicRetry(h)
  <2> DEFINE flag == dep.enrolled \/ dep.reused
  <2>1. handler'[h] = [ Idle EXCEPT !.op = "PublicRetry", !.at = "commit",
                                    !.next = "NOT_INSTALLED", !.flag = flag ]
    BY <1>9a, <1>h DEF LoadPublicRetry
  <2> HIDE DEF flag
  <2> QED
    BY <1>n, <2>1
    DEF Idle, FitsAsRead, CarriesItsJob, ReadRight, Names, Watchdog, Settlers, Day2Requests
<1>10. CASE LoadRetryInstall(h)
  <2> DEFINE key == RetryInstallKey
  <2>1. PICK j \in 0 .. created, at \in { "insert", "cancel" } :
           handler'[h] = [ Idle EXCEPT !.op = "RetryInstall", !.job = j, !.at = at,
                                       !.key = key, !.next = "INSTALLING" ]
    BY <1>10, <1>h DEF LoadRetryInstall
  <2>2. key.by = "request" /\ key.type = "INSTALL"
    BY DEF RetryInstallKey, Key
  <2> HIDE DEF key
  <2> QED
    BY <1>n, <2>1, <2>2
    DEF Idle, FitsAsRead, CarriesItsJob, ReadRight, Names, Watchdog, Settlers, Day2Requests
<1>11. CASE LoadRegister(h)
  <2> DEFINE key == RetryAwareIdempotencyKey("INSTALL", 0)
  <2>1. PICK at \in { "insert", "enroll" } :
           /\ at = "enroll" => dep.state \notin { "NOT_INSTALLED", "WAITING_FOR_RELAY" }
           /\ handler'[h] = [ Idle EXCEPT !.op = "Register", !.state = dep.state,
                                          !.flag = dep.reused, !.key = key, !.at = at ]
    BY <1>11, <1>h DEF LoadRegister
  <2>2. key.by = "request" /\ key.type = "INSTALL"
    BY RequestKey
  <2> HIDE DEF key
  <2> QED
    BY <1>n, <2>1, <2>2
    DEF Idle, FitsAsRead, CarriesItsJob, ReadRight, Names, Watchdog, Settlers, Day2Requests
<1>12. CASE LoadClaim(h)
  <2> DEFINE candidates == ActiveJobsOf(JobTypes)
             running == \E j \in candidates : jobs[j].state = "RUNNING"
             batch == { j \in candidates : jobs[j].state # "RUNNING" /\ MayClaim(running, j) }
  <2>1. handler'[h] = [ Idle EXCEPT !.op = "Claim", !.at = "commit", !.batch = batch ]
    BY <1>12, <1>h DEF LoadClaim
  <2>2. \A c, j \in batch : Type(c) = "CONFIG_UPDATE" => c <= j
    BY DEF MayClaim
  <2>3. ~ running
    BY <1>12 DEF LoadClaim, MayClaim
  <2>4. ASSUME NEW j \in JobIds PROVE jobs[j].state # "RUNNING"
    <3>1. CASE j \in Jobs
      BY <2>3, <3>1, JobIdsOfJobs DEF ActiveJobsOf, JobsOf, Active, ActiveStates, Coherent
    <3>2. CASE j \notin Jobs
      BY <3>2, <1>c DEF Coherent, RowsInOrder, Jobs, JobIds, NoJob
    <3> QED BY <3>1, <3>2
  <2>5. ~ OverlappingPolls => \A g \in Handlers : handler[g].op # "Claim"
    BY <1>12 DEF LoadClaim
  <2> HIDE DEF batch, running
  <2> QED
    BY <1>n, <2>1, <2>2, <2>4, <2>5
    DEF Idle, FitsAsRead, CarriesItsJob, ReadRight, Names, Watchdog, Settlers, Day2Requests
<1>13. CASE \E j \in Jobs : LoadProgress(h, j)
  <2>1. PICK j \in Jobs : LoadProgress(h, j)
    BY <1>13
  <2>2. StateAfter(j, "FAILED") = "FAILED" /\ Type(j) = "INSTALL" /\ dep.enrolled
    BY <2>1 DEF LoadProgress, StateAfter, DeploymentStateAfterFailedJob, Day2Types
  <2>3. handler'[h] = [ Idle EXCEPT !.op = "Progress", !.at = "commit", !.job = j,
                                    !.write = "FAILED", !.next = "FAILED" ]
    BY <2>1, <2>2, <1>h DEF LoadProgress
  <2> QED
    BY <1>n, <2>2, <2>3, <1>c
    DEF Day2Types, Idle, FitsAsRead, CarriesItsJob, ReadRight, Names, Watchdog, Settlers,
          Day2Requests
<1>14. ASSUME NEW j \in Jobs, NEW outcome \in { "SUCCEEDED", "FAILED" }
       PROVE  /\ StateAfter(j, outcome) \in { "UPDATE_AVAILABLE", "HEALTHY" }
                   => Type(j) \in Day2Types
              /\ StateAfter(j, outcome) # "INSTALLING"
              /\ outcome = "FAILED" /\ Type(j) = "INSTALL" => StateAfter(j, outcome) = "FAILED"
              /\ StateAfter(j, outcome) = "UPDATE_AVAILABLE" =>
                    NewerReadyReleaseExists(dep.current)
              /\ outcome = "FAILED" /\ Type(j) \in Day2Types =>
                    (StateAfter(j, outcome) = "FAILED" <=> ~ HasCurrentRelease)
              /\ outcome = "FAILED" /\ Type(j) \in Day2Types => StateAfter(j, outcome) # "none"
  BY DEF StateAfter, DeploymentStateAfterFailedJob, DeploymentStateAfterSucceededJob, Day2Types
<1>15. CASE \E j \in Jobs, outcome \in { "SUCCEEDED", "FAILED" } : LoadResult(h, j, outcome)
  <2>1. PICK j \in Jobs, outcome \in { "SUCCEEDED", "FAILED" } : LoadResult(h, j, outcome)
    BY <1>15
  <2> DEFINE next == StateAfter(j, outcome)
             state == IF Type(j) = "INSTALL" THEN dep.state ELSE "none"
  <2>2. handler'[h] = [ Idle EXCEPT !.op = "Result", !.at = "commit", !.job = j,
                                    !.state = state, !.seen = jobs[j].state,
                                    !.write = outcome, !.next = next ]
    BY <2>1, <1>h DEF LoadResult
  <2>3. /\ next \in { "UPDATE_AVAILABLE", "HEALTHY" } => Type(j) \in Day2Types
        /\ next # "INSTALLING"
        /\ outcome = "FAILED" /\ Type(j) = "INSTALL" => next = "FAILED"
        /\ next = "UPDATE_AVAILABLE" => NewerReadyReleaseExists(dep.current)
        /\ outcome = "FAILED" /\ Type(j) \in Day2Types => (next = "FAILED" <=> ~ HasCurrentRelease)
        /\ outcome = "FAILED" /\ Type(j) \in Day2Types => next # "none"
        /\ dep.enrolled
    BY <2>1, <1>14 DEF LoadResult
  <2> HIDE DEF next, state
  <2> QED
    BY <1>n, <2>2, <2>3, <1>c
    DEF Idle, FitsAsRead, CarriesItsJob, ReadRight, Names, Watchdog, Settlers, Day2Requests
<1>16. CASE \E j \in Jobs : LoadStuckJob(h, j)
  <2>1. PICK j \in Jobs : LoadStuckJob(h, j)
    BY <1>16
  <2> DEFINE next == IF Verdict(j) = "FAILED" THEN StateAfter(j, "FAILED") ELSE "none"
             op == IF dep.relay = "CONNECTED" THEN "StuckJobs" ELSE "StrandedJobs"
             write == Verdict(j)
  <2>2. handler'[h] = [ Idle EXCEPT !.op = op, !.at = "commit", !.job = j,
                                    !.requeues = jobs[j].requeues, !.write = write,
                                    !.next = next ]
    BY <2>1, <1>h DEF LoadStuckJob
  <2>3. /\ next \in { "UPDATE_AVAILABLE", "HEALTHY" } => Type(j) \in Day2Types
        /\ next # "INSTALLING"
        /\ write = "FAILED" /\ Type(j) = "INSTALL" => next = "FAILED"
        /\ next = "UPDATE_AVAILABLE" => NewerReadyReleaseExists(dep.current)
        /\ write = "FAILED" /\ Type(j) \in Day2Types => (next = "FAILED" <=> ~ HasCurrentRelease)
        /\ write = "FAILED" /\ Type(j) \in Day2Types => next # "none"
    BY <1>14
  <2>4. op \in { "StuckJobs", "StrandedJobs" } /\ (op = "StuckJobs" => dep.relay = "CONNECTED")
    OBVIOUS
  <2> HIDE DEF next, op, write
  <2> QED
    BY <1>n, <2>2, <2>3, <2>4, <1>c
    DEF Idle, FitsAsRead, CarriesItsJob, ReadRight, Names, Watchdog, Settlers, Day2Requests
<1>17. CASE \E evidence \in Evidence, release \in { 0 } \cup Releases :
               LoadHeartbeat(h, evidence, release)
  <2>1. PICK evidence \in Evidence, release \in { 0 } \cup Releases :
               LoadHeartbeat(h, evidence, release)
    BY <1>17
  <2> DEFINE next == IF StateRecovered(evidence) \/ InstallVerifiedHealthy(evidence)
                     THEN "HEALTHY" ELSE "none"
  <2>2. handler'[h] = [ Idle EXCEPT !.op = "Heartbeat", !.at = "commit", !.state = dep.state,
                                    !.current = dep.current, !.evidence = evidence,
                                    !.release = release, !.next = next ]
    BY <2>1, <1>h DEF LoadHeartbeat
  <2>3. /\ next \in { "HEALTHY", "none" } /\ dep.enrolled
        /\ next = "HEALTHY" => dep.state = "FAILED" \/ HasSucceededInstall
    BY <2>1 DEF LoadHeartbeat, StateRecovered, InstallVerifiedHealthy
  <2> HIDE DEF next
  <2> QED
    BY <1>n, <2>2, <2>3
    DEF Idle, FitsAsRead, CarriesItsJob, ReadRight, Names, Watchdog, Settlers, Day2Requests
<1>18. CASE \E r \in Releases : LoadReleaseReady(h, r)
  <2>1. PICK r \in Releases : LoadReleaseReady(h, r)
    BY <1>18
  <2> DEFINE flag == /\ dep.state = "HEALTHY"
                     /\ r > dep.current \/ NewerReadyReleaseExists(dep.current)
  <2>2. handler'[h] = [ Idle EXCEPT !.op = "ReleaseReady", !.at = "commit", !.release = r,
                                    !.flag = flag ]
    BY <2>1, <1>h DEF LoadReleaseReady
  <2>3. flag => r > dep.current \/ NewerReadyReleaseExists(dep.current)
    OBVIOUS
  <2> HIDE DEF flag
  <2> QED
    BY <1>n, <2>2, <2>3
    DEF Idle, FitsAsRead, CarriesItsJob, ReadRight, Names, Watchdog, Settlers, Day2Requests
<1> QED
  BY <1>2, <1>3, <1>4, <1>5, <1>6, <1>7, <1>8, <1>9, <1>9a, <1>10, <1>11, <1>12, <1>13,
     <1>15, <1>16, <1>17, <1>18 DEF Load

\* The job and the batch exist, too.
Fits(row) == CarriesItsJob(row) /\ row.job \in 0 .. created /\ row.batch \subseteq Jobs

\* A handler that moves on still fits.
LEMMA GoesOn ==
    ASSUME Coherent, NEW h \in Handlers, CarriesItsJob(handler[h]), NEW step, GoTo(h, step),
           step = "promote" => handler[h].release # 0,
           step = "mark" => handler[h].op \in RequestOperations,
           step \in { "followUps", "config", "deploy" } =>
              handler[h].op \in { "Result", "Progress", "Heartbeat" }
    PROVE  Fits(handler'[h])
<1>1. handler[h] \in HandlerRows /\ handler'[h] = [ handler[h] EXCEPT !.at = step ]
  BY DEF GoTo, Continue, Coherent, TypeOK
<1>2. /\ handler'[h].key = handler[h].key /\ handler'[h].op = handler[h].op
      /\ handler'[h].job = handler[h].job /\ handler'[h].next = handler[h].next
      /\ handler'[h].write = handler[h].write /\ handler'[h].release = handler[h].release
      /\ handler'[h].batch = handler[h].batch /\ handler'[h].at = step
  BY <1>1 DEF HandlerRows
<1> QED BY <1>2, HandlerFields DEF CarriesItsJob, Names, HandlerConsistent, Fits

\* What a later step lets its handler carry fits as well.
LEMMA AdvanceFits ==
    ASSUME Coherent, NEW h \in Handlers, CarriesItsJob(handler[h]), Advance(h)
    PROVE  Fits(handler'[h])
<1>1. CASE Finish(h)
  <2>1. handler'[h] = Idle
    BY <1>1 DEF Finish, Continue, Coherent, TypeOK
  <2>2. created \in Nat
    BY BoundsAssumption DEF Coherent, TypeOK
  <2> QED BY <2>1, <2>2, IdleFits, IdleFields DEF Fits
<1>2. CASE \E step \in Steps \ { "mark", "promote", "followUps", "config", "deploy" } :
              GoTo(h, step)
  BY <1>2, GoesOn
<1>2a. CASE GoTo(h, "mark") /\ handler[h].op \in RequestOperations
  BY <1>2a, GoesOn
<1> USE DEF Steps
<1>3a. CASE InsertRequest(h) \/ InsertDestroy(h) \/ InsertRetryInstall(h)
  <2>1. handler[h].op \in RequestOperations
    BY <1>3a DEF InsertRequest, InsertDestroy, InsertRetryInstall, Runs, RequestOperations
  <2> QED
    BY <1>1, <1>2a, <1>3a, <2>1
       DEF InsertRequest, InsertDestroy, InsertRetryInstall, InsertRequested
<1>3. CASE \/ MarkJobRequested(h) \/ RemoveNeverInstalled(h)
           \/ CancelObsoleteInstalls(h)
           \/ CommitForceComplete(h) \/ CommitFreshCredential(h) \/ CancelSuperseded(h)
           \/ InsertFirstInstall(h) \/ Enroll(h) \/ CommitClaim(h)
           \/ RecordFollowUps(h) \/ FailUnverifiedInstall(h)
           \/ RequeueStuckJob(h) \/ ParkStuckJob(h) \/ FailStuckJob(h)
           \/ CommitReleaseReady(h) \/ ReconcileRunningDigest(h)
  BY <1>1, <1>2, <1>3
     DEF MarkJobRequested, RemoveNeverInstalled, CancelObsoleteInstalls,
         CommitForceComplete, CommitFreshCredential, CancelSuperseded, InsertFirstInstall,
         Enroll, CommitClaim, RecordFollowUps, FailUnverifiedInstall,
         RequeueStuckJob, ParkStuckJob, FailStuckJob, CommitReleaseReady,
         ReconcileRunningDigest
<1>4. CASE CommitResult(h)
  <2>1. CASE GoTo(h, "followUps")
    BY <1>4, <2>1, GoesOn DEF CommitResult, Runs
  <2> QED BY <1>1, <1>4, <2>1 DEF CommitResult
<1>5. CASE CheckFollowUps(h)
  <2>1. CASE GoTo(h, "config")
    BY <1>5, <2>1, GoesOn DEF CheckFollowUps, At, CarriesItsJob
  <2> QED BY <1>1, <1>2, <1>5, <2>1 DEF CheckFollowUps
<1>6. CASE QueueFirstFollowUp(h)
  <2>1. CASE GoTo(h, "deploy")
    BY <1>6, <2>1, GoesOn DEF QueueFirstFollowUp, At, CarriesItsJob
  <2> QED BY <1>1, <1>6, <2>1 DEF QueueFirstFollowUp, QueueFollowUp
<1>7. CASE QueueSecondFollowUp(h)
  BY <1>1, <1>2, <1>7 DEF QueueSecondFollowUp, QueueFollowUp
<1>8. CASE WriteHeartbeat(h)
  <2>1. CASE GoTo(h, "promote") /\ handler[h].release # 0
    BY <2>1, GoesOn
  <2> QED BY <1>2, <1>8, <2>1 DEF WriteHeartbeat
<1>9. CASE RepairFollowUps(h)
  <2>1. CASE \E j \in JobsOf({ "INSTALL" }) :
                Continue(h, [ handler[h] EXCEPT !.at = "followUps", !.job = j ])
    <3>1. PICK j \in Jobs : Continue(h, [ handler[h] EXCEPT !.at = "followUps", !.job = j ])
      BY <2>1 DEF JobsOf
    <3>2. handler[h] \in HandlerRows
          /\ handler'[h] = [ handler[h] EXCEPT !.at = "followUps", !.job = j ]
      BY <3>1 DEF Continue, Coherent, TypeOK
    <3>3. /\ handler'[h].key = handler[h].key /\ handler'[h].op = handler[h].op
          /\ handler'[h].next = handler[h].next
          /\ handler'[h].write = handler[h].write /\ handler'[h].release = handler[h].release
          /\ handler'[h].batch = handler[h].batch /\ handler'[h].at = "followUps"
          /\ handler'[h].job = j
      BY <3>2 DEF HandlerRows
    <3>4. handler[h].op = "Heartbeat"
      BY <1>9 DEF RepairFollowUps, Runs
    <3>5. j \in 0 .. created
      BY BoundsAssumption DEF Coherent, TypeOK, Jobs
    <3> QED BY <3>3, <3>4, <3>5, HandlerFields
            DEF CarriesItsJob, Watchdog, Settlers, Day2Requests, Names, HandlerConsistent, Fits
  <2> QED BY <1>1, <1>9, <2>1 DEF RepairFollowUps
<1>10. CASE RequireIdleForDestroy(h) \/ DecideDataDeletion(h)
  <2>1. CASE RemovalReads(h)
    <3>1. created \in Nat /\ handler'[h].job \in 0 .. created
      BY <2>1, HandlerFields, BoundsAssumption DEF RemovalReads
    <3>2. QED  BY <2>1, <3>1, HandlerFields
               DEF RemovalReads, CarriesItsJob, Watchdog, Settlers, Day2Requests, Names,
                   HandlerConsistent, Fits
  <2> QED BY <1>1, <1>10, <2>1, ReadsOfRemoval
<1> QED
  BY <1>10, <1>3, <1>3a, <1>4, <1>5, <1>6, <1>7, <1>8, <1>9 DEF Advance

\* A step is one handler's.
LEMMA OnlyOneMoves ==
    ASSUME Coherent, NEW h \in Handlers, Step(h), NEW g \in Handlers, g # h
    PROVE  handler'[g] = handler[g]
<1>1. ASSUME NEW row, Continue(h, row) PROVE handler'[g] = handler[g]
  BY <1>1 DEF Continue, Coherent, TypeOK
<1>2. Finish(h) => handler'[g] = handler[g]
  BY <1>1 DEF Finish
<1>3. \A step : GoTo(h, step) => handler'[g] = handler[g]
  BY <1>1 DEF GoTo
<1>4. CASE Load(h)
  BY <1>1, <1>4
     DEF Load, LoadDeploy, LoadRollback, LoadRestart, LoadDay2, LoadBulkDeploy,
         LoadConfigUpdate, LoadPurge, LoadDestroy, LoadForceComplete, LoadReset,
         LoadPublicRetry, LoadRetryInstall, LoadRegister, LoadClaim, LoadProgress,
         LoadStuckJob, LoadResult, LoadHeartbeat, LoadReleaseReady
<1>5. CASE Advance(h)
  BY <1>1, <1>2, <1>3, <1>5
     DEF Advance, InsertRequest, InsertDestroy, InsertRetryInstall, InsertRequested,
         MarkJobRequested, RemoveNeverInstalled, CancelObsoleteInstalls,
         RequireIdleForDestroy, DecideDataDeletion, CommitForceComplete, CommitFreshCredential,
         CancelSuperseded, InsertFirstInstall, Enroll, CommitClaim, CommitResult,
         CheckFollowUps, QueueFirstFollowUp, QueueSecondFollowUp, QueueFollowUp,
         RecordFollowUps, WriteHeartbeat, FailUnverifiedInstall, RepairFollowUps,
         RequeueStuckJob, ParkStuckJob, FailStuckJob, CommitReleaseReady,
         ReconcileRunningDigest
<1>6. CASE AtOnce(h) \/ Crash(h)
  BY <1>2, <1>6 DEF AtOnce, Launch, HandBack, SweepRelayLiveness, Crash
<1> QED BY <1>4, <1>5, <1>6 DEF Step

\* Handlers keep carrying what fits.
LEMMA CarriesKept ==
    ASSUME Coherent, \A g \in Handlers : CarriesItsJob(handler[g]), NEW h \in Handlers, Step(h)
    PROVE  \A g \in Handlers : CarriesItsJob(handler[g])'
<1>1. \A j \in Jobs : j \in Jobs' /\ SameRow(j)
  BY RowsKept
<1>2. ASSUME NEW g \in Handlers, handler'[g] = handler[g]
      PROVE  CarriesItsJob(handler[g])'
  BY <1>1, <1>2, HandlerFields, StillFits DEF HandlerConsistent
<1>3. ASSUME NEW g \in Handlers, g # h PROVE handler'[g] = handler[g]
  BY <1>3, OnlyOneMoves
<1>4. CASE Load(h) \/ Advance(h)
  <2>1. Fits(handler'[h])
    <3>1. CASE Advance(h)
      BY <3>1, AdvanceFits
    <3>2. CASE Load(h)
      <4>1. Coherent' /\ UNCHANGED created
        BY <3>2, NextCoherent
           DEF Next, Load, LoadDeploy, LoadRollback, LoadRestart, LoadDay2, LoadBulkDeploy,
               LoadConfigUpdate, LoadPurge, LoadDestroy, LoadForceComplete, LoadReset,
               LoadPublicRetry, LoadRetryInstall, LoadRegister, LoadClaim, LoadProgress,
               LoadStuckJob, LoadResult, LoadHeartbeat, LoadReleaseReady, rows
      <4>2. /\ handler'[h].job <= created /\ handler'[h].job \in Nat
            /\ handler'[h].batch \subseteq Jobs /\ created \in Nat
        BY <4>1, BoundsAssumption
           DEF Coherent, TypeOK, HandlerConsistent, HandlerRows, Jobs
      <4> QED BY <3>2, <4>2, LoadFits DEF Fits, FitsAsRead
    <3> QED BY <1>4, <3>1, <3>2
  <2>2. handler'[h] \in HandlerRows
    BY <1>4, NextCoherent DEF Next, Coherent, TypeOK
  <2> QED BY <1>1, <1>2, <1>3, <2>1, <2>2, StillFits DEF Fits
<1>5. CASE AtOnce(h)
  BY <1>2, <1>3, <1>5 DEF AtOnce, Launch, HandBack, SweepRelayLiveness
<1>6. CASE Crash(h)
  <2>1. handler'[h] = Idle
    BY <1>6 DEF Crash, Finish, Continue, Coherent, TypeOK
  <2>2. created \in Nat
    BY BoundsAssumption DEF Coherent, TypeOK
  <2> QED BY <1>1, <1>2, <1>3, <2>1, <2>2, IdleFits, IdleType, IdleFields, StillFits
<1> QED BY <1>2, <1>3, <1>4, <1>5, <1>6 DEF Step

-----------------------------------------------------------------------------
(* The order of an install's follow-ups. *)

\* A new row is a request's, under the key its handler carries, or a follow-up.
LEMMA Inserted ==
    ASSUME Coherent, NEW h \in Handlers, Step(h), created' # created
    PROVE  \E key, destructive, zeroStart :
              /\ CanInsert(key) /\ InsertJob(key, destructive, zeroStart)
              /\ UNCHANGED << dep, ready, history >>
              /\ \/ /\ At(h, "insert") /\ key = handler[h].key
                    /\ destructive => \/ handler[h].op \in { "Register", "RetryInstall" }
                                      \/ handler[h].op = "Destroy" /\ handler[h].flag
                 \/ At(h, "config") /\ key = FollowUpKey("CONFIG_UPDATE", handler[h].job)
                    /\ ~ destructive
                 \/ At(h, "deploy") /\ key = FollowUpKey("DEPLOY_RELEASE", handler[h].job)
                    /\ ~ destructive
<1>1. CASE Load(h) \/ AtOnce(h) \/ Crash(h)
  BY <1>1
     DEF Load, LoadDeploy, LoadRollback, LoadRestart, LoadDay2, LoadBulkDeploy,
         LoadConfigUpdate, LoadPurge, LoadDestroy, LoadForceComplete, LoadReset,
         LoadPublicRetry, LoadRetryInstall, LoadRegister, LoadClaim, LoadProgress,
         LoadStuckJob, LoadResult, LoadHeartbeat, LoadReleaseReady, rows,
         AtOnce, Launch, HandBack, SweepRelayLiveness, Crash
<1>2. CASE InsertRequest(h) \/ InsertRetryInstall(h)
  BY <1>2 DEF InsertRequest, InsertRetryInstall, InsertRequested, Runs, At
<1>2d. CASE InsertDestroy(h)
  <2>1. PICK flag \in BOOLEAN : flag = handler[h].flag
    BY HandlerFields DEF HandlerRows
  <2>2. flag => handler[h].flag
    BY <2>1
  <2>3. /\ At(h, "insert") /\ handler[h].op = "Destroy"
        /\ CanInsert(handler[h].key) /\ InsertJob(handler[h].key, flag, FALSE)
        /\ UNCHANGED << dep, ready, history >>
    BY <1>2d, <2>1 DEF InsertDestroy, InsertRequested, Runs
  <2> QED BY <2>2, <2>3
<1>3. CASE InsertFirstInstall(h)
  BY <1>3 DEF InsertFirstInstall, Runs, At
<1>4. CASE QueueFirstFollowUp(h) \/ QueueSecondFollowUp(h)
  BY <1>4 DEF QueueFirstFollowUp, QueueSecondFollowUp, QueueFollowUp, FollowUpOrder
<1>5. CASE \/ MarkJobRequested(h) \/ RemoveNeverInstalled(h)
           \/ CancelObsoleteInstalls(h) \/ RequireIdleForDestroy(h)
           \/ DecideDataDeletion(h)
           \/ CommitForceComplete(h) \/ CommitFreshCredential(h) \/ CancelSuperseded(h)
           \/ Enroll(h) \/ CommitClaim(h) \/ CommitResult(h) \/ CheckFollowUps(h)
           \/ RecordFollowUps(h) \/ WriteHeartbeat(h) \/ FailUnverifiedInstall(h)
           \/ ReconcileRunningDigest(h) \/ RepairFollowUps(h)
           \/ RequeueStuckJob(h) \/ ParkStuckJob(h) \/ FailStuckJob(h)
           \/ CommitReleaseReady(h)
  BY <1>5
     DEF MarkJobRequested, RemoveNeverInstalled, CancelObsoleteInstalls,
         RequireIdleForDestroy, DecideDataDeletion, CommitForceComplete, CommitFreshCredential,
         CancelSuperseded, Enroll, CommitClaim, CommitResult, CheckFollowUps,
         RecordFollowUps, WriteHeartbeat, FailUnverifiedInstall, RepairFollowUps,
         RequeueStuckJob, ParkStuckJob, FailStuckJob, CommitReleaseReady,
         ReconcileRunningDigest, rows
<1> QED BY <1>1, <1>2, <1>2d, <1>3, <1>4, <1>5 DEF Step, Advance

\* The new row.
LEMMA NewRow ==
    ASSUME Coherent, NEW key, NEW destructive, NEW zeroStart,
           InsertJob(key, destructive, zeroStart)
    PROVE  /\ created' = created + 1 /\ created \in Nat /\ created' \in Jobs'
           /\ created' \in JobIds
           /\ Jobs' = Jobs \cup { created' } /\ created' \notin Jobs
           /\ jobs'[created'] = [ NoJob EXCEPT !.state = "REQUESTED", !.key = key,
                                               !.destructive = destructive,
                                               !.zeroStart = zeroStart ]
           /\ jobs'[created'].key = key /\ jobs'[created'].state = "REQUESTED"
           /\ jobs'[created'].destructive = destructive
           /\ \A j \in Jobs : jobs'[j] = jobs[j]
<1>1. created \in Nat /\ created + 1 \in JobIds /\ created' = created + 1
  BY BoundsAssumption DEF InsertJob, Coherent, TypeOK, JobIds
<1>2. jobs'[created + 1] = [ NoJob EXCEPT !.state = "REQUESTED", !.key = key,
                                          !.destructive = destructive,
                                          !.zeroStart = zeroStart ]
  BY <1>1 DEF InsertJob, Coherent, TypeOK
<1>3. \A j \in Jobs : jobs'[j] = jobs[j]
  BY <1>1 DEF InsertJob, Coherent, TypeOK, Jobs, JobIds
<1>4. Jobs' = Jobs \cup { created' } /\ created' \notin Jobs
  BY <1>1 DEF Jobs
<1> QED BY <1>1, <1>2, <1>3, <1>4 DEF NoJob

\* Only the first follow-up leads to the second one.
LEMMA OnlyDeploys ==
    ASSUME Coherent, NEW h \in Handlers, Step(h), NEW g \in Handlers,
           handler'[g].at = "deploy"
    PROVE  handler'[g] = handler[g] \/ (g = h /\ QueueFirstFollowUp(h))
<1>1. CASE g # h
  BY <1>1, OnlyOneMoves
<1>2. CASE g = h
  <2>1. ~ Finish(h)
    BY <1>2 DEF Finish, Continue, Idle, Coherent, TypeOK
  <2>2. \A step : step # "deploy" => ~ GoTo(h, step)
    BY <1>2 DEF GoTo, Continue, HandlerRows, Coherent, TypeOK
  <2>3. CASE Load(h)
    BY <1>2, <2>3, LoadFits DEF FitsAsRead, FirstSteps
  <2>4. CASE AtOnce(h) \/ Crash(h)
    BY <1>2, <2>1, <2>4 DEF AtOnce, Launch, HandBack, SweepRelayLiveness, Crash
  <2>5. ~ RepairFollowUps(h)
    <3>1. ASSUME NEW j PROVE ~ Continue(h, [ handler[h] EXCEPT !.at = "followUps", !.job = j ])
      BY <1>2 DEF Continue, HandlerRows, Coherent, TypeOK
    <3> QED BY <2>1, <3>1 DEF RepairFollowUps
  <2>r. ~ RequireIdleForDestroy(h) /\ ~ DecideDataDeletion(h)
    BY <1>2, <2>1, ReadsOfRemoval DEF RemovalReads
  <2>6. CASE Advance(h)
    BY <1>2, <2>1, <2>2, <2>5, <2>r, <2>6
       DEF Advance, InsertRequest, InsertDestroy, InsertRetryInstall, InsertRequested,
           MarkJobRequested, RemoveNeverInstalled, CancelObsoleteInstalls,
           CommitForceComplete, CommitFreshCredential,
           CancelSuperseded, InsertFirstInstall, Enroll, CommitClaim, CommitResult,
           CheckFollowUps, QueueSecondFollowUp, QueueFollowUp,
           RecordFollowUps, WriteHeartbeat, FailUnverifiedInstall,
           RequeueStuckJob, ParkStuckJob, FailStuckJob, CommitReleaseReady,
           ReconcileRunningDigest
  <2> QED BY <2>3, <2>4, <2>6 DEF Step
<1> QED BY <1>1, <1>2

\* The configuration pass stays ahead of the auto-deploy.
LEMMA FollowUpsKept ==
    ASSUME Coherent, \A g \in Handlers : CarriesItsJob(handler[g]), FollowUpsInOrder,
           NEW h \in Handlers, Step(h)
    PROVE  FollowUpsInOrder'
<1>0. SUFFICES ASSUME HasConfig PROVE FollowUpsInOrder'
  BY DEF FollowUpsInOrder, ConfigBeforeAutoDeploy
<1>1. created \in Nat /\ created' \in Nat
  BY NextCoherent, BoundsAssumption DEF Next, Step, Coherent, TypeOK
<1>2. \A j \in Jobs : j \in Jobs' /\ jobs'[j].key = jobs[j].key
  BY RowsKept DEF SameRow
<1>3. \A key : KeyTaken(key) => KeyTaken(key)'
  BY <1>2 DEF KeyTaken
<1>4. ASSUME NEW j \in Jobs, Type(j) = "DEPLOY_RELEASE", jobs[j].key.by = "install"
      PROVE  \E i \in JobsOf({ "CONFIG_UPDATE" })' :
                i < j /\ jobs'[i].key = FollowUpKey("CONFIG_UPDATE", jobs'[j].key.of)
  <2>1. PICK i \in JobsOf({ "CONFIG_UPDATE" }) :
                i < j /\ jobs[i].key = FollowUpKey("CONFIG_UPDATE", jobs[j].key.of)
    BY <1>0, <1>4 DEF FollowUpsInOrder, ConfigBeforeAutoDeploy, JobsOf
  <2> QED BY <2>1, <1>2, <1>4 DEF JobsOf, Type
<1>5. ConfigBeforeAutoDeploy'
  <2>1. CASE created' = created
    <3>1. Jobs' = Jobs
      BY <2>1 DEF Jobs
    <3> QED BY <3>1, <1>2, <1>4 DEF ConfigBeforeAutoDeploy, JobsOf, Type
  <2>2. CASE created' # created
    <3>1. PICK key, destructive, zeroStart :
              /\ InsertJob(key, destructive, zeroStart)
              /\ \/ At(h, "insert") /\ key = handler[h].key
                 \/ key = FollowUpKey("CONFIG_UPDATE", handler[h].job)
                 \/ At(h, "deploy") /\ key = FollowUpKey("DEPLOY_RELEASE", handler[h].job)
      BY <2>2, Inserted
    <3>2. /\ created' = created + 1 /\ Jobs' = Jobs \cup { created' }
          /\ jobs'[created'].key = key
      BY <3>1, NewRow
    <3>3. ASSUME key.type = "DEPLOY_RELEASE", key.by = "install"
          PROVE  \E i \in Jobs : jobs[i].key = FollowUpKey("CONFIG_UPDATE", key.of)
      <4>1. At(h, "deploy") /\ key = FollowUpKey("DEPLOY_RELEASE", handler[h].job)
        BY <3>1, <3>3 DEF CarriesItsJob, FollowUpKey, Key
      <4>2. KeyTaken(FollowUpKey("CONFIG_UPDATE", handler[h].job)) /\ key.of = handler[h].job
        BY <4>1, <1>0 DEF FollowUpsInOrder, At, FollowUpKey, Key
      <4> QED BY <4>2 DEF KeyTaken
    <3>4. ASSUME key.type = "DEPLOY_RELEASE", key.by = "install"
          PROVE  \E i \in JobsOf({ "CONFIG_UPDATE" })' :
                    i < created' /\ jobs'[i].key = FollowUpKey("CONFIG_UPDATE", key.of)
      <4>1. PICK i \in Jobs : jobs[i].key = FollowUpKey("CONFIG_UPDATE", key.of)
        BY <3>3, <3>4
      <4>2. i < created' /\ i \in Jobs' /\ jobs'[i].key = FollowUpKey("CONFIG_UPDATE", key.of)
        BY <4>1, <3>2, <1>1, <1>2 DEF Jobs
      <4>3. Type(i)' = "CONFIG_UPDATE"
        BY <4>2 DEF Type, FollowUpKey, Key
      <4> QED BY <4>2, <4>3 DEF JobsOf
    <3> QED BY <3>2, <3>4, <1>2, <1>4 DEF ConfigBeforeAutoDeploy, JobsOf, Type
  <2> QED BY <2>1, <2>2
<1>6. ASSUME NEW g \in Handlers, handler'[g].at = "deploy"
      PROVE  \E j \in Jobs' : jobs'[j].key = FollowUpKey("CONFIG_UPDATE", handler'[g].job)
  <2>1. CASE handler'[g] = handler[g]
    <3>1. KeyTaken(FollowUpKey("CONFIG_UPDATE", handler[g].job))
      BY <2>1, <1>0, <1>6 DEF FollowUpsInOrder
    <3> QED BY <2>1, <3>1, <1>2 DEF KeyTaken
  <2>2. CASE g = h /\ QueueFirstFollowUp(h)
    <3>1. \/ GoTo(h, "deploy") /\ \E destructive, zeroStart :
                InsertJob(FollowUpKey("CONFIG_UPDATE", handler[h].job), destructive, zeroStart)
          \/ GoTo(h, "deploy") /\ KeyTaken(FollowUpKey("CONFIG_UPDATE", handler[h].job))
          \/ Finish(h)
      BY <2>2, <1>0 DEF QueueFirstFollowUp, QueueFollowUp, FollowUpOrder, PossibleFollowUp
    <3>2. CASE Finish(h)
      BY <2>2, <3>2, <1>6 DEF Finish, Continue, Idle, Coherent, TypeOK
    <3>3. GoTo(h, "deploy") => handler'[h].job = handler[h].job
      BY DEF GoTo, Continue, Coherent, TypeOK, HandlerRows
    <3>4. CASE KeyTaken(FollowUpKey("CONFIG_UPDATE", handler[h].job)) /\ GoTo(h, "deploy")
      BY <2>2, <3>3, <3>4, <1>2 DEF KeyTaken
    <3>5. CASE GoTo(h, "deploy") /\ \E destructive, zeroStart :
                InsertJob(FollowUpKey("CONFIG_UPDATE", handler[h].job), destructive, zeroStart)
      <4>1. PICK destructive, zeroStart :
                InsertJob(FollowUpKey("CONFIG_UPDATE", handler[h].job), destructive, zeroStart)
        BY <3>5
      <4>2. created' \in Jobs' /\ jobs'[created'].key = FollowUpKey("CONFIG_UPDATE", handler[h].job)
        BY <4>1, NewRow
      <4> QED BY <2>2, <3>3, <3>5, <4>2
    <3> QED BY <3>1, <3>2, <3>4, <3>5
  <2>3. handler'[g].at = "deploy" => handler'[g] = handler[g] \/ (g = h /\ QueueFirstFollowUp(h))
    BY OnlyDeploys
  <2> QED BY <1>6, <2>1, <2>2, <2>3
<1> QED BY <1>5, <1>6 DEF FollowUpsInOrder, KeyTaken

-----------------------------------------------------------------------------
(* What polls hand out. *)

\* A handler that goes on keeps its errand; a heartbeat picks the INSTALL to repair.
SameErrand(h) ==
    /\ handler'[h].op = handler[h].op /\ handler'[h].state = handler[h].state
    /\ handler'[h].next = handler[h].next /\ handler'[h].write = handler[h].write
    /\ handler'[h].release = handler[h].release
    /\ handler'[h].flag = handler[h].flag \/ handler[h].op = "Destroy"
    /\ handler'[h].job = handler[h].job \/ handler[h].op \in { "Heartbeat", "Destroy" }

LEMMA AdvanceErrand ==
    ASSUME Coherent, NEW h \in Handlers, Advance(h)
    PROVE  handler'[h] = Idle \/ SameErrand(h)
<1>1. Finish(h) => handler'[h] = Idle
  BY DEF Finish, Continue, Coherent, TypeOK
<1>2. \A step : GoTo(h, step) => SameErrand(h)
  BY DEF GoTo, Continue, HandlerRows, Coherent, TypeOK, SameErrand
<1>3. RepairFollowUps(h) => handler'[h] = Idle \/ SameErrand(h)
  <2>1. ASSUME NEW j, Continue(h, [ handler[h] EXCEPT !.at = "followUps", !.job = j ]),
               handler[h].op = "Heartbeat"
        PROVE  SameErrand(h)
    BY <2>1 DEF Continue, HandlerRows, Coherent, TypeOK, SameErrand
  <2> QED BY <1>1, <2>1 DEF RepairFollowUps, Runs
<1>4. RequireIdleForDestroy(h) \/ DecideDataDeletion(h) => handler'[h] = Idle \/ SameErrand(h)
  BY <1>1, ReadsOfRemoval DEF RemovalReads, SameErrand
<1> QED
  BY <1>1, <1>2, <1>3, <1>4
     DEF Advance, InsertRequest, InsertDestroy, InsertRetryInstall, InsertRequested,
         MarkJobRequested, RemoveNeverInstalled, CancelObsoleteInstalls,
         CommitForceComplete, CommitFreshCredential,
         CancelSuperseded, InsertFirstInstall, Enroll, CommitClaim, CommitResult,
         CheckFollowUps, QueueFirstFollowUp, QueueSecondFollowUp, QueueFollowUp,
         RecordFollowUps, WriteHeartbeat, FailUnverifiedInstall,
         RequeueStuckJob, ParkStuckJob, FailStuckJob, CommitReleaseReady,
         ReconcileRunningDigest

\* A step that reads changes no row.
LEMMA LoadReads ==
    ASSUME NEW h, Load(h)
    PROVE  UNCHANGED rows
BY DEF Load, LoadDeploy, LoadRollback, LoadRestart, LoadDay2, LoadBulkDeploy,
       LoadConfigUpdate, LoadPurge, LoadDestroy, LoadForceComplete, LoadReset,
       LoadPublicRetry, LoadRetryInstall, LoadRegister, LoadClaim, LoadProgress,
       LoadStuckJob, LoadResult, LoadHeartbeat, LoadReleaseReady

\* After a step a handler is as it was, idle, on the same errand, or has just read.
LEMMA Errands ==
    ASSUME Coherent, NEW h \in Handlers, Step(h), NEW g \in Handlers
    PROVE  \/ handler'[g] = handler[g]
           \/ handler'[g] = Idle
           \/ g = h /\ Advance(h) /\ SameErrand(h)
           \/ g = h /\ Load(h) /\ FitsAsRead(handler'[h]) /\ UNCHANGED rows
<1>1. CASE g # h
  BY <1>1, OnlyOneMoves
<1>2. CASE AtOnce(h)
  BY <1>2 DEF AtOnce, Launch, HandBack, SweepRelayLiveness
<1>3. CASE g = h /\ Crash(h)
  BY <1>3 DEF Crash, Finish, Continue, Coherent, TypeOK
<1>4. CASE g = h /\ Advance(h)
  BY <1>4, AdvanceErrand
<1>5. CASE g = h /\ Load(h)
  BY <1>5, LoadFits, LoadReads
<1> QED BY <1>1, <1>2, <1>3, <1>4, <1>5 DEF Step

-----------------------------------------------------------------------------
(* What polls hand out. *)

\* Only a poll's claim makes a job RUNNING.
LEMMA RunsByClaim ==
    ASSUME Coherent, NEW h \in Handlers, CarriesItsJob(handler[h]), Step(h),
           NEW j \in JobIds, jobs'[j].state = "RUNNING", jobs[j].state # "RUNNING"
    PROVE  j \in Claimed(h) /\ CommitClaim(h)
<1>0. ~ UNCHANGED << jobs, created >>
  OBVIOUS
<1>1. ASSUME Inserts PROVE FALSE
  <2>1. PICK key, destructive, zeroStart : InsertJob(key, destructive, zeroStart)
    BY <1>1 DEF Inserts
  <2>2. jobs'[created'].state = "REQUESTED" /\ created' = created + 1
    BY <2>1, NewRow
  <2>3. \A i \in JobIds : i # created + 1 => jobs'[i] = jobs[i]
    BY <2>1 DEF InsertJob, Coherent, TypeOK
  <2> QED BY <2>2, <2>3
<1>2. CASE SettlesItsJob(h)
  <2>1. SetJobState(handler[h].job, handler[h].write) /\ handler[h].write # "RUNNING"
    BY <1>2 DEF SettlesItsJob, SettleJob
  <2> QED BY <2>1 DEF SetJobState, Coherent, TypeOK, JobRows
<1>3. CASE MovesJobs(h)
  BY <1>3 DEF MovesJobs, Moved
<1> QED BY <1>0, <1>1, <1>2, <1>3, Shapes

\* Polls stay alone when no two of them overlap.
LEMMA PollsKept ==
    ASSUME Coherent, \A g \in Handlers : CarriesItsJob(handler[g]),
           ~ OverlappingPolls, PollsAlone, NEW h \in Handlers, Step(h)
    PROVE  PollsAlone'
<1>1. ASSUME NEW g \in Handlers, handler'[g].op = "Claim"
      PROVE  \/ handler[g].op = "Claim"
             \/ /\ g = h /\ Load(h) /\ UNCHANGED rows
                /\ \A f \in Handlers : handler[f].op # "Claim"
                /\ \A j \in JobIds : jobs[j].state # "RUNNING"
  <2>1. handler'[g] # Idle
    BY <1>1 DEF Idle
  <2> QED BY <1>1, <2>1, Errands DEF SameErrand, FitsAsRead, ReadRight
<1>2. ASSUME NEW f \in Handlers, NEW g \in Handlers,
             handler'[f].op = "Claim", handler'[g].op = "Claim"
      PROVE  f = g
  BY <1>1, <1>2 DEF PollsAlone
<1>3. ASSUME NEW g \in Handlers, handler'[g].op = "Claim", NEW j \in JobIds
      PROVE  jobs'[j].state # "RUNNING"
  <2>1. CASE handler[g].op # "Claim"
    BY <1>1, <1>3, <2>1 DEF rows
  <2>2. CASE handler[g].op = "Claim"
    <3>1. jobs[j].state # "RUNNING"
      BY <2>2 DEF PollsAlone
    <3>2. ~ CommitClaim(h)
      <4>1. SUFFICES ASSUME CommitClaim(h) PROVE FALSE
        OBVIOUS
      <4>2. g = h
        BY <2>2, <4>1 DEF CommitClaim, Runs, PollsAlone
      <4> QED BY <1>3, <4>1, <4>2 DEF CommitClaim, Finish, Continue, Idle, Coherent, TypeOK
    <3> QED BY <3>1, <3>2, RunsByClaim
  <2> QED BY <2>1, <2>2
<1> QED BY <1>2, <1>3 DEF PollsAlone

\* A step hands jobs out as MutationsHandedOutAlone says.
LEMMA HandsOutAlone ==
    ASSUME Coherent, NEW h \in Handlers, CarriesItsJob(handler[h]), PollsAlone, Step(h),
           NEW j \in JobIds, HandedOut(j)
    PROVE  /\ \A i \in JobIds : jobs[i].state # "RUNNING"
           /\ Type(j) = "CONFIG_UPDATE" => \A i \in JobIds : i < j => ~ HandedOut(i)
<1>1. j \in handler[h].batch /\ handler[h].op = "Claim"
  BY RunsByClaim DEF HandedOut, Claimed, CommitClaim, Runs
<1>2. ASSUME NEW i \in JobIds, HandedOut(i) PROVE i \in handler[h].batch
  BY <1>2, RunsByClaim DEF HandedOut, Claimed
<1>3. ASSUME Type(j) = "CONFIG_UPDATE", NEW i \in JobIds, i < j, HandedOut(i) PROVE FALSE
  <2>1. j <= i
    BY <1>1, <1>2, <1>3 DEF CarriesItsJob
  <2> QED BY <1>3, <2>1 DEF JobIds
<1> QED BY <1>1, <1>3 DEF PollsAlone

-----------------------------------------------------------------------------
(* What ever succeeded. *)

\* A row that has a state exists.
LEMMA Existing ==
    ASSUME Coherent, NEW j \in JobIds, jobs[j].state # "none"
    PROVE  j \in Jobs
<1>1. created \in Nat /\ j \in Nat /\ j >= 1
  BY BoundsAssumption DEF Coherent, TypeOK, JobIds
<1>2. ~ (j > created)
  BY DEF Coherent, RowsInOrder, NoJob
<1> QED BY <1>1, <1>2 DEF Jobs

\* Rows of jobs are rows of the table.
LEMMA JobFields ==
    ASSUME Coherent
    PROVE  /\ Jobs \subseteq JobIds /\ 0 \notin Jobs /\ created \in Nat
           /\ \A j \in JobIds : jobs[j] \in JobRows
BY BoundsAssumption DEF Coherent, TypeOK, Jobs, JobIds

\* Only a result makes a job SUCCEEDED.
LEMMA SucceedsByResult ==
    ASSUME Coherent, NEW h \in Handlers, CarriesItsJob(handler[h]), Step(h),
           NEW j \in JobIds, jobs'[j].state = "SUCCEEDED", jobs[j].state # "SUCCEEDED"
    PROVE  SettlesItsJob(h) /\ j = handler[h].job /\ handler[h].write = "SUCCEEDED"
<1>0. ~ UNCHANGED << jobs, created >>
  OBVIOUS
<1>1. ASSUME Inserts PROVE FALSE
  <2>1. PICK key, destructive, zeroStart : InsertJob(key, destructive, zeroStart)
    BY <1>1 DEF Inserts
  <2>2. jobs'[created'].state = "REQUESTED" /\ created' = created + 1
    BY <2>1, NewRow
  <2>3. \A i \in JobIds : i # created + 1 => jobs'[i] = jobs[i]
    BY <2>1 DEF InsertJob, Coherent, TypeOK
  <2> QED BY <2>2, <2>3
<1>2. CASE SettlesItsJob(h)
  <2>1. SetJobState(handler[h].job, handler[h].write)
    BY <1>2 DEF SettlesItsJob, SettleJob
  <2>2. j = handler[h].job
    BY <2>1 DEF SetJobState, Coherent, TypeOK
  <2>3. jobs'[j].state = handler[h].write
    BY <2>1, <2>2, JobFields DEF SetJobState, Coherent, TypeOK, JobRows
  <2> QED BY <1>2, <2>2, <2>3
<1>3. ~ MovesJobs(h)
  BY DEF MovesJobs, Moved
<1> QED BY <1>0, <1>1, <1>2, <1>3, Shapes

\* Where nothing revives a job or supersedes an attempt, what succeeded stays so.
LEMMA SuccessStays ==
    ASSUME Coherent, NEW h \in Handlers, CarriesItsJob(handler[h]), Step(h), SettlesForGood,
           NEW j \in Jobs, jobs[j].state = "SUCCEEDED", Type(j) # "DESTROY"
    PROVE  jobs'[j].state = "SUCCEEDED"
<1>0. j \in JobIds /\ ~ Active(j)
  BY JobFields DEF Active, ActiveStates
<1>1. CASE Inserts
  BY <1>1, NewRow DEF Inserts
<1>2. CASE SettlesItsJob(h)
  <2>1. SetJobState(handler[h].job, handler[h].write) /\ handler[h].job # j
    BY <1>0, <1>2 DEF SettlesItsJob, SettleJob
  <2> QED BY <1>0, <2>1 DEF SetJobState, Coherent, TypeOK
<1>3. CASE MovesJobs(h)
  <2>1. handler[h].op \notin { "RetryInstall", "StrandedJobs" }
    BY HandlerFields DEF SettlesForGood, HandlerConsistent
  <2>2. ~ (handler[h].op = "ForceComplete" /\ j = handler[h].job)
    BY DEF CarriesItsJob, Names
  <2>3. j \notin Claimed(h)
    BY DEF Claimed
  <2>4. Moved(h, j)
    BY <1>0, <1>3 DEF MovesJobs
  <2> QED BY <1>0, <2>1, <2>2, <2>3, <2>4 DEF Moved
<1> QED BY <1>1, <1>2, <1>3, Shapes

\* How the history and the release pointer move.
LEMMA HistoryMoves ==
    ASSUME Coherent, NEW h \in Handlers, CarriesItsJob(handler[h]), Step(h)
    PROVE  \/ UNCHANGED history /\ dep'.current = dep.current
           \/ SettlesItsJob(h) /\ dep'.current = dep.current
           \/ /\ ReconcileRunningDigest(h) /\ MayPromote(h) /\ UNCHANGED << jobs, created >>
              /\ dep'.current = handler[h].release /\ dep'.current # 0
              /\ history'.started = TRUE /\ history'.installed = history.installed
<1>d. dep \in DepRows /\ history \in [ installed: BOOLEAN, started: BOOLEAN ]
  BY DEF Coherent, TypeOK
<1>1. CASE Load(h) \/ Crash(h)
  BY <1>1, LoadReads DEF Crash, rows
<1>2. CASE AtOnce(h)
  BY <1>2, <1>d DEF AtOnce, Launch, HandBack, SweepRelayLiveness, DepRows
<1>3. CASE CommitResult(h) \/ FailStuckJob(h)
  <2>1. handler[h].op \in Settlers /\ handler[h].write \in { "SUCCEEDED", "FAILED" }
    BY <1>3, HandlerFields DEF CommitResult, FailStuckJob, Runs, Settlers, HandlerConsistent
  <2>2. UNCHANGED << jobs, created, dep, ready, history >> \/ SettlesItsJob(h)
    BY <1>3, <2>1, SettleIsSettle DEF CommitResult, FailStuckJob
  <2>3. SettlesItsJob(h) => dep'.current = dep.current
    BY <1>d DEF SettlesItsJob, SettleJob, DepRows
  <2> QED BY <2>2, <2>3
<1>4. CASE ReconcileRunningDigest(h)
  <2>1. handler[h].release # 0
    BY <1>4 DEF ReconcileRunningDigest, Runs, At, CarriesItsJob
  <2> QED BY <1>4, <1>d, <2>1 DEF ReconcileRunningDigest, DepRows
<1>5. CASE Advance(h) /\ ~ CommitResult(h) /\ ~ FailStuckJob(h) /\ ~ ReconcileRunningDigest(h)
  <2>1. \/ UNCHANGED << dep, history >>
        \/ MarkJobRequested(h) \/ RemoveNeverInstalled(h) \/ CommitForceComplete(h)
        \/ CommitFreshCredential(h) \/ Enroll(h) \/ WriteHeartbeat(h)
        \/ FailUnverifiedInstall(h) \/ CommitReleaseReady(h)
    BY <1>5
       DEF Advance, InsertRequest, InsertDestroy, InsertRetryInstall, InsertRequested,
           CancelObsoleteInstalls, RequireIdleForDestroy, DecideDataDeletion,
           CancelSuperseded, InsertFirstInstall, CommitClaim,
           CheckFollowUps, QueueFirstFollowUp, QueueSecondFollowUp, QueueFollowUp,
           RecordFollowUps, RepairFollowUps, RequeueStuckJob, ParkStuckJob, rows
  <2> QED
    BY <2>1, <1>d
       DEF DepRows, MarkJobRequested, RemoveNeverInstalled, CommitForceComplete,
           CommitFreshCredential, Enroll, WriteHeartbeat, FailUnverifiedInstall,
           CommitReleaseReady
<1> QED BY <1>1, <1>2, <1>3, <1>4, <1>5 DEF Step

\* Whether a job that succeeded started the application.
Starting(j) ==
    /\ Type(j) \in { "INSTALL", "DEPLOY_RELEASE", "ROLLBACK" }
    /\ Type(j) = "INSTALL" => ~ jobs[j].zeroStart

\* The history stays what the rows say.
LEMMA OutcomesKept ==
    ASSUME Coherent, NEW h \in Handlers, CarriesItsJob(handler[h]), Step(h), OutcomesOnRecord
    PROVE  OutcomesOnRecord'
<1>1. \A j \in Jobs : j \in Jobs' /\ j \in JobIds /\ Type(j)' = Type(j)
                      /\ (Starting(j) <=> Starting(j)')
  BY RowsKept, JobFields DEF SameRow, Type, Starting
<1>2. Coherent'
  BY NextCoherent DEF Next, Step
<1>3. ASSUME NEW j \in Jobs', jobs'[j].state = "SUCCEEDED"
      PROVE  /\ j \in Jobs
             /\ \/ jobs[j].state = "SUCCEEDED"
                \/ /\ SettlesItsJob(h) /\ Type(j) = "INSTALL" => history'.installed
                   /\ SettlesItsJob(h) /\ Starting(j) => history'.started
                   /\ SettlesItsJob(h)
  <2>1. j \in JobIds
    BY <1>2, BoundsAssumption DEF Coherent, TypeOK, Jobs, JobIds
  <2>2. CASE jobs[j].state = "SUCCEEDED"
    BY <2>1, <2>2, Existing
  <2>3. CASE jobs[j].state # "SUCCEEDED"
    <3>1. SettlesItsJob(h) /\ j = handler[h].job /\ handler[h].write = "SUCCEEDED"
      BY <1>3, <2>1, <2>3, SucceedsByResult
    <3>2. SettleJob(j, "SUCCEEDED", handler[h].next) /\ j \in Jobs
      BY <3>1 DEF SettlesItsJob
    <3> QED BY <3>1, <3>2 DEF SettleJob, Starting
  <2> QED BY <2>2, <2>3
<1>4. /\ history.installed => history'.installed
      /\ history.started => history'.started
      /\ dep.current # 0 => dep'.current # 0
      /\ dep'.current # 0 => dep.current # 0 \/ history'.started
  <2>1. ASSUME SettlesItsJob(h)
        PROVE  /\ history.installed => history'.installed
               /\ history.started => history'.started
    <3> DEFINE j == handler[h].job
               success == handler[h].write = "SUCCEEDED"
               started == \/ history.started
                          \/ /\ success
                             /\ \/ Type(j) \in { "DEPLOY_RELEASE", "ROLLBACK" }
                                \/ Type(j) = "INSTALL" /\ ~ jobs[j].zeroStart
               installed == history.installed \/ (success /\ Type(j) = "INSTALL")
    <3>1. history' = [ installed |-> installed, started |-> started ]
      BY <2>1 DEF SettlesItsJob, SettleJob
    <3>2. (history.installed => installed) /\ (history.started => started)
      OBVIOUS
    <3> HIDE DEF installed, started
    <3>3. history'.installed = installed /\ history'.started = started
      BY <3>1
    <3> QED BY <3>2, <3>3
  <2>2. CASE UNCHANGED history /\ dep'.current = dep.current
    BY <2>2
  <2>3. CASE SettlesItsJob(h) /\ dep'.current = dep.current
    BY <2>1, <2>3
  <2> QED BY <2>2, <2>3, HistoryMoves
<1>5. HasSucceededInstall' => history'.installed
  <2>1. SUFFICES ASSUME NEW j \in Jobs', jobs'[j].state = "SUCCEEDED", Type(j)' = "INSTALL"
                 PROVE  history'.installed
    BY DEF HasSucceededInstall, JobsOf
  <2>2. CASE jobs[j].state = "SUCCEEDED"
    BY <2>1, <2>2, <1>1, <1>3, <1>4 DEF OutcomesOnRecord, HasSucceededInstall, JobsOf
  <2>3. CASE jobs[j].state # "SUCCEEDED"
    BY <2>1, <2>3, <1>1, <1>3
  <2> QED BY <2>2, <2>3
<1>6. HasCurrentRelease' => history'.started
  <2>1. HasStartedInstall <=> \E j \in Jobs : Starting(j) /\ jobs[j].state = "SUCCEEDED"
    BY DEF HasStartedInstall, Starting, JobsOf
  <2>2. HasStartedInstall' <=> \E j \in Jobs' : Starting(j)' /\ jobs'[j].state = "SUCCEEDED"
    BY DEF HasStartedInstall, Starting, JobsOf, Type, Jobs
  <2>3. CASE dep'.current # 0
    BY <2>3, <1>4 DEF OutcomesOnRecord, HasCurrentRelease
  <2>4. ASSUME NEW j \in Jobs', Starting(j)', jobs'[j].state = "SUCCEEDED"
        PROVE  history'.started
    <3>1. CASE jobs[j].state = "SUCCEEDED"
      BY <2>1, <2>4, <3>1, <1>1, <1>3, <1>4 DEF OutcomesOnRecord, HasCurrentRelease
    <3>2. CASE jobs[j].state # "SUCCEEDED"
      BY <2>4, <3>2, <1>1, <1>3
    <3> QED BY <3>1, <3>2
  <2> QED BY <2>2, <2>3, <2>4 DEF HasCurrentRelease
<1>7. ASSUME SettlesForGood, history'.installed PROVE HasSucceededInstall'
  <2>1. CASE history.installed
    <3>1. PICK j \in Jobs : Type(j) = "INSTALL" /\ jobs[j].state = "SUCCEEDED"
      BY <2>1, <1>7 DEF OutcomesOnRecord, HasSucceededInstall, JobsOf
    <3>2. jobs'[j].state = "SUCCEEDED"
      BY <3>1, <1>7, SuccessStays
    <3> QED BY <3>1, <3>2, <1>1 DEF HasSucceededInstall, JobsOf
  <2>2. CASE ~ history.installed
    <3>1. SettlesItsJob(h)
      BY <2>2, <1>7, HistoryMoves
    <3>2. handler[h].write = "SUCCEEDED" /\ Type(handler[h].job) = "INSTALL"
          /\ handler[h].job \in Jobs /\ SetJobState(handler[h].job, "SUCCEEDED")
      BY <3>1, <2>2, <1>7 DEF SettlesItsJob, SettleJob
    <3>3. jobs'[handler[h].job].state = "SUCCEEDED"
      BY <3>2, JobFields DEF SetJobState, Coherent, TypeOK, JobRows
    <3> QED BY <3>2, <3>3, <1>1 DEF HasSucceededInstall, JobsOf
  <2> QED BY <2>1, <2>2
<1>8. ASSUME SettlesForGood, history'.started PROVE HasCurrentRelease'
  <2>1. ASSUME NEW j \in Jobs, Starting(j), jobs'[j].state = "SUCCEEDED"
        PROVE  HasCurrentRelease'
    BY <2>1, <1>1 DEF HasCurrentRelease, HasStartedInstall, Starting, JobsOf
  <2>2. CASE history.started
    <3>1. CASE dep.current # 0
      BY <3>1, <1>4 DEF HasCurrentRelease
    <3>2. CASE HasStartedInstall
      <4>1. PICK j \in Jobs : Starting(j) /\ jobs[j].state = "SUCCEEDED"
        BY <3>2 DEF HasStartedInstall, Starting, JobsOf
      <4>2. jobs'[j].state = "SUCCEEDED"
        BY <4>1, <1>8, SuccessStays DEF Starting
      <4> QED BY <2>1, <4>1, <4>2
    <3> QED BY <2>2, <3>1, <3>2, <1>8 DEF OutcomesOnRecord, HasCurrentRelease
  <2>3. CASE ~ history.started /\ SettlesItsJob(h)
    <3>1. handler[h].write = "SUCCEEDED" /\ Starting(handler[h].job)
          /\ handler[h].job \in Jobs /\ SetJobState(handler[h].job, "SUCCEEDED")
      BY <2>3, <1>8 DEF SettlesItsJob, SettleJob, Starting
    <3>2. jobs'[handler[h].job].state = "SUCCEEDED"
      BY <3>1, JobFields DEF SetJobState, Coherent, TypeOK, JobRows
    <3> QED BY <2>1, <3>1, <3>2
  <2>4. CASE ~ history.started /\ ~ SettlesItsJob(h)
    BY <2>4, <1>8, HistoryMoves DEF HasCurrentRelease
  <2> QED BY <2>2, <2>3, <2>4
<1> QED BY <1>5, <1>6, <1>7, <1>8 DEF OutcomesOnRecord

\* Where nothing revives a job, the new active jobs are the inserted ones.
LEMMA ActiveByInsert ==
    ASSUME Coherent, NEW h \in Handlers, CarriesItsJob(handler[h]), Step(h),
           "StrandedJobs" \notin Operations,
           NEW j \in JobIds, Active(j)'
    PROVE  Active(j) \/ (j = created' /\ created' # created)
<1>a. Active(j) <=> jobs[j].state \in ActiveStates
  BY DEF Active
<1>b. jobs'[j].state \in ActiveStates
  BY DEF Active
<1>1. CASE Inserts
  <2>1. PICK key, destructive, zeroStart : InsertJob(key, destructive, zeroStart)
    BY <1>1 DEF Inserts
  <2>2. created' = created + 1 /\ created \in Nat
    BY <2>1, NewRow
  <2>3. \A i \in JobIds : i # created + 1 => jobs'[i] = jobs[i]
    BY <2>1 DEF InsertJob, Coherent, TypeOK
  <2> QED BY <1>a, <1>b, <2>2, <2>3
<1>2. CASE SettlesItsJob(h)
  <2>1. SetJobState(handler[h].job, handler[h].write) /\ handler[h].write \notin ActiveStates
    BY <1>2 DEF SettlesItsJob, SettleJob, ActiveStates
  <2>2. j # handler[h].job
    BY <1>b, <2>1, JobFields DEF SetJobState, Coherent, TypeOK, JobRows
  <2> QED BY <1>a, <1>b, <2>1, <2>2 DEF SetJobState, Coherent, TypeOK
<1>3. CASE MovesJobs(h)
  <2>1. handler[h].op # "StrandedJobs"
    BY HandlerFields DEF HandlerConsistent
  <2> QED BY <1>a, <1>b, <1>3, <2>1 DEF MovesJobs, Moved, Claimed, ActiveStates
<1> QED BY <1>a, <1>b, <1>1, <1>2, <1>3, Shapes

\* Data deletion stays authorised only for what never installed.
LEMMA DeletionKept ==
    ASSUME Coherent, NEW h \in Handlers, CarriesItsJob(handler[h]), Step(h),
           history.installed => HasSucceededInstall,
           Runs(h, { "Destroy" }, "insert") /\ handler[h].flag => ~ HasSucceededInstall,
           \A j \in JobIds : Active(j)' => Active(j) \/ (j = created' /\ created' # created),
           DataDeletionOnlyIfNeverInstalled
    PROVE  DataDeletionOnlyIfNeverInstalled'
<1>1. Coherent'
  BY NextCoherent DEF Next, Step
<1>2. SUFFICES ASSUME NEW j \in Jobs', Type(j)' = "DESTROY", Active(j)',
                      jobs'[j].destructive, history'.installed
               PROVE  FALSE
  BY DEF DataDeletionOnlyIfNeverInstalled, ActiveJobsOf, JobsOf
<1>3. j \in JobIds
  BY <1>1, BoundsAssumption DEF Coherent, TypeOK, Jobs, JobIds
<1>4. CASE Active(j)
  <2>1. j \in Jobs
    BY <1>3, <1>4, Existing DEF Active, ActiveStates
  <2>2. Type(j) = "DESTROY" /\ jobs[j].destructive
    BY <1>2, <2>1, RowsKept DEF SameRow, Type
  <2>3. ~ history.installed
    BY <1>4, <2>1, <2>2 DEF DataDeletionOnlyIfNeverInstalled, ActiveJobsOf, JobsOf
  <2>4. SettlesItsJob(h)
    BY <1>2, <2>3, HistoryMoves
  <2>5. Type(handler[h].job) = "INSTALL" /\ handler[h].job \in Jobs /\ Active(handler[h].job)
    BY <1>2, <2>3, <2>4 DEF SettlesItsJob, SettleJob
  <2> QED
    BY <1>4, <2>1, <2>2, <2>5
       DEF Coherent, OneActiveMutation, ActiveJobsOf, JobsOf, IndexedTypes, JobTypes
<1>5. CASE j = created' /\ created' # created
  <2>1. PICK key, destructive, zeroStart :
              /\ InsertJob(key, destructive, zeroStart)
              /\ UNCHANGED << dep, ready, history >>
              /\ \/ /\ At(h, "insert") /\ key = handler[h].key
                    /\ destructive => \/ handler[h].op \in { "Register", "RetryInstall" }
                                      \/ handler[h].op = "Destroy" /\ handler[h].flag
                 \/ ~ destructive
    BY <1>5, Inserted
  <2>2. jobs'[j].key = key /\ jobs'[j].destructive = destructive
    BY <1>5, <2>1, NewRow
  <2>3. key.type # "INSTALL"
    BY <1>2, <2>2 DEF Type
  <2>4. ~ HasSucceededInstall
    BY <1>2, <2>1, <2>2, <2>3 DEF CarriesItsJob, Runs
  <2> QED BY <1>2, <2>1, <2>4
<1> QED BY <1>2, <1>3, <1>4, <1>5

\* While a day-2 job is active, only its own settling says that something started.
LEMMA StartsByItself ==
    ASSUME Coherent, NEW h \in Handlers, CarriesItsJob(handler[h]), Step(h),
           NEW j \in Jobs, Active(j), Active(j)', Type(j) \in Day2Types
    PROVE  history'.started <=> history.started
<1>1. CASE SettlesItsJob(h)
  <2>1. handler[h].job \in Jobs /\ Active(handler[h].job)
        /\ SetJobState(handler[h].job, handler[h].write) /\ handler[h].write \notin ActiveStates
    BY <1>1 DEF SettlesItsJob, SettleJob, ActiveStates
  <2>2. j # handler[h].job
    BY <2>1, JobFields DEF SetJobState, Coherent, TypeOK, JobRows, Active
  <2>3. Type(handler[h].job) \notin IndexedTypes
    BY <2>1, <2>2
       DEF Coherent, OneActiveMutation, ActiveJobsOf, JobsOf, IndexedTypes, JobTypes, Day2Types
  <2>4. Type(handler[h].job) \notin { "INSTALL", "DEPLOY_RELEASE", "ROLLBACK" }
    BY <2>3 DEF IndexedTypes, JobTypes
  <2> DEFINE started == \/ history.started
                        \/ /\ handler[h].write = "SUCCEEDED"
                           /\ \/ Type(handler[h].job) \in { "DEPLOY_RELEASE", "ROLLBACK" }
                              \/ /\ Type(handler[h].job) = "INSTALL"
                                 /\ ~ jobs[handler[h].job].zeroStart
  <2>5. history'.started = started
    <3>1. PICK installed : history' = [ installed |-> installed, started |-> started ]
      BY <1>1 DEF SettlesItsJob, SettleJob
    <3> HIDE DEF started
    <3> QED BY <3>1
  <2> QED BY <2>4, <2>5
<1>2. ~ MayPromote(h)
  BY DEF MayPromote, ActiveJobsOf, JobsOf, PointerTypes, Day2Types, JobTypes
<1> QED BY <1>1, <1>2, HistoryMoves

\* Only the reads of the destroy route lead it to its decision and to its insert.
LEMMA OnlyRemoves ==
    ASSUME Coherent, NEW h \in Handlers, Step(h),
           handler'[h].op = "Destroy", handler'[h].at \in { "decide", "insert" }
    PROVE  handler'[h] = handler[h] \/ RemovalReads(h)
<1>h. ASSUME NEW row, Continue(h, row) PROVE handler'[h] = row
  BY <1>h DEF Continue, Coherent, TypeOK
<1>1. ~ Finish(h)
  BY <1>h DEF Finish, Idle
<1>2. \A step : GoTo(h, step) => /\ step \in { "decide", "insert" }
                                /\ handler[h].op = "Destroy"
  BY DEF GoTo, Continue, HandlerRows, Coherent, TypeOK
<1>r. handler[h] \in HandlerRows /\ handler'[h].at # "followUps"
  BY HandlerFields
<1>3. ~ RepairFollowUps(h)
  <2>1. ASSUME NEW j PROVE ~ Continue(h, [ handler[h] EXCEPT !.at = "followUps", !.job = j ])
    <3> DEFINE row == [ handler[h] EXCEPT !.at = "followUps", !.job = j ]
    <3>1. row.at = "followUps"
      BY <1>r DEF HandlerRows
    <3> HIDE DEF row
    <3>2. ~ Continue(h, row)
      BY <1>h, <1>r, <3>1
    <3> QED BY <3>2 DEF row
  <2> QED BY <1>1, <2>1 DEF RepairFollowUps
<1>4. ~ Load(h)
  BY LoadFits DEF FitsAsRead, FirstSteps
<1>5. CASE AtOnce(h) \/ Crash(h)
  BY <1>1, <1>5 DEF AtOnce, Launch, HandBack, SweepRelayLiveness, Crash
<1>6. CASE RequireIdleForDestroy(h) \/ DecideDataDeletion(h)
  BY <1>1, <1>6, ReadsOfRemoval
<1>6a. ~ CancelSuperseded(h)
  BY <1>2 DEF CancelSuperseded, Runs
<1>6b. \A step : step \notin { "decide", "insert" } => ~ GoTo(h, step)
  BY <1>2
<1>7. CASE Advance(h) /\ ~ RequireIdleForDestroy(h) /\ ~ DecideDataDeletion(h)
  BY <1>1, <1>3, <1>6a, <1>6b, <1>7
     DEF Advance, InsertRequest, InsertDestroy, InsertRetryInstall, InsertRequested,
         MarkJobRequested, RemoveNeverInstalled, CancelObsoleteInstalls,
         CommitForceComplete, CommitFreshCredential,
         InsertFirstInstall, Enroll, CommitClaim, CommitResult,
         CheckFollowUps, QueueFirstFollowUp, QueueSecondFollowUp, QueueFollowUp,
         FollowUpOrder, RecordFollowUps, WriteHeartbeat, FailUnverifiedInstall,
         RequeueStuckJob, ParkStuckJob, FailStuckJob, CommitReleaseReady,
         ReconcileRunningDigest
<1> QED BY <1>4, <1>5, <1>6, <1>7 DEF Step

\* The INSTALLs a destroy found settled stay settled, and as they were.
LEMMA RemovalsKept ==
    ASSUME Coherent, \A g \in Handlers : CarriesItsJob(handler[g]), NEW h \in Handlers, Step(h),
           SettlesForGood, RemovalsStand
    PROVE  RemovalsStand'
<1>1. SUFFICES ASSUME NEW g \in Handlers, NEW j \in Jobs', jobs'[j].key.type = "INSTALL",
                      handler'[g].op = "Destroy", handler'[g].at \in { "decide", "insert" },
                      j <= handler'[g].job
               PROVE  /\ jobs'[j].state \notin ActiveStates
                      /\ handler'[g].at = "insert" /\ handler'[g].flag
                            => jobs'[j].state # "SUCCEEDED"
  BY DEF RemovalsStand, JobsOf, Type, Active, At
<1>2. CASE handler'[g] = handler[g]
  <2>1. j \in Jobs /\ j \in JobIds /\ created \in Nat
    BY <1>1, <1>2, HandlerFields, JobFields, BoundsAssumption
    DEF Jobs, Coherent, TypeOK
  <2>2. Type(j) = "INSTALL"
    BY <1>1, <2>1, RowsKept DEF SameRow, Type
  <2>3. /\ ~ Active(j)
        /\ handler[g].at = "insert" /\ handler[g].flag => jobs[j].state # "SUCCEEDED"
    BY <1>1, <1>2, <2>1, <2>2 DEF RemovalsStand, JobsOf, At
  <2>4. ~ Active(j)'
    <3>1. created' # created => created' = created + 1
      BY Inserted, NewRow
    <3>2. ~ (j = created' /\ created' # created)
      BY <2>1, <3>1 DEF Jobs
    <3> QED BY <2>1, <2>3, <3>2, ActiveByInsert DEF SettlesForGood
  <2>5. jobs[j].state # "SUCCEEDED" => jobs'[j].state # "SUCCEEDED"
    BY <2>1, <2>3, SucceedsByResult DEF SettlesItsJob
  <2> QED BY <1>2, <2>3, <2>4, <2>5 DEF Active
<1>3. CASE g = h /\ RemovalReads(h)
  <2>1. j \in Jobs /\ jobs' = jobs /\ Type(j) = "INSTALL"
    BY <1>1, <1>3 DEF RemovalReads, rows, Jobs, Type
  <2>2. CASE handler'[h].at = "decide"
    <3>0. DeploymentIdle(handler[h].key) /\ handler[h].op = "Destroy"
      BY <1>3, <2>2 DEF RemovalReads
    <3>0a. handler[h].key.type = "DESTROY"
      BY <3>0 DEF CarriesItsJob
    <3>0b. jobs[j].key # handler[h].key /\ j \in JobsOf(IdleTypes)
      BY <2>1, <3>0a DEF JobsOf, IdleTypes, JobTypes, Type
    <3>1. ~ Active(j)
      BY <3>0, <3>0b DEF DeploymentIdle, ActiveJobsOf
    <3> QED BY <1>3, <2>1, <2>2, <3>1 DEF Active
  <2>3. CASE handler'[h].at = "insert"
    <3>1. /\ handler[h].op = "Destroy" /\ handler[h].at = "decide"
          /\ handler'[h].job = handler[h].job /\ handler'[h].flag = ~ HasSucceededInstall
      BY <1>3, <2>3 DEF RemovalReads
    <3>2. ~ Active(j)
      BY <1>1, <1>3, <2>1, <3>1 DEF RemovalsStand, JobsOf
    <3>3. jobs[j].state = "SUCCEEDED" => HasSucceededInstall
      BY <2>1 DEF HasSucceededInstall, JobsOf
    <3> QED BY <1>3, <2>1, <3>1, <3>2, <3>3 DEF Active
  <2> QED BY <1>1, <1>3, <2>2, <2>3
<1> QED BY <1>1, <1>2, <1>3, OnlyOneMoves, OnlyRemoves

\* A DESTROY is inserted as the removal stands.
LEMMA InsertsAsRead ==
    ASSUME Coherent, NEW h \in Handlers, Step(h), OutcomesOnRecord, SettlesForGood, RemovalsStand,
           NEW g \in Handlers, Runs(g, { "Destroy" }, "insert"), handler'[g] # handler[g],
           created' # created, jobs'[created'].destructive, history.installed
    PROVE  /\ HasSucceededInstall
           /\ \A j \in JobsOf({ "INSTALL" }) : jobs[j].state = "SUCCEEDED" => j > handler[g].job
<1>1. g = h
  BY OnlyOneMoves
<1>2. PICK key, destructive, zeroStart :
            /\ InsertJob(key, destructive, zeroStart)
            /\ destructive => \/ handler[h].op \in { "Register", "RetryInstall" }
                              \/ handler[h].op = "Destroy" /\ handler[h].flag
  BY Inserted
<1>2a. destructive
  <2>1. jobs'[created'].destructive = destructive
    BY <1>2, NewRow
  <2> QED BY <2>1
<1>3. handler[h].flag
  BY <1>1, <1>2, <1>2a DEF Runs
<1>4. ASSUME NEW j \in JobsOf({ "INSTALL" }), jobs[j].state = "SUCCEEDED"
      PROVE  j > handler[g].job
  <2>1. ~ (j <= handler[g].job)
    BY <1>1, <1>3, <1>4 DEF RemovalsStand, Runs, At
  <2>2. j \in Int /\ handler[g].job \in Int
    BY HandlerFields, BoundsAssumption DEF JobsOf, Jobs
  <2> QED BY <2>1, <2>2
<1>5. HasSucceededInstall
  BY DEF OutcomesOnRecord
<1> QED BY <1>4, <1>5

\* A verdict that was right when it was decided is right as long as its job is active.
LEMMA VerdictsKept ==
    ASSUME Coherent, \A g \in Handlers : CarriesItsJob(handler[g]), NEW h \in Handlers, Step(h),
           SettlesForGood, OutcomesOnRecord, VerdictsStand
    PROVE  VerdictsStand'
<1>1. SUFFICES ASSUME NEW g \in Handlers, handler'[g].write = "FAILED",
                      handler'[g].job # 0, Type(handler[g].job)' \in Day2Types,
                      Active(handler[g].job)'
               PROVE  handler'[g].next = "FAILED" <=> ~ history'.started
  BY DEF VerdictsStand, Names
<1>2. CASE handler'[g] = handler[g] \/ (g = h /\ SameErrand(h))
  <2>1. /\ handler'[g].job = handler[g].job /\ handler[g].write = "FAILED"
        /\ handler'[g].next = handler[g].next
    BY <1>1, <1>2 DEF SameErrand, CarriesItsJob
  <2>j. PICK j : j = handler[g].job
    OBVIOUS
  <2>2. j \in Jobs /\ j \in JobIds /\ created \in Nat
    BY <1>1, <2>1, <2>j, HandlerFields, JobFields DEF Jobs
  <2>3. Type(j) \in Day2Types
    BY <1>1, <2>1, <2>2, <2>j, RowsKept DEF SameRow, Type
  <2>4. Active(j)' /\ Active(j)
    <3>1. Active(j)'
      BY <1>1, <2>1, <2>j DEF Active
    <3>2. created' # created => created' = created + 1
      BY Inserted, NewRow
    <3>3. ~ (j = created' /\ created' # created)
      BY <2>2, <3>2 DEF Jobs
    <3> QED BY <2>2, <3>1, <3>3, ActiveByInsert DEF SettlesForGood
  <2>5. history'.started <=> history.started
    BY <2>2, <2>3, <2>4, StartsByItself
  <2>6. handler[g].next = "FAILED" <=> ~ history.started
    BY <1>1, <2>1, <2>j, <2>3, <2>4 DEF VerdictsStand, Names
  <2> QED BY <2>1, <2>5, <2>6
<1>3. CASE FitsAsRead(handler'[h]) /\ g = h /\ UNCHANGED rows
  <2>1. Type(handler'[g].job) \in Day2Types
    BY <1>1, <1>3 DEF rows, Type
  <2>2. handler'[g].next = "FAILED" <=> ~ HasCurrentRelease
    BY <1>1, <1>3, <2>1 DEF FitsAsRead, ReadRight, Names
  <2>3. HasCurrentRelease <=> history.started
    BY DEF OutcomesOnRecord
  <2> QED BY <1>3, <2>2, <2>3 DEF rows
<1>4. handler'[g] # Idle
  BY <1>1 DEF Idle
<1> QED BY <1>2, <1>3, <1>4, Errands

\* A day-2 job fails by its verdict.
LEMMA FailsByVerdict ==
    ASSUME Coherent, NEW h \in Handlers, CarriesItsJob(handler[h]), Step(h),
           NEW j \in JobIds, Active(j), jobs'[j].state = "FAILED"
    PROVE  SettlesItsJob(h) /\ j = handler[h].job /\ handler[h].write = "FAILED"
<1>0. jobs[j].state # "FAILED" /\ ~ UNCHANGED << jobs, created >>
  BY DEF Active, ActiveStates
<1>1. ASSUME Inserts PROVE FALSE
  <2>1. PICK key, destructive, zeroStart : InsertJob(key, destructive, zeroStart)
    BY <1>1 DEF Inserts
  <2>2. jobs'[created'].state = "REQUESTED" /\ created' = created + 1
    BY <2>1, NewRow
  <2>3. \A i \in JobIds : i # created + 1 => jobs'[i] = jobs[i]
    BY <2>1 DEF InsertJob, Coherent, TypeOK
  <2> QED BY <1>0, <2>2, <2>3
<1>2. CASE SettlesItsJob(h)
  <2>1. SetJobState(handler[h].job, handler[h].write)
    BY <1>2 DEF SettlesItsJob, SettleJob
  <2>2. j = handler[h].job
    BY <1>0, <2>1 DEF SetJobState, Coherent, TypeOK
  <2>3. jobs'[j].state = handler[h].write
    BY <2>1, <2>2, JobFields DEF SetJobState, Coherent, TypeOK, JobRows
  <2> QED BY <1>2, <2>2, <2>3
<1>3. ~ MovesJobs(h)
  BY <1>0 DEF MovesJobs, Moved
<1> QED BY <1>0, <1>1, <1>2, <1>3, Shapes

\* What a failed day-2 job does to the deployment.
LEMMA FailureDecides ==
    ASSUME Coherent, NEW h \in Handlers, CarriesItsJob(handler[h]), Step(h), VerdictsStand,
           NEW j \in JobIds, Type(j) \in Day2Types, Active(j), jobs'[j].state = "FAILED"
    PROVE  dep'.state = "FAILED" <=> ~ history.started
<1>1. SettlesItsJob(h) /\ j = handler[h].job /\ handler[h].write = "FAILED" /\ j # 0
  BY FailsByVerdict, JobFields DEF SettlesItsJob
<1>2. handler[h].next # "none" /\ (handler[h].next = "FAILED" <=> ~ history.started)
  BY <1>1 DEF CarriesItsJob, VerdictsStand, Names
<1>3. dep'.state = handler[h].next
  BY <1>1, <1>2 DEF SettlesItsJob, SettleJob, Coherent, TypeOK, DepRows
<1> QED BY <1>2, <1>3

-----------------------------------------------------------------------------
(* What becomes of the deployment's state. *)

\* How a step moves the deployment's state.
LEMMA StateMoves ==
    ASSUME Coherent, NEW h \in Handlers, CarriesItsJob(handler[h]), Step(h),
           dep'.state # dep.state
    PROVE  \/ SettlesItsJob(h) /\ dep'.state = handler[h].next
           \/ /\ WriteHeartbeat(h) /\ handler[h].next = "HEALTHY" /\ dep'.state = "HEALTHY"
           \/ /\ CommitReleaseReady(h) /\ handler[h].flag
              /\ dep'.state = "UPDATE_AVAILABLE"
           \/ ReconcileRunningDigest(h) /\ dep.state = "UPDATE_AVAILABLE"
           \/ /\ MarkJobRequested(h) /\ dep'.state = handler[h].next
              /\ dep'.state \notin { "UPDATE_AVAILABLE", "HEALTHY" }
           \/ Enroll(h) /\ dep'.state = "INSTALLING"
           \/ dep'.state \in { "DELETED", "NOT_INSTALLED", "WAITING_FOR_RELAY", "FAILED" }
<1>d. dep \in DepRows
  BY DEF Coherent, TypeOK
<1>1. CASE Load(h) \/ Crash(h)
  BY <1>1, LoadReads DEF Crash, rows
<1>2. CASE AtOnce(h)
  BY <1>2, <1>d DEF AtOnce, Launch, HandBack, SweepRelayLiveness, DepRows
<1>3. CASE CommitResult(h) \/ FailStuckJob(h)
  <2>1. handler[h].op \in Settlers /\ handler[h].write \in { "SUCCEEDED", "FAILED" }
    BY <1>3, HandlerFields DEF CommitResult, FailStuckJob, Runs, Settlers, HandlerConsistent
  <2>2. UNCHANGED << jobs, created, dep, ready, history >> \/ SettlesItsJob(h)
    BY <1>3, <2>1, SettleIsSettle DEF CommitResult, FailStuckJob
  <2>3. SettlesItsJob(h) => dep'.state = handler[h].next
    BY <1>d DEF SettlesItsJob, SettleJob, DepRows
  <2> QED BY <2>2, <2>3
<1>4. CASE ReconcileRunningDigest(h)
  BY <1>4, <1>d DEF ReconcileRunningDigest, StateAfterPromotion, DepRows
<1>5. CASE MarkJobRequested(h)
  <2>1. dep'.state = handler[h].next
    BY <1>5, <1>d DEF MarkJobRequested, DepRows
  <2>2. handler[h].next \notin { "UPDATE_AVAILABLE", "HEALTHY" }
    BY <1>5 DEF MarkJobRequested, At, CarriesItsJob, RequestOperations, Settlers, Watchdog
  <2> QED BY <1>5, <2>1, <2>2
<1>6. CASE WriteHeartbeat(h)
  BY <1>6, <1>d DEF WriteHeartbeat, Runs, CarriesItsJob, DepRows
<1>7. CASE CommitReleaseReady(h)
  BY <1>7, <1>d DEF CommitReleaseReady, DepRows
<1>8. CASE Enroll(h)
  BY <1>8, <1>d DEF Enroll, DepRows
<1>9. CASE RemoveNeverInstalled(h) \/ CommitForceComplete(h) \/ CommitFreshCredential(h)
           \/ FailUnverifiedInstall(h)
  BY <1>9, <1>d
     DEF RemoveNeverInstalled, CommitForceComplete, CommitFreshCredential,
         FailUnverifiedInstall, DepRows
<1>10. CASE /\ Advance(h) /\ ~ CommitResult(h) /\ ~ FailStuckJob(h)
            /\ ~ ReconcileRunningDigest(h) /\ ~ MarkJobRequested(h) /\ ~ WriteHeartbeat(h)
            /\ ~ CommitReleaseReady(h) /\ ~ Enroll(h) /\ ~ RemoveNeverInstalled(h)
            /\ ~ CommitForceComplete(h) /\ ~ CommitFreshCredential(h)
            /\ ~ FailUnverifiedInstall(h)
  BY <1>10
     DEF Advance, InsertRequest, InsertDestroy, InsertRetryInstall, InsertRequested,
         CancelObsoleteInstalls, RequireIdleForDestroy, DecideDataDeletion, CancelSuperseded,
         InsertFirstInstall, CommitClaim, CheckFollowUps, QueueFirstFollowUp,
         QueueSecondFollowUp, QueueFollowUp, RecordFollowUps, RepairFollowUps,
         RequeueStuckJob, ParkStuckJob, rows
<1> QED
  BY <1>1, <1>2, <1>3, <1>4, <1>5, <1>6, <1>7, <1>8, <1>9, <1>10 DEF Step

\* Releases stay READY.
LEMMA ReadyGrows ==
    ASSUME NEW h, Step(h)
    PROVE  ready \subseteq ready'
<1>1. CASE Load(h) \/ Crash(h) \/ AtOnce(h)
  BY <1>1, LoadReads DEF Crash, rows, AtOnce, Launch, HandBack, SweepRelayLiveness
<1>2. CASE Advance(h)
  BY <1>2
     DEF Advance, InsertRequest, InsertDestroy, InsertRetryInstall, InsertRequested,
         MarkJobRequested, RemoveNeverInstalled, CancelObsoleteInstalls,
         RequireIdleForDestroy, DecideDataDeletion, CommitForceComplete, CommitFreshCredential,
         CancelSuperseded, InsertFirstInstall, Enroll, CommitClaim, CommitResult,
         CheckFollowUps, QueueFirstFollowUp, QueueSecondFollowUp, QueueFollowUp,
         RecordFollowUps, WriteHeartbeat, FailUnverifiedInstall, RepairFollowUps,
         RequeueStuckJob, ParkStuckJob, FailStuckJob, CommitReleaseReady,
         ReconcileRunningDigest, rows
<1> QED BY <1>1, <1>2 DEF Step

\* The release pointer moves only by a promotion, while no job owns it.
LEMMA PointerMoves ==
    ASSUME Coherent, NEW h \in Handlers, CarriesItsJob(handler[h]), Step(h),
           dep'.current # dep.current
    PROVE  /\ ReconcileRunningDigest(h) /\ UNCHANGED << jobs, created >>
           /\ ActiveJobsOf(PointerTypes) = {} /\ "Heartbeat" \in Operations
           /\ dep'.current = handler[h].release
<1>1. ReconcileRunningDigest(h) /\ MayPromote(h) /\ UNCHANGED << jobs, created >>
      /\ dep'.current = handler[h].release
  BY HistoryMoves
<1>2. "Heartbeat" \in Operations
  BY <1>1, HandlerFields DEF ReconcileRunningDigest, Runs, HandlerConsistent
<1> QED BY <1>1, <1>2 DEF MayPromote

\* Announcements stay true.
LEMMA AnnouncementsKept ==
    ASSUME Coherent, \A g \in Handlers : CarriesItsJob(handler[g]), NEW h \in Handlers, Step(h),
           PointerOrReleases, AnnouncementsStand, UpdateAvailableIsTrue
    PROVE  AnnouncementsStand' /\ UpdateAvailableIsTrue'
<1>0. ready \subseteq ready' /\ "StrandedJobs" \notin Operations
  BY ReadyGrows DEF PointerOrReleases
<1>1. ASSUME dep'.current = dep.current, NewerReadyReleaseExists(dep.current)
      PROVE  NewerReadyReleaseExists(dep.current)'
  BY <1>0, <1>1 DEF NewerReadyReleaseExists
<1>2. ASSUME NEW g \in Handlers, handler'[g].next = "UPDATE_AVAILABLE",
             Active(handler[g].job)'
      PROVE  NewerReadyReleaseExists(dep.current)'
  <2>1. CASE handler'[g] = handler[g] \/ (g = h /\ SameErrand(h))
    <3>1. handler'[g].next = handler[g].next /\ handler[g].op \in Settlers
          /\ Names(handler[g], Day2Types)
      BY <1>2, <2>1 DEF SameErrand, CarriesItsJob
    <3>2. handler'[g].job = handler[g].job
      BY <2>1, <3>1 DEF SameErrand, Settlers, Watchdog
    <3>j. PICK j : j = handler[g].job
      OBVIOUS
    <3>3. j \in Jobs /\ j \in JobIds /\ created \in Nat /\ Type(j) \in Day2Types
      BY <3>1, <3>j, HandlerFields, JobFields DEF Jobs, Names
    <3>4. Active(j)' /\ Active(j)
      <4>1. Active(j)'
        BY <1>2, <3>2, <3>j DEF Active
      <4>2. created' # created => created' = created + 1
        BY Inserted, NewRow
      <4>3. ~ (j = created' /\ created' # created)
        BY <3>3, <4>2 DEF Jobs
      <4> QED BY <1>0, <3>3, <4>1, <4>3, ActiveByInsert
    <3>5. dep'.current = dep.current
      BY <3>3, <3>4, PointerMoves
         DEF ActiveJobsOf, JobsOf, PointerTypes, Day2Types, JobTypes
    <3> QED BY <1>1, <1>2, <3>1, <3>4, <3>5, <3>j DEF AnnouncementsStand
  <2>2. CASE FitsAsRead(handler'[h]) /\ g = h /\ UNCHANGED rows
    BY <1>1, <1>2, <2>2 DEF FitsAsRead, ReadRight, rows
  <2>3. handler'[g] # Idle
    BY <1>2 DEF Idle
  <2> QED BY <2>1, <2>2, <2>3, Errands
<1>3. ASSUME NEW g \in Handlers, handler'[g].op = "ReleaseReady", handler'[g].flag
      PROVE  handler'[g].release > dep'.current \/ NewerReadyReleaseExists(dep.current)'
  <2>1. CASE handler'[g] = handler[g] \/ (g = h /\ SameErrand(h))
    <3>1. handler[g].op = "ReleaseReady" /\ handler[g].flag
          /\ handler'[g].release = handler[g].release
      BY <1>3, <2>1 DEF SameErrand
    <3>2. "ReleaseReady" \in Operations
      BY <3>1, HandlerFields DEF HandlerConsistent
    <3>3. dep'.current = dep.current
      BY <3>2, PointerMoves DEF PointerOrReleases
    <3> QED BY <1>1, <3>1, <3>3 DEF AnnouncementsStand
  <2>2. CASE FitsAsRead(handler'[h]) /\ g = h /\ UNCHANGED rows
    BY <1>1, <1>3, <2>2 DEF FitsAsRead, ReadRight, rows
  <2>3. handler'[g] # Idle
    BY <1>3 DEF Idle
  <2> QED BY <2>1, <2>2, <2>3, Errands
<1>4. ASSUME dep'.state = "UPDATE_AVAILABLE" PROVE NewerReadyReleaseExists(dep.current)'
  <2>1. CASE dep'.current # dep.current
    <3>1. ReconcileRunningDigest(h) /\ dep'.current = handler[h].release /\ MayPromote(h)
      BY <2>1, PointerMoves DEF ReconcileRunningDigest
    <3>2. dep'.state = StateAfterPromotion(handler[h].release) /\ ready' = ready
      BY <3>1 DEF ReconcileRunningDigest, Coherent, TypeOK, DepRows
    <3>3. NewerReadyReleaseExists(handler[h].release)
      BY <1>4, <3>2 DEF StateAfterPromotion
    <3> QED BY <3>1, <3>2, <3>3 DEF NewerReadyReleaseExists
  <2>2. CASE dep'.current = dep.current /\ dep.state = "UPDATE_AVAILABLE"
    BY <1>1, <2>2 DEF UpdateAvailableIsTrue
  <2>3. CASE dep'.current = dep.current /\ SettlesItsJob(h) /\ dep'.state = handler[h].next
    BY <1>1, <1>4, <2>3 DEF SettlesItsJob, AnnouncementsStand
  <2>4. CASE dep'.current = dep.current /\ CommitReleaseReady(h) /\ handler[h].flag
    <3>1. handler[h].release > dep.current \/ NewerReadyReleaseExists(dep.current)
      BY <2>4 DEF CommitReleaseReady, Runs, AnnouncementsStand
    <3>2. handler[h].release \in ready'
      BY <2>4 DEF CommitReleaseReady
    <3> QED BY <1>1, <2>4, <3>1, <3>2 DEF NewerReadyReleaseExists
  <2> QED BY <1>4, <2>1, <2>2, <2>3, <2>4, StateMoves
<1> QED BY <1>2, <1>3, <1>4 DEF AnnouncementsStand, UpdateAvailableIsTrue

-----------------------------------------------------------------------------
(* The first install. *)

\* An enrollment lasts where nothing issues a fresh credential.
LEMMA EnrollmentLasts ==
    ASSUME Coherent, NEW h \in Handlers, Step(h), InstallsOnce
    PROVE  dep.enrolled => dep'.enrolled
<1>d. dep \in DepRows
  BY DEF Coherent, TypeOK
<1>1. CASE Load(h) \/ Crash(h)
  BY <1>1, LoadReads DEF Crash, rows
<1>2. CASE AtOnce(h)
  BY <1>2, <1>d DEF AtOnce, Launch, HandBack, SweepRelayLiveness, DepRows
<1>3. ~ CommitFreshCredential(h)
  BY HandlerFields DEF CommitFreshCredential, Runs, InstallsOnce, HandlerConsistent
<1>4. CASE Advance(h)
  <2>1. \/ UNCHANGED dep
        \/ \E state : dep' = [ dep EXCEPT !.state = state ]
        \/ \E state, cleanup : dep' = [ dep EXCEPT !.state = state, !.cleanup = cleanup ]
        \/ \E state, relay : dep' = [ dep EXCEPT !.relay = relay, !.state = state ]
        \/ \E state, current : dep' = [ dep EXCEPT !.current = current, !.state = state ]
        \/ \E state, relay :
              dep' = [ dep EXCEPT !.enrolled = TRUE, !.relay = relay, !.state = state ]
    BY <1>3, <1>4
       DEF Advance, InsertRequest, InsertDestroy, InsertRetryInstall, InsertRequested,
           MarkJobRequested, RemoveNeverInstalled, CancelObsoleteInstalls,
           RequireIdleForDestroy, DecideDataDeletion, CommitForceComplete,
           CancelSuperseded, InsertFirstInstall, Enroll, CommitClaim, CommitResult, SettleJob,
           CheckFollowUps, QueueFirstFollowUp, QueueSecondFollowUp, QueueFollowUp,
           RecordFollowUps, WriteHeartbeat, FailUnverifiedInstall, RepairFollowUps,
           RequeueStuckJob, ParkStuckJob, FailStuckJob, CommitReleaseReady,
           ReconcileRunningDigest, rows
  <2> QED BY <2>1, <1>d DEF DepRows
<1> QED BY <1>1, <1>2, <1>4 DEF Step

\* A relay is CONNECTED by an enrollment or a heartbeat.
LEMMA Connects ==
    ASSUME Coherent, NEW h \in Handlers, Step(h), dep'.relay = "CONNECTED",
           dep.relay # "CONNECTED"
    PROVE  dep'.enrolled \/ handler[h].op = "Heartbeat"
<1>d. dep \in DepRows
  BY DEF Coherent, TypeOK
<1>1. CASE Load(h) \/ Crash(h)
  BY <1>1, LoadReads DEF Crash, rows
<1>2. CASE AtOnce(h)
  BY <1>2, <1>d DEF AtOnce, Launch, HandBack, SweepRelayLiveness, DepRows
<1>3. CASE WriteHeartbeat(h)
  BY <1>3 DEF WriteHeartbeat, Runs
<1>4. CASE Enroll(h)
  BY <1>4, <1>d DEF Enroll, DepRows
<1>5. CASE CommitFreshCredential(h)
  BY <1>5, <1>d DEF CommitFreshCredential, DepRows
<1>6. CASE Advance(h) /\ ~ WriteHeartbeat(h) /\ ~ Enroll(h) /\ ~ CommitFreshCredential(h)
  <2>1. \/ UNCHANGED dep
        \/ MarkJobRequested(h) \/ RemoveNeverInstalled(h) \/ CommitForceComplete(h)
        \/ CommitResult(h) \/ FailUnverifiedInstall(h) \/ FailStuckJob(h)
        \/ CommitReleaseReady(h) \/ ReconcileRunningDigest(h)
    BY <1>6
       DEF Advance, InsertRequest, InsertDestroy, InsertRetryInstall, InsertRequested,
           CancelObsoleteInstalls, RequireIdleForDestroy, DecideDataDeletion,
           CancelSuperseded, InsertFirstInstall, CommitClaim,
           CheckFollowUps, QueueFirstFollowUp, QueueSecondFollowUp, QueueFollowUp,
           RecordFollowUps, RepairFollowUps, RequeueStuckJob, ParkStuckJob, rows
  <2>2. CASE MarkJobRequested(h) \/ RemoveNeverInstalled(h) \/ CommitForceComplete(h)
             \/ FailUnverifiedInstall(h) \/ CommitReleaseReady(h) \/ ReconcileRunningDigest(h)
    BY <2>2, <1>d
       DEF MarkJobRequested, RemoveNeverInstalled, CommitForceComplete,
           FailUnverifiedInstall, CommitReleaseReady, ReconcileRunningDigest, DepRows
  <2>3. CASE CommitResult(h) \/ FailStuckJob(h)
    <3>1. ASSUME NEW j, NEW outcome, NEW next, SettleJob(j, outcome, next)
          PROVE  dep'.relay = dep.relay
      BY <3>1, <1>d DEF SettleJob, DepRows
    <3> QED BY <2>3, <3>1 DEF CommitResult, FailStuckJob
  <2> QED BY <2>1, <2>2, <2>3
<1> QED BY <1>1, <1>2, <1>3, <1>4, <1>5, <1>6 DEF Step

\* Only the insert of the first INSTALL leads a registration on to its enrollment.
LEMMA OnlyEnrolls ==
    ASSUME Coherent, NEW h \in Handlers, Advance(h), handler'[h].at = "enroll"
    PROVE  handler'[h] = handler[h] \/ InsertFirstInstall(h)
<1>1. ~ Finish(h)
  BY DEF Finish, Continue, Idle, Coherent, TypeOK
<1>2. \A step : step # "enroll" => ~ GoTo(h, step)
  BY DEF GoTo, Continue, HandlerRows, Coherent, TypeOK
<1>3. ~ RepairFollowUps(h)
  <2>1. ASSUME NEW j PROVE ~ Continue(h, [ handler[h] EXCEPT !.at = "followUps", !.job = j ])
    BY DEF Continue, HandlerRows, Coherent, TypeOK
  <2> QED BY <1>1, <2>1 DEF RepairFollowUps
<1>4. ~ RequireIdleForDestroy(h) /\ ~ DecideDataDeletion(h)
  BY <1>1, ReadsOfRemoval DEF RemovalReads
<1> QED
  BY <1>1, <1>2, <1>3, <1>4
     DEF Advance, InsertRequest, InsertDestroy, InsertRetryInstall, InsertRequested,
         MarkJobRequested, RemoveNeverInstalled, CancelObsoleteInstalls,
         CommitForceComplete, CommitFreshCredential,
         CancelSuperseded, Enroll, CommitClaim, CommitResult,
         CheckFollowUps, QueueFirstFollowUp, QueueSecondFollowUp, QueueFollowUp,
         FollowUpOrder, RecordFollowUps, WriteHeartbeat, FailUnverifiedInstall,
         RequeueStuckJob, ParkStuckJob, FailStuckJob, CommitReleaseReady,
         ReconcileRunningDigest

\* An INSTALL that is no longer active was settled.
LEMMA InstallEnds ==
    ASSUME Coherent, NEW h \in Handlers, CarriesItsJob(handler[h]), Step(h), InstallsOnce,
           NEW j \in Jobs, Type(j) = "INSTALL", Active(j), ~ Active(j)'
    PROVE  SettlesItsJob(h) /\ j = handler[h].job /\ handler[h].op # "StrandedJobs"
<1>a. jobs[j].state \in ActiveStates /\ jobs'[j].state \notin ActiveStates /\ j \in JobIds
  BY JobFields DEF Active
<1>0. ~ UNCHANGED << jobs, created >>
  BY <1>a
<1>1. ~ Inserts
  BY <1>a, NewRow DEF Inserts
<1>2. handler[h].op \notin { "RetryInstall", "StrandedJobs", "Reset", "PublicRetry", "Destroy" }
  BY HandlerFields DEF InstallsOnce, HandlerConsistent
<1>3. CASE SettlesItsJob(h)
  <2>1. SetJobState(handler[h].job, handler[h].write)
    BY <1>3 DEF SettlesItsJob, SettleJob
  <2> QED BY <1>a, <1>2, <1>3, <2>1 DEF SetJobState, Coherent, TypeOK
<1>4. ASSUME MovesJobs(h) PROVE FALSE
  <2>1. ~ (handler[h].op = "ForceComplete" /\ j = handler[h].job)
    BY DEF CarriesItsJob, Names
  <2>2. Moved(h, j)
    BY <1>a, <1>4 DEF MovesJobs
  <2> QED BY <1>a, <1>2, <2>1, <2>2 DEF Moved, ActiveStates
<1> QED BY <1>0, <1>1, <1>3, <1>4, Shapes

\* A new day-2 job belongs to a relay that enrolled, and finds no active INSTALL.
LEMMA NewDay2 ==
    ASSUME Coherent, NEW h \in Handlers, CarriesItsJob(handler[h]), Step(h), InstallFirst,
           JobsOf(Day2Types) = {}, JobsOf(Day2Types)' # {}
    PROVE  /\ dep.enrolled /\ ActiveJobsOf({ "INSTALL" }) = {}
           /\ UNCHANGED << dep, ready, history >>
<1>1. created' # created
  <2>1. SUFFICES ASSUME created' = created PROVE FALSE
    OBVIOUS
  <2>2. PICK j \in Jobs' : Type(j)' \in Day2Types
    BY DEF JobsOf
  <2>3. j \in Jobs
    BY <2>1, <2>2 DEF Jobs
  <2>4. Type(j) \in Day2Types
    BY <2>2, <2>3, RowsKept DEF SameRow, Type
  <2> QED BY <2>3, <2>4 DEF JobsOf
<1>2. PICK key, destructive, zeroStart :
              /\ CanInsert(key) /\ InsertJob(key, destructive, zeroStart)
              /\ UNCHANGED << dep, ready, history >>
              /\ \/ At(h, "insert") /\ key = handler[h].key
                 \/ At(h, "config") /\ key = FollowUpKey("CONFIG_UPDATE", handler[h].job)
                 \/ At(h, "deploy") /\ key = FollowUpKey("DEPLOY_RELEASE", handler[h].job)
  BY <1>1, Inserted
<1>3. key.type \in Day2Types
  <2>1. PICK j \in Jobs' : Type(j)' \in Day2Types
    BY DEF JobsOf
  <2>2. CASE j \in Jobs
    <3>1. Type(j) \in Day2Types
      BY <2>1, <2>2, RowsKept DEF SameRow, Type
    <3> QED BY <2>2, <3>1 DEF JobsOf
  <2>3. CASE j \notin Jobs
    <3>1. j = created' /\ jobs'[j].key = key
      BY <1>2, <2>1, <2>3, NewRow
    <3> QED BY <2>1, <3>1 DEF Type
  <2> QED BY <2>2, <2>3
<1>4. dep.enrolled
  <2>1. CASE At(h, "insert") /\ key = handler[h].key
    BY <1>3, <2>1 DEF CarriesItsJob, InstallFirst
  <2>2. CASE At(h, "config") /\ key = FollowUpKey("CONFIG_UPDATE", handler[h].job)
    BY <1>3, <2>2 DEF FollowUpKey, Key, Day2Types
  <2>3. CASE At(h, "deploy") /\ key = FollowUpKey("DEPLOY_RELEASE", handler[h].job)
    BY <2>3 DEF At, CarriesItsJob, InstallFirst
  <2> QED BY <1>2, <2>1, <2>2, <2>3
<1>5. ActiveJobsOf(IndexedTypes) = {}
  BY <1>2, <1>3 DEF CanInsert, IndexAllows, Day2Types, IndexedTypes, JobTypes
<1>6. ActiveJobsOf({ "INSTALL" }) = {}
  BY <1>5 DEF ActiveJobsOf, JobsOf, IndexedTypes, JobTypes
<1> QED BY <1>2, <1>4, <1>6

\* INSTALLING comes with the enrollment and lasts until the INSTALL settled.
LEMMA InstallFirstKept ==
    ASSUME Coherent, \A g \in Handlers : CarriesItsJob(handler[g]), OutcomesOnRecord,
           NEW h \in Handlers, Step(h), InstallsOnce, InstallFirst
    PROVE  InstallFirst'
<1>c. Coherent' /\ created' \in Nat /\ (\A j \in Jobs' : j \in JobIds)
  BY NextCoherent, BoundsAssumption DEF Next, Step, Coherent, TypeOK, Jobs, JobIds
<1>e. dep.enrolled => dep'.enrolled
  BY EnrollmentLasts
<1>o. handler[h].op \notin { "RetryInstall", "StrandedJobs", "Reset", "PublicRetry", "Destroy" }
  BY HandlerFields DEF InstallsOnce, HandlerConsistent
<1>t. \A j \in Jobs : j \in Jobs' /\ Type(j)' = Type(j)
  BY RowsKept DEF SameRow, Type
<1>h. history.installed => history'.installed
  <2>1. CASE SettlesItsJob(h)
    <3> DEFINE installed == \/ history.installed
                            \/ handler[h].write = "SUCCEEDED" /\ Type(handler[h].job) = "INSTALL"
    <3>1. PICK started : history' = [ installed |-> installed, started |-> started ]
      BY <2>1 DEF SettlesItsJob, SettleJob
    <3>2. history.installed => installed
      OBVIOUS
    <3> HIDE DEF installed
    <3>3. history'.installed = installed
      BY <3>1
    <3> QED BY <3>2, <3>3
  <2> QED BY <2>1, HistoryMoves
<1>1. ASSUME ~ dep'.enrolled PROVE \A j \in JobsOf({ "INSTALL" })' : Active(j)'
  <2>1. SUFFICES ASSUME NEW j \in Jobs', Type(j)' = "INSTALL" PROVE Active(j)'
    BY DEF JobsOf
  <2>2. CASE j \in Jobs
    <3>1. Type(j) = "INSTALL" /\ Active(j)
      BY <1>1, <1>e, <1>t, <2>1, <2>2 DEF InstallFirst, JobsOf
    <3>2. ~ SettlesItsJob(h)
      BY <1>1, <1>e, <1>o DEF SettlesItsJob, Settlers, Watchdog, InstallFirst
    <3> QED BY <2>2, <3>1, <3>2, InstallEnds
  <2>3. CASE j \notin Jobs
    <3>1. created' # created
      BY <2>1, <2>3 DEF Jobs
    <3>2. PICK key, destructive, zeroStart : InsertJob(key, destructive, zeroStart)
      BY <3>1, Inserted
    <3>3. j = created' /\ jobs'[j].state = "REQUESTED"
      BY <2>1, <2>3, <3>2, NewRow
    <3> QED BY <3>3 DEF Active, ActiveStates
  <2> QED BY <2>2, <2>3
<1>2. ASSUME ~ dep'.enrolled PROVE JobsOf(Day2Types)' = {}
  BY <1>2, <1>e, NewDay2 DEF InstallFirst
<1>3. ASSUME ~ dep'.enrolled PROVE dep'.relay # "CONNECTED"
  BY <1>3, <1>e, Connects DEF InstallFirst
<1>4. ASSUME dep'.state = "INSTALLING", dep.state = "INSTALLING"
      PROVE  /\ dep'.enrolled
             /\ history'.installed \/ ActiveJobsOf({ "INSTALL" })' # {}
             /\ JobsOf(Day2Types)' # {} => history'.installed
  <2>1. dep'.enrolled
    BY <1>4, <1>e DEF InstallFirst
  <2>2. CASE history.installed
    BY <2>1, <2>2, <1>h
  <2>3. CASE ~ history.installed
    <3>1. PICK j \in Jobs : Type(j) = "INSTALL" /\ Active(j)
      BY <1>4, <2>3 DEF InstallFirst, ActiveJobsOf, JobsOf
    <3>2. ASSUME ~ Active(j)' PROVE history'.installed
      <4>1. SettlesItsJob(h) /\ j = handler[h].job
        BY <3>1, <3>2, InstallEnds
      <4>2. CASE handler[h].write = "FAILED"
        <5>1. handler[h].next = "FAILED" /\ j # 0
          BY <3>1, <4>1, <4>2, JobFields DEF CarriesItsJob, Names
        <5>2. dep'.state = "FAILED"
          BY <4>1, <5>1 DEF SettlesItsJob, SettleJob, Coherent, TypeOK, DepRows
        <5> QED BY <1>4, <5>2
      <4>3. CASE handler[h].write = "SUCCEEDED"
        BY <3>1, <4>1, <4>3 DEF SettlesItsJob, SettleJob
      <4> QED BY <4>1, <4>2, <4>3 DEF SettlesItsJob
    <3>3. Active(j)' => ActiveJobsOf({ "INSTALL" })' # {}
      BY <3>1, <1>t DEF ActiveJobsOf, JobsOf
    <3>4. JobsOf(Day2Types)' = {}
      <4>1. JobsOf(Day2Types) = {}
        BY <1>4, <2>3 DEF InstallFirst
      <4> QED BY <3>1, <4>1, NewDay2 DEF ActiveJobsOf, JobsOf
    <3> QED BY <2>1, <3>2, <3>3, <3>4
  <2> QED BY <2>2, <2>3
<1>5. ASSUME dep'.state = "INSTALLING", dep.state # "INSTALLING"
      PROVE  Enroll(h) /\ ~ dep.enrolled /\ dep'.enrolled
  <2>1. ~ (SettlesItsJob(h) /\ handler[h].next = "INSTALLING")
    BY DEF SettlesItsJob, CarriesItsJob, Settlers, Watchdog
  <2>2. ~ (MarkJobRequested(h) /\ handler[h].next = "INSTALLING")
    BY <1>o DEF CarriesItsJob
  <2>3. Enroll(h)
    BY <1>5, <2>1, <2>2, StateMoves DEF ReconcileRunningDigest, StateAfterPromotion,
                                        Coherent, TypeOK, DepRows
  <2> QED BY <1>5, <2>3 DEF Enroll, Coherent, TypeOK, DepRows
<1>6. ASSUME dep'.state = "INSTALLING", dep.state # "INSTALLING"
      PROVE  /\ dep'.enrolled
             /\ ActiveJobsOf({ "INSTALL" })' # {} /\ JobsOf(Day2Types)' = {}
  <2>1. Enroll(h) /\ ~ dep.enrolled /\ dep'.enrolled /\ UNCHANGED << jobs, created >>
    BY <1>5, <1>6 DEF Enroll
  <2>2. handler[h].state \in { "NOT_INSTALLED", "WAITING_FOR_RELAY" }
    BY <1>6, <2>1 DEF Enroll, Coherent, TypeOK, DepRows
  <2>3. JobsOf({ "INSTALL" }) # {}
    BY <2>1, <2>2 DEF Enroll, Runs, At, InstallFirst
  <2>4. ActiveJobsOf({ "INSTALL" }) # {} /\ JobsOf(Day2Types) = {}
    BY <2>1, <2>3 DEF InstallFirst, ActiveJobsOf
  <2> QED BY <2>1, <2>4 DEF ActiveJobsOf, JobsOf, Jobs, Type, Active
<1>7. ASSUME NEW g \in Handlers,
             handler'[g].op \in { "Heartbeat", "Result", "Progress", "StuckJobs" }
                                \cup Day2Requests
      PROVE  dep'.enrolled
  <2>1. CASE handler'[g] = handler[g] \/ (g = h /\ SameErrand(h))
    BY <1>7, <2>1, <1>e DEF SameErrand, InstallFirst
  <2>2. CASE FitsAsRead(handler'[h]) /\ g = h /\ UNCHANGED rows
    <3>1. dep.enrolled
      BY <1>7, <2>2 DEF FitsAsRead, ReadRight, InstallFirst
    <3> QED BY <3>1, <1>e
  <2>3. handler'[g] # Idle
    BY <1>7 DEF Idle, Day2Requests
  <2> QED BY <2>1, <2>2, <2>3, Errands
<1>8. ASSUME NEW g \in Handlers, handler'[g].op = "Register", handler'[g].at = "enroll",
             handler'[g].state \in { "NOT_INSTALLED", "WAITING_FOR_RELAY" }
      PROVE  JobsOf({ "INSTALL" })' # {}
  <2>1. CASE handler'[g] = handler[g]
    BY <1>8, <2>1, <1>t DEF InstallFirst, JobsOf
  <2>2. CASE g = h /\ Advance(h) /\ SameErrand(h) /\ InsertFirstInstall(h)
    <3>1. handler[h].key.type = "INSTALL"
      BY <2>2 DEF InsertFirstInstall, Runs, CarriesItsJob
    <3>2. ~ Finish(h)
      BY <1>8, <2>2 DEF Finish, Continue, Idle, Coherent, TypeOK
    <3>3. CASE KeyTaken(handler[h].key)
      BY <3>1, <3>3, <1>t DEF KeyTaken, JobsOf, Type
    <3>4. CASE InsertJob(handler[h].key, handler[h].flag, StartAfterConfig)
      <4>1. created' \in Jobs' /\ jobs'[created'].key = handler[h].key
        BY <3>4, NewRow
      <4> QED BY <3>1, <4>1 DEF JobsOf, Type
    <3> QED BY <2>2, <3>2, <3>3, <3>4 DEF InsertFirstInstall
  <2>3. CASE g = h /\ FitsAsRead(handler'[h])
    BY <1>8, <2>3 DEF FitsAsRead, ReadRight
  <2>4. handler'[g] # Idle
    BY <1>8 DEF Idle
  <2> QED BY <1>8, <2>1, <2>2, <2>3, <2>4, Errands, OnlyEnrolls
<1>9. ASSUME NEW g \in Handlers, handler'[g].op = "Heartbeat", handler'[g].next = "HEALTHY",
             dep'.state = "INSTALLING"
      PROVE  history'.installed
  <2>1. CASE handler'[g] = handler[g] \/ (g = h /\ SameErrand(h))
    <3>1. handler[g].op = "Heartbeat" /\ handler[g].next = "HEALTHY"
      BY <1>9, <2>1 DEF SameErrand
    <3>2. dep.enrolled
      BY <3>1 DEF InstallFirst
    <3>3. dep.state = "INSTALLING"
      BY <1>5, <1>9, <3>2
    <3> QED BY <3>1, <3>3, <1>h DEF InstallFirst
  <2>2. CASE FitsAsRead(handler'[h]) /\ g = h /\ UNCHANGED rows
    <3>1. dep.state = "FAILED" \/ HasSucceededInstall
      BY <1>9, <2>2 DEF FitsAsRead, ReadRight
    <3>2. HasSucceededInstall
      BY <1>9, <2>2, <3>1 DEF rows
    <3> QED BY <3>2, <1>h DEF OutcomesOnRecord
  <2>3. handler'[g] # Idle
    BY <1>9 DEF Idle
  <2> QED BY <2>1, <2>2, <2>3, Errands
<1> QED
  BY <1>1, <1>2, <1>3, <1>4, <1>6, <1>7, <1>8, <1>9 DEF InstallFirst

\* A deployment leaves INSTALLING for HEALTHY after its INSTALL succeeded.
LEMMA VerifiesInstalled ==
    ASSUME Coherent, NEW h \in Handlers, CarriesItsJob(handler[h]), Step(h), InstallFirst,
           dep.state = "INSTALLING", dep'.state = "HEALTHY"
    PROVE  history.installed
<1>1. CASE SettlesItsJob(h) /\ handler[h].next = "HEALTHY"
  <2>1. handler[h].op # "Heartbeat"
    BY <1>1 DEF SettlesItsJob, Settlers, Watchdog
  <2>2. Type(handler[h].job) \in Day2Types /\ handler[h].job \in Jobs
    BY <1>1, <2>1 DEF SettlesItsJob, CarriesItsJob, Names
  <2> QED BY <2>2 DEF InstallFirst, JobsOf
<1>2. CASE WriteHeartbeat(h) /\ handler[h].next = "HEALTHY"
  BY <1>2 DEF WriteHeartbeat, Runs, InstallFirst
<1> QED BY <1>1, <1>2, StateMoves

-----------------------------------------------------------------------------
(* The inductive invariant. *)

\* It holds in the initial state.
LEMMA InitConsistent ==
    ASSUME Init
    PROVE  Consistent
<1>1. Coherent
  BY InitCoherent
<1>2. /\ jobs = [ j \in JobIds |-> NoJob ] /\ created = 0
      /\ handler = [ h \in Handlers |-> Idle ]
      /\ history = [ installed |-> FALSE, started |-> FALSE ]
      /\ dep.state = "NOT_INSTALLED" /\ ~ dep.enrolled /\ dep.current = 0
      /\ dep.relay = "UNKNOWN"
  BY DEF Init
<1>3. \A types : JobsOf(types) = {}
  BY <1>2 DEF JobsOf, Jobs
<1>4. \A h \in Handlers : handler[h] = Idle
  BY <1>2
<1>5. \A h \in Handlers : CarriesItsJob(handler[h])
  BY <1>4, IdleFits
<1>6. FollowUpsInOrder
  BY <1>3, <1>4 DEF FollowUpsInOrder, ConfigBeforeAutoDeploy, Idle
<1>7. OutcomesOnRecord
  BY <1>2, <1>3 DEF OutcomesOnRecord, HasSucceededInstall, HasCurrentRelease, HasStartedInstall
<1>8. PollsAlone
  BY <1>2, <1>4 DEF PollsAlone, Idle
<1>9. VerdictsStand /\ RemovalsStand
  BY <1>2, <1>3, <1>4 DEF VerdictsStand, RemovalsStand, Idle
<1>10. AnnouncementsStand /\ UpdateAvailableIsTrue
  BY <1>2, <1>4 DEF AnnouncementsStand, UpdateAvailableIsTrue, Idle
<1>11. InstallFirst
  BY <1>2, <1>3, <1>4 DEF InstallFirst, Idle, Day2Requests
<1> QED BY <1>1, <1>5, <1>6, <1>7, <1>8, <1>9, <1>10, <1>11 DEF Consistent

\* Every step of every handler keeps it.
LEMMA StepConsistent ==
    ASSUME Consistent, NEW h \in Handlers, Step(h)
    PROVE  Consistent'
<1>1. Coherent /\ Coherent' /\ \A g \in Handlers : CarriesItsJob(handler[g])
  BY NextCoherent DEF Next, Step, Consistent
<1>2. \A g \in Handlers : CarriesItsJob(handler[g])'
  BY <1>1, CarriesKept
<1>3. FollowUpsInOrder'
  BY <1>1, FollowUpsKept DEF Consistent
<1>4. OutcomesOnRecord'
  BY <1>1, OutcomesKept DEF Consistent
<1>5. ~ OverlappingPolls => PollsAlone'
  BY <1>1, PollsKept DEF Consistent
<1>6. SettlesForGood => VerdictsStand' /\ RemovalsStand'
  BY <1>1, VerdictsKept, RemovalsKept DEF Consistent
<1>7. PointerOrReleases => AnnouncementsStand' /\ UpdateAvailableIsTrue'
  BY <1>1, AnnouncementsKept DEF Consistent
<1>8. InstallsOnce => InstallFirst'
  BY <1>1, InstallFirstKept DEF Consistent
<1>9. /\ SettlesForGood' <=> SettlesForGood
      /\ PointerOrReleases' <=> PointerOrReleases
      /\ InstallsOnce' <=> InstallsOnce
  BY DEF SettlesForGood, PointerOrReleases, InstallsOnce
<1> QED
  BY <1>1, <1>2, <1>3, <1>4, <1>5, <1>6, <1>7, <1>8, <1>9 DEF Consistent

\* A stuttering step changes nothing it speaks about.
LEMMA StutterConsistent ==
    ASSUME Consistent, UNCHANGED vars
    PROVE  Consistent'
<1>1. Coherent'
  BY NextCoherent DEF Consistent
<1>2. /\ dep' = dep /\ jobs' = jobs /\ created' = created /\ ready' = ready
      /\ handler' = handler /\ history' = history
  BY DEF vars
<1> USE <1>2 DEF Consistent
<1>3. \A g \in Handlers : CarriesItsJob(handler[g])'
  BY DEF CarriesItsJob, Names, Type
<1>4. FollowUpsInOrder'
  BY DEF FollowUpsInOrder, ConfigBeforeAutoDeploy, JobsOf, Jobs, Type, KeyTaken
<1>5. OutcomesOnRecord'
  BY DEF OutcomesOnRecord, HasSucceededInstall, HasCurrentRelease, HasStartedInstall,
         JobsOf, Jobs, Type
<1>6. PollsAlone => PollsAlone'
  BY DEF PollsAlone
<1>7. /\ VerdictsStand => VerdictsStand'
      /\ RemovalsStand => RemovalsStand'
  BY DEF VerdictsStand, RemovalsStand, Names, JobsOf, Jobs, Type, Active, At
<1>8. /\ AnnouncementsStand => AnnouncementsStand'
      /\ UpdateAvailableIsTrue => UpdateAvailableIsTrue'
  BY DEF AnnouncementsStand, UpdateAvailableIsTrue, NewerReadyReleaseExists, Active
<1>9. InstallFirst => InstallFirst'
  BY DEF InstallFirst, ActiveJobsOf, JobsOf, Jobs, Type, Active
<1>10. /\ SettlesForGood' <=> SettlesForGood
       /\ PointerOrReleases' <=> PointerOrReleases
       /\ InstallsOnce' <=> InstallsOnce
  BY DEF SettlesForGood, PointerOrReleases, InstallsOnce
<1> QED BY <1>1, <1>3, <1>4, <1>5, <1>6, <1>7, <1>8, <1>9, <1>10

\* Every reachable state is consistent: what a handler carries fits the rows, and
\* what it read is still right where its later step relies on it.
THEOREM Invariance == Spec => []Consistent
<1>1. Init => Consistent
  BY InitConsistent
<1>2. Consistent /\ [Next]_vars => Consistent'
  BY StepConsistent, StutterConsistent DEF Next, Step
<1> QED
  BY <1>1, <1>2, PTL DEF Spec

\* A poll hands out a service mutation only while none is RUNNING, and a
\* CONFIG_UPDATE only ahead of the other mutations of its batch, however inserts,
\* re-offers and parkings interleave with the poll's read and its claim, as long as
\* the relay's polls do not overlap.
THEOREM MutationsHandedOutAloneHolds ==
    ASSUME ~ OverlappingPolls
    PROVE  Spec => MutationsHandedOutAlone
<1>1. ASSUME Consistent, [Next]_vars
      PROVE  [ \A j \in JobIds : HandedOut(j) =>
                 /\ \A i \in JobIds : jobs[i].state # "RUNNING"
                 /\ Type(j) = "CONFIG_UPDATE" => \A i \in JobIds : i < j => ~ HandedOut(i) ]_vars
  BY <1>1, HandsOutAlone DEF Next, Step, Consistent
<1> QED
  BY <1>1, Invariance, PTL DEF Spec, MutationsHandedOutAlone

\* When a DESTROY that may delete data is inserted, no INSTALL has succeeded but one
\* that was requested after the destroy found the deployment idle, however the route's
\* cancellation, its reads and late results interleave: where no retry supersedes an
\* INSTALL by its id alone and no watchdog parks one that has settled.
THEOREM DataDeletionSparesInstallsHolds ==
    ASSUME SettlesForGood
    PROVE  Spec => DataDeletionSparesInstalls
<1>1. ASSUME Consistent, [Next]_vars
      PROVE  [ \A h \in Handlers :
                 /\ Runs(h, { "Destroy" }, "insert") /\ handler'[h] # handler[h]
                 /\ created' # created /\ jobs'[created'].destructive
                 /\ history.installed
                 => /\ HasSucceededInstall
                    /\ \A j \in JobsOf({ "INSTALL" }) :
                          jobs[j].state = "SUCCEEDED" => j > handler[h].job ]_vars
  BY <1>1, InsertsAsRead DEF Next, Step, Consistent
<1> QED
  BY <1>1, Invariance, PTL DEF Spec, DataDeletionSparesInstalls

\* A failed day-2 job makes the deployment FAILED exactly when nothing was ever
\* running in it, although the verdict is written later than what it was read from;
\* under the same condition.
THEOREM FailedUpdateKeepsLiveHolds ==
    ASSUME SettlesForGood
    PROVE  Spec => FailedUpdateKeepsLive
<1>1. ASSUME Consistent, [Next]_vars
      PROVE  [ \A j \in JobIds :
                 Type(j) \in Day2Types /\ Active(j) /\ jobs'[j].state = "FAILED"
                 => (dep'.state = "FAILED" <=> ~ history.started) ]_vars
  BY <1>1, FailureDecides DEF Next, Step, Consistent
<1> QED
  BY <1>1, Invariance, PTL DEF Spec, FailedUpdateKeepsLive

\* The auto-deploy that first starts a zero-task install is never queued ahead of the
\* configuration pass, whichever results, replays and heartbeats queue the two and
\* wherever they are cut off.
THEOREM ConfigBeforeAutoDeployHolds == Spec => []ConfigBeforeAutoDeploy
<1>1. Consistent => ConfigBeforeAutoDeploy
  BY DEF Consistent, FollowUpsInOrder
<1> QED
  BY <1>1, Invariance, PTL

\* An update is announced only while a newer READY release exists, whatever was read
\* before the pointer moved or the release became READY: where heartbeats promote
\* or builds finish, not both, and no settled job is revived.
THEOREM UpdateAvailableIsTrueHolds ==
    ASSUME PointerOrReleases
    PROVE  Spec => []UpdateAvailableIsTrue
<1>1. Consistent => UpdateAvailableIsTrue
  BY DEF Consistent
<1> QED
  BY <1>1, Invariance, PTL

\* A deployment is verified out of INSTALLING only after an INSTALL of its own
\* succeeded, whatever heartbeats, results and the watchdog read before it did:
\* during the first install, that nothing cancels or repeats.
THEOREM VerifiedOnlyAfterInstallHolds ==
    ASSUME InstallsOnce
    PROVE  Spec => VerifiedOnlyAfterInstall
<1>1. ASSUME Consistent, [Next]_vars
      PROVE  [ dep.state = "INSTALLING" /\ dep'.state = "HEALTHY" => history.installed ]_vars
  BY <1>1, VerifiesInstalled DEF Next, Step, Consistent
<1> QED
  BY <1>1, Invariance, PTL DEF Spec, VerifiedOnlyAfterInstall

-----------------------------------------------------------------------------
(* The lifecycle table, while handlers run one after the other. *)

\* Some jobs have a newest one.
LEMMA LatestExists ==
    ASSUME created \in Nat, NEW S, S \subseteq Jobs, S # {}
    PROVE  \E j \in S : IsLatest(j, S)
<1> DEFINE R == { ss \in Nat \X Nat : ss[1] < ss[2] }
           T == { n \in Nat : \E j \in S : n = created - j }
<1>1. IsWellFoundedOn(R, Nat)
  BY NatLessThanWellFounded DEF OpToRel
<1>2. T # {}
  <2>1. PICK j \in S : TRUE
    OBVIOUS
  <2>2. created - j \in Nat
    BY <2>1 DEF Jobs
  <2> QED BY <2>1, <2>2
<1>3. PICK n \in T : \A m \in T : << m, n >> \notin R
  <2>1. T \subseteq Nat
    OBVIOUS
  <2> HIDE DEF T, R
  <2> QED BY <1>1, <1>2, <2>1, WFMin
<1>4. PICK j \in S : n = created - j
  BY <1>3
<1>5. ASSUME NEW i \in S PROVE i <= j
  <2>1. i \in Nat /\ j \in Nat /\ created - i \in Nat /\ created - j \in Nat
    BY DEF Jobs
  <2>2. << created - i, n >> \notin R
    BY <1>3, <2>1
  <2> QED BY <1>4, <2>1, <2>2
<1> QED BY <1>5 DEF IsLatest

\* The rows of one type are counted.
LEMMA Counted ==
    ASSUME Coherent, NEW types
    PROVE  /\ IsFiniteSet(JobsOf(types)) /\ Cardinality(JobsOf(types)) \in Nat
           /\ Cardinality(JobsOf(types)) = 0 <=> JobsOf(types) = {}
<1>1. JobsOf(types) \subseteq Jobs
  BY DEF JobsOf
<1> QED BY <1>1, JobsOfFinite, FS_EmptySet DEF Coherent

\* The mutations that may be active exclude each other.
LEMMA OneBusy ==
    ASSUME Coherent
    PROVE  /\ ~ Busy(IndexedTypes) <=>
                 ~ Busy({ "INSTALL" }) /\ ~ Busy(Day2Types) /\ ~ Busy({ "DESTROY" })
                 /\ ~ Busy({ "PURGE" })
           /\ Busy({ "INSTALL" }) => ~ Busy(Day2Types) /\ ~ Busy({ "DESTROY" }) /\ ~ Busy({ "PURGE" })
           /\ Busy(Day2Types) => ~ Busy({ "DESTROY" }) /\ ~ Busy({ "PURGE" })
           /\ Busy({ "DESTROY" }) => ~ Busy({ "PURGE" })
<1>1. \A i, j \in ActiveJobsOf(IndexedTypes) : i = j
  BY DEF Coherent, OneActiveMutation
<1>2. IndexedTypes = { "INSTALL", "DESTROY", "PURGE" } \cup Day2Types
  BY DEF IndexedTypes, JobTypes, Day2Types
<1>3. "INSTALL" \notin Day2Types /\ "DESTROY" \notin Day2Types /\ "PURGE" \notin Day2Types
  BY DEF Day2Types
<1> QED BY <1>1, <1>2, <1>3 DEF Busy, ActiveJobsOf, JobsOf

\* An active mutation is of one of four kinds.
LEMMA BusyWith ==
    ASSUME Coherent, NEW j \in Jobs, Active(j)
    PROVE  /\ Type(j) \in { "INSTALL", "DESTROY", "PURGE", "CONFIG_UPDATE" } \cup Day2Types
           /\ Type(j) # "CONFIG_UPDATE" => Busy(IndexedTypes)
           /\ \A types : Type(j) \in types => Busy(types)
<1>1. Type(j) \in JobTypes
  BY JobIdsOfJobs DEF Coherent
<1> QED BY <1>1 DEF JobTypes, Day2Types, IndexedTypes, Busy, ActiveJobsOf, JobsOf

\* Nothing is inserted; the active jobs of S end in one state, no other changes
\* between active and settled.
Ended(S, state) ==
    /\ created' = created
    /\ \A j \in Jobs :
          /\ jobs'[j].key = jobs[j].key
          /\ Active(j)' <=> Active(j) /\ j \notin S
          /\ Settled(j)' <=> Settled(j) \/ j \in S
          /\ jobs'[j].state = "SUCCEEDED" <=>
                jobs[j].state = "SUCCEEDED" \/ (j \in S /\ state = "SUCCEEDED")

LEMMA EndedRows ==
    ASSUME Coherent, NumbersInOrder, MutationsInTurn, NEW S, S \subseteq Jobs, NEW state,
           Ended(S, state)
    PROVE  /\ Jobs' = Jobs /\ \A types : JobsOf(types)' = JobsOf(types)
           /\ \A types : ActiveJobsOf(types)' = ActiveJobsOf(types) \ S
           /\ HasSucceededInstall' <=>
                 HasSucceededInstall
                 \/ (state = "SUCCEEDED" /\ \E j \in S : Type(j) = "INSTALL")
           /\ NumbersInOrder' /\ MutationsInTurn'
<1>1. Jobs' = Jobs
  BY DEF Ended, Jobs
<1>2. \A j \in Jobs : Type(j)' = Type(j)
  BY DEF Ended, Type
<1>3. \A types : JobsOf(types)' = JobsOf(types)
  BY <1>1, <1>2 DEF JobsOf
<1>4. \A types : ActiveJobsOf(types)' = ActiveJobsOf(types) \ S
  <2> TAKE types
  <2>1. ActiveJobsOf(types)' = { j \in JobsOf(types)' : Active(j)' }
    BY DEF ActiveJobsOf
  <2>2. \A j \in JobsOf(types) : Active(j)' <=> Active(j) /\ j \notin S
    BY DEF Ended, JobsOf
  <2> QED BY <2>1, <2>2, <1>3 DEF ActiveJobsOf
<1>5. HasSucceededInstall' <=>
         HasSucceededInstall \/ (state = "SUCCEEDED" /\ \E j \in S : Type(j) = "INSTALL")
  BY <1>1, <1>2 DEF Ended, HasSucceededInstall, JobsOf
<1>6. NumbersInOrder'
  <2>1. ASSUME NEW j \in JobsOf({ "INSTALL", "DESTROY" })
        PROVE  /\ Active(j)' \/ Settled(j)'
               /\ jobs'[j].key.by = "request" /\ jobs'[j].key.of = 0
               /\ jobs'[j].key.n < Cardinality(JobsOf({ Type(j) }))'
    <3>1. j \in Jobs /\ Type(j)' = Type(j) /\ jobs'[j].key = jobs[j].key
      BY <1>2 DEF JobsOf, Ended
    <3>2. JobsOf({ Type(j) })' = JobsOf({ Type(j) })
      BY <1>1, <1>2, <3>1 DEF JobsOf
    <3> QED BY <3>1, <3>2 DEF NumbersInOrder, Ended
  <2> QED BY <2>1, <1>3 DEF NumbersInOrder
<1>7. MutationsInTurn'
  BY <1>3 DEF MutationsInTurn, Ended, JobsOf
<1> QED BY <1>1, <1>3, <1>4, <1>5, <1>6, <1>7

\* Nothing becomes active or settles.
LEMMA QuietBusy ==
    ASSUME Coherent, NumbersInOrder, MutationsInTurn, Ended({}, "none")
    PROVE  /\ \A types : (Busy(types)' <=> Busy(types)) /\ JobsOf(types)' = JobsOf(types)
           /\ HasSucceededInstall' <=> HasSucceededInstall
           /\ NumbersInOrder' /\ MutationsInTurn'
<1>1. {} \subseteq Jobs
  OBVIOUS
<1>2. /\ \A types : ActiveJobsOf(types)' = ActiveJobsOf(types) \ {}
      /\ HasSucceededInstall' <=> HasSucceededInstall
      /\ \A types : JobsOf(types)' = JobsOf(types)
      /\ NumbersInOrder' /\ MutationsInTurn'
  BY <1>1, EndedRows
<1>3. \A types : Busy(types)' <=> Busy(types)
  BY <1>2 DEF Busy
<1> QED BY <1>2, <1>3

\* One active job ends: no other mutation was active.
LEMMA EndBusy ==
    ASSUME Coherent, NumbersInOrder, MutationsInTurn, NEW j \in Jobs, Active(j), NEW state,
           Ended({ j }, state)
    PROVE  /\ \A types : JobsOf(types)' = JobsOf(types)
           /\ Type(j) \in IndexedTypes =>
                 ~ Busy({ "INSTALL" })' /\ ~ Busy(Day2Types)' /\ ~ Busy({ "DESTROY" })'
                 /\ ~ Busy({ "PURGE" })'
           /\ \A types : Type(j) \notin types => (Busy(types)' <=> Busy(types))
           /\ HasSucceededInstall' <=>
                 HasSucceededInstall \/ (state = "SUCCEEDED" /\ Type(j) = "INSTALL")
           /\ NumbersInOrder' /\ MutationsInTurn'
<1>s. PICK S : S = { j }
  OBVIOUS
<1>0. S \subseteq Jobs /\ Ended(S, state)
  BY <1>s
<1>r. /\ \A types : ActiveJobsOf(types)' = ActiveJobsOf(types) \ S
      /\ HasSucceededInstall' <=>
            HasSucceededInstall \/ (state = "SUCCEEDED" /\ \E i \in S : Type(i) = "INSTALL")
      /\ \A types : JobsOf(types)' = JobsOf(types)
      /\ NumbersInOrder' /\ MutationsInTurn'
  BY <1>0, EndedRows
<1>1. /\ \A types : ActiveJobsOf(types)' = ActiveJobsOf(types) \ { j }
      /\ HasSucceededInstall' <=>
            HasSucceededInstall \/ (state = "SUCCEEDED" /\ Type(j) = "INSTALL")
      /\ \A types : JobsOf(types)' = JobsOf(types)
      /\ NumbersInOrder' /\ MutationsInTurn'
  BY <1>s, <1>r
<1>2. \A types : Type(j) \notin types => (Busy(types)' <=> Busy(types))
  BY <1>1 DEF Busy, ActiveJobsOf, JobsOf
<1>3. ASSUME Type(j) \in IndexedTypes, NEW types, types \subseteq IndexedTypes
      PROVE  ~ Busy(types)'
  <2>1. \A i \in ActiveJobsOf(types) : i = j
    BY <1>3 DEF Coherent, OneActiveMutation, ActiveJobsOf, JobsOf
  <2> QED BY <1>1, <2>1 DEF Busy
<1>4. { "INSTALL" } \subseteq IndexedTypes /\ Day2Types \subseteq IndexedTypes
      /\ { "DESTROY" } \subseteq IndexedTypes /\ { "PURGE" } \subseteq IndexedTypes
  BY DEF IndexedTypes, JobTypes, Day2Types
<1> QED BY <1>1, <1>2, <1>3, <1>4

\* The active INSTALLs are cancelled.
LEMMA CancelBusy ==
    ASSUME Coherent, NumbersInOrder, MutationsInTurn,
           Ended(ActiveJobsOf({ "INSTALL" }), "CANCELLED")
    PROVE  /\ \A types : JobsOf(types)' = JobsOf(types)
           /\ ~ Busy({ "INSTALL" })'
           /\ \A types : "INSTALL" \notin types => (Busy(types)' <=> Busy(types))
           /\ HasSucceededInstall' <=> HasSucceededInstall
           /\ NumbersInOrder' /\ MutationsInTurn'
<1>0. ActiveJobsOf({ "INSTALL" }) \subseteq Jobs
  BY DEF ActiveJobsOf, JobsOf
<1>1. /\ \A types : ActiveJobsOf(types)' = ActiveJobsOf(types) \ ActiveJobsOf({ "INSTALL" })
      /\ HasSucceededInstall' <=> HasSucceededInstall
      /\ \A types : JobsOf(types)' = JobsOf(types)
      /\ NumbersInOrder' /\ MutationsInTurn'
  BY <1>0, EndedRows
<1>2. \A types : "INSTALL" \notin types => ActiveJobsOf(types)' = ActiveJobsOf(types)
  BY <1>1 DEF ActiveJobsOf, JobsOf
<1> QED BY <1>1, <1>2 DEF Busy

\* A row is inserted.
LEMMA InsertBusy ==
    ASSUME Coherent, NumbersInOrder, MutationsInTurn,
           NEW key \in Keys, NEW destructive, NEW zeroStart,
           CanInsert(key), InsertJob(key, destructive, zeroStart),
           key.type \in { "INSTALL", "DESTROY" } =>
              key.by = "request" /\ key.of = 0 /\ key.n <= Cardinality(JobsOf({ key.type }))
    PROVE  /\ \A types : Busy(types)' <=> Busy(types) \/ key.type \in types
           /\ \A types : JobsOf(types)' # {} => JobsOf(types) # {} \/ key.type \in types
           /\ \A types : key.type \notin types => JobsOf(types)' = JobsOf(types)
           /\ \A type : Cardinality(JobsOf({ type }))' =
                 Cardinality(JobsOf({ type })) + (IF key.type = type THEN 1 ELSE 0)
           /\ HasSucceededInstall' <=> HasSucceededInstall
           /\ key.type \in IndexedTypes =>
                 ~ Busy({ "INSTALL" }) /\ ~ Busy(Day2Types) /\ ~ Busy({ "DESTROY" })
                 /\ ~ Busy({ "PURGE" })
           /\ NumbersInOrder' /\ MutationsInTurn'
<1>n. PICK new : new = created'
  OBVIOUS
<1>1. /\ created \in Nat /\ new = created + 1
      /\ Jobs' = Jobs \cup { new } /\ new \notin Jobs
      /\ jobs'[new].key = key /\ jobs'[new].state = "REQUESTED"
      /\ \A j \in Jobs : jobs'[j] = jobs[j]
  BY <1>n, NewRow
<1>2. /\ Type(new)' = key.type /\ Active(new)'
      /\ \A j \in Jobs : Type(j)' = Type(j) /\ (Active(j)' <=> Active(j))
  BY <1>1 DEF Type, Active, ActiveStates
<1>3. \A types : JobsOf(types)' = JobsOf(types) \cup (IF key.type \in types THEN { new } ELSE {})
  BY <1>1, <1>2 DEF JobsOf
<1>4. \A types : ActiveJobsOf(types)' =
                    ActiveJobsOf(types) \cup (IF key.type \in types THEN { new } ELSE {})
  <2> TAKE types
  <2>1. ActiveJobsOf(types)' = { j \in JobsOf(types)' : Active(j)' }
    BY DEF ActiveJobsOf
  <2>2. \A j \in JobsOf(types) : Active(j)' <=> Active(j)
    BY <1>2 DEF JobsOf
  <2> QED BY <1>2, <1>3, <2>1, <2>2 DEF ActiveJobsOf
<1>5. \A types : Busy(types)' <=> Busy(types) \/ key.type \in types
  BY <1>4 DEF Busy
<1>6. \A type : Cardinality(JobsOf({ type }))' =
                   Cardinality(JobsOf({ type })) + (IF key.type = type THEN 1 ELSE 0)
  <2> TAKE type
  <2>1. IsFiniteSet(JobsOf({ type })) /\ Cardinality(JobsOf({ type })) \in Nat
    BY Counted
  <2>2. new \notin JobsOf({ type })
    BY <1>1 DEF JobsOf
  <2>3. CASE key.type = type
    <3>1. JobsOf({ type })' = JobsOf({ type }) \cup { new }
      BY <1>3, <2>3
    <3> QED BY <2>1, <2>2, <2>3, <3>1, FS_AddElement
  <2>4. CASE key.type # type
    <3>1. JobsOf({ type })' = JobsOf({ type })
      BY <1>3, <2>4
    <3> QED BY <2>1, <2>4, <3>1
  <2> QED BY <2>3, <2>4
<1>7. HasSucceededInstall' <=> HasSucceededInstall
  <2>1. \A j \in JobsOf({ "INSTALL" }) : jobs'[j].state = jobs[j].state
    BY <1>1 DEF JobsOf
  <2> QED BY <1>1, <1>3, <2>1 DEF HasSucceededInstall
<1>8. key.type \in IndexedTypes => ActiveJobsOf(IndexedTypes) = {}
  BY DEF CanInsert, IndexAllows
<1>9. key.type \in IndexedTypes =>
         ~ Busy({ "INSTALL" }) /\ ~ Busy(Day2Types) /\ ~ Busy({ "DESTROY" }) /\ ~ Busy({ "PURGE" })
  BY <1>8, OneBusy DEF Busy
<1>10. NumbersInOrder'
  <2>1. ASSUME NEW j \in JobsOf({ "INSTALL", "DESTROY" })'
        PROVE  /\ Active(j)' \/ Settled(j)'
               /\ jobs'[j].key.by = "request" /\ jobs'[j].key.of = 0
               /\ jobs'[j].key.n < Cardinality(JobsOf({ Type(j) }))'
    <3>1. CASE j = new
      <4>1. key.type \in { "INSTALL", "DESTROY" }
        BY <1>2, <3>1 DEF JobsOf
      <4>2. Cardinality(JobsOf({ key.type }))' = Cardinality(JobsOf({ key.type })) + 1
        BY <1>6
      <4>3. { Type(j) }' = { key.type }
        BY <1>2, <3>1
      <4>4. JobsOf({ Type(j) })' = JobsOf({ key.type })'
        BY <1>1, <1>2, <3>1 DEF JobsOf
      <4>5. key.n \in Nat /\ Cardinality(JobsOf({ key.type })) \in Nat
        BY Counted DEF Keys
      <4> QED BY <1>1, <1>2, <3>1, <4>1, <4>2, <4>4, <4>5
    <3>2. CASE j # new
      <4>1. j \in JobsOf({ "INSTALL", "DESTROY" }) /\ j \in Jobs
        BY <1>3, <3>2 DEF JobsOf
      <4>2. /\ Active(j) \/ Settled(j)
            /\ jobs[j].key.by = "request" /\ jobs[j].key.of = 0
            /\ jobs[j].key.n < Cardinality(JobsOf({ Type(j) }))
        BY <4>1 DEF NumbersInOrder
      <4>3. /\ jobs'[j].key = jobs[j].key
            /\ Active(j) \/ Settled(j) => Active(j)' \/ Settled(j)'
        BY <1>1, <4>1 DEF Active, Settled
      <4>4. PICK type : type = Type(j)
        OBVIOUS
      <4>5. JobsOf({ Type(j) })' = JobsOf({ type })'
        BY <1>2, <4>1, <4>4 DEF JobsOf
      <4>c. Cardinality(JobsOf({ type })) \in Nat
        BY Counted
      <4>d. Cardinality(JobsOf({ type }))' =
               Cardinality(JobsOf({ type })) + (IF key.type = type THEN 1 ELSE 0)
        BY <1>6
      <4>6. Cardinality(JobsOf({ type })) \in Nat
            /\ Cardinality(JobsOf({ type }))' \in { Cardinality(JobsOf({ type })),
                                                    Cardinality(JobsOf({ type })) + 1 }
        BY <4>c, <4>d
      <4>7. jobs[j].key.n \in Nat
        BY <4>1, JobFields DEF JobRows, Keys
      <4> QED BY <4>2, <4>3, <4>4, <4>5, <4>6, <4>7
    <3> QED BY <3>1, <3>2
  <2> QED BY <2>1 DEF NumbersInOrder
<1>11. MutationsInTurn'
  <2>1. ASSUME NEW i \in JobsOf(IndexedTypes)', NEW j \in JobsOf(IndexedTypes)', i < j
        PROVE  ~ Active(i)'
    <3>1. i \in Jobs
      <4>1. i \in Jobs' /\ j \in Jobs'
        BY DEF JobsOf
      <4>2. \A k \in Jobs : k \in Nat /\ k <= created
        BY <1>1 DEF Jobs
      <4> QED BY <1>1, <2>1, <4>1, <4>2
    <3>2. i \in JobsOf(IndexedTypes)
      BY <1>1, <1>3, <3>1
    <3>3. CASE j = new
      <4>1. ActiveJobsOf(IndexedTypes) = {}
        BY <1>2, <1>8, <3>3 DEF JobsOf
      <4> QED BY <1>2, <3>1, <3>2, <4>1 DEF ActiveJobsOf
    <3>4. CASE j # new
      <4>1. j \in JobsOf(IndexedTypes)
        BY <1>3, <3>4
      <4> QED BY <1>2, <2>1, <3>1, <3>2, <4>1 DEF MutationsInTurn
    <3> QED BY <3>3, <3>4
  <2> QED BY <2>1 DEF MutationsInTurn
<1> QED BY <1>3, <1>5, <1>6, <1>7, <1>9, <1>10, <1>11

\* What the statements over jobs do.
LEMMA SameEnds ==
    ASSUME Coherent, UNCHANGED << jobs, created >>
    PROVE  Ended({}, "none")
BY DEF Ended, Active, Settled

LEMMA StayActive ==
    ASSUME Coherent, created' = created,
           \A i \in Jobs : /\ jobs'[i].key = jobs[i].key
                           /\ \/ jobs'[i].state = jobs[i].state
                              \/ Active(i) /\ jobs'[i].state \in ActiveStates
    PROVE  Ended({}, "none")
BY DEF Ended, Active, Settled, ActiveStates, SettledStates

LEMMA SetEnds ==
    ASSUME Coherent, NEW j \in Jobs, Active(j), NEW state \in JobStates,
           SetJobState(j, state), created' = created
    PROVE  /\ state \in ActiveStates => Ended({}, "none")
           /\ state \in SettledStates => Ended({ j }, state)
<1>1. \A i \in Jobs : jobs'[i] = IF i = j THEN [ jobs[j] EXCEPT !.state = state ] ELSE jobs[i]
  BY JobFields DEF SetJobState, Coherent, TypeOK
<1>2. \A i \in Jobs : jobs[i] \in JobRows
  BY JobFields
<1>3. \A i \in Jobs : jobs'[i].key = jobs[i].key
                      /\ jobs'[i].state = IF i = j THEN state ELSE jobs[i].state
  BY <1>1, <1>2 DEF JobRows
<1>4. state \in ActiveStates => Ended({}, "none")
  BY <1>3, StayActive
<1>5. state \in SettledStates => Ended({ j }, state)
  BY <1>3 DEF Ended, Active, Settled, ActiveStates, SettledStates
<1> QED BY <1>4, <1>5

LEMMA CancelEnds ==
    ASSUME Coherent, CancelActiveInstalls, created' = created
    PROVE  Ended(ActiveJobsOf({ "INSTALL" }), "CANCELLED")
<1>1. \A i \in Jobs : jobs'[i] = IF i \in ActiveJobsOf({ "INSTALL" })
                                 THEN [ jobs[i] EXCEPT !.state = "CANCELLED" ] ELSE jobs[i]
  BY JobFields DEF CancelActiveInstalls
<1>2. \A i \in Jobs : /\ jobs'[i].key = jobs[i].key
                      /\ jobs'[i].state = IF i \in ActiveJobsOf({ "INSTALL" })
                                          THEN "CANCELLED" ELSE jobs[i].state
  BY <1>1, JobFields DEF JobRows
<1> QED BY <1>2 DEF Ended, Active, Settled, ActiveStates, SettledStates, ActiveJobsOf

\* The table as the one handler sees it, whose row this is.
RowsFit(row) ==
    /\ InstallsOnRecord
    /\ Busy({ "INSTALL" }) =>
          /\ ~ HasSucceededInstall
          /\ \/ dep.state = "INSTALLING"
             \/ dep.state \in Unstarted /\ row.op = "Register" /\ row.at = "enroll"
             \/ row.op = "RetryInstall" /\ row.at = "mark"
    /\ Busy(Day2Types) => Operable
    /\ Busy({ "DESTROY" }) => dep.state = "DELETING" \/ (row.op = "Destroy" /\ row.at = "mark")
    /\ Busy({ "PURGE" }) => dep.state = "DELETED"
    /\ dep.state = "UPDATING" => Busy(Day2Types)
    /\ dep.state = "DELETING" => Busy({ "DESTROY" })
    /\ dep.state = "INSTALLING" =>
          \/ Busy({ "INSTALL" }) \/ HasSucceededInstall
          \/ row.op = "Destroy" /\ row.at \in { "cancel", "decide", "insert", "mark" }
          \/ row.op = "RetryInstall" /\ row.at = "insert"

LEMMA OneRow ==
    ASSUME OneByOne, NEW h \in Handlers
    PROVE  /\ RowsFit(handler[h]) <=> InstallsOnRecord /\ JobsFitState /\ StateHasItsJob
           /\ RowsFit(handler[h])' <=> (InstallsOnRecord /\ JobsFitState /\ StateHasItsJob)'
<1>1. \A op, step : Doing(op, step) <=> handler[h].op = op /\ handler[h].at = step
  BY DEF OneByOne, Doing, Runs, At
<1>2. \A op, step : Doing(op, step)' <=> handler'[h].op = op /\ handler'[h].at = step
  BY DEF OneByOne, Doing, Runs, At
<1> QED BY <1>1, <1>2 DEF RowsFit, JobsFitState, StateHasItsJob

TableAt(h) ==
    /\ NumbersInOrder /\ MutationsInTurn /\ RowsFit(handler[h])
    /\ RequestStands(handler[h]) /\ ReportStands(handler[h])

\* What an idle handler carries stands in any state.
LEMMA IdleStands == RequestStands(Idle) /\ ReportStands(Idle)
BY DEF Idle, RequestStands, ReportStands, Settlers, Watchdog, Day2Requests

LEMMA IdleStandsNext ==
    ASSUME NEW h \in Handlers, handler'[h] = Idle
    PROVE  RequestStands(handler[h])' /\ ReportStands(handler[h])'
BY DEF Idle, RequestStands, ReportStands, Settlers, Watchdog, Day2Requests

\* The handler's next row.
LEMMA NextRow ==
    ASSUME Coherent, NEW h \in Handlers
    PROVE  /\ Finish(h) => handler'[h] = Idle
           /\ \A row : Continue(h, row) => handler'[h] = row
           /\ \A step : GoTo(h, step) =>
                /\ handler'[h].at = step
                /\ handler'[h].op = handler[h].op /\ handler'[h].state = handler[h].state
                /\ handler'[h].job = handler[h].job /\ handler'[h].seen = handler[h].seen
                /\ handler'[h].key = handler[h].key /\ handler'[h].next = handler[h].next
                /\ handler'[h].write = handler[h].write
BY DEF GoTo, Finish, Continue, HandlerRows, Coherent, TypeOK

\* The deployment row after a write of its state, its enrollment, or neither.
LEMMA DepFields ==
    ASSUME Coherent
    PROVE  /\ dep \in DepRows /\ dep.state \in DepStates /\ dep.enrolled \in BOOLEAN
           /\ history.installed \in BOOLEAN
BY DEF Coherent, TypeOK, DepRows

\* No job that had settled becomes active again.
NoneRevived == \A j \in Jobs : Active(j)' => Active(j)

LEMMA EndedRevives ==
    ASSUME NEW S, NEW state, Ended(S, state)
    PROVE  NoneRevived
BY DEF Ended, NoneRevived

\* What a step starts from.
Before(h) ==
    /\ Coherent /\ OneByOne /\ h \in Handlers
    /\ CarriesItsJob(handler[h]) /\ TableAt(h)

\* A step that ends its handler.
LEMMA EndsWell ==
    ASSUME NEW h, Before(h), Finish(h),
           NumbersInOrder', MutationsInTurn', handler'[h] = Idle => RowsFit(handler[h])'
    PROVE  TableAt(h)'
BY NextRow, IdleStandsNext DEF Before, TableAt

\* The state follows the job that was inserted for it.
LEMMA MarkKeeps ==
    ASSUME NEW h, Before(h), MarkJobRequested(h)
    PROVE  TableAt(h)' /\ NoneRevived
<1>1. Ended({}, "none")
  BY SameEnds DEF MarkJobRequested, Before
<1>2. /\ \A types : (Busy(types)' <=> Busy(types)) /\ JobsOf(types)' = JobsOf(types)
      /\ HasSucceededInstall' <=> HasSucceededInstall
      /\ NumbersInOrder' /\ MutationsInTurn'
  BY <1>1, QuietBusy DEF Before, TableAt
<1>3. /\ dep'.state = handler[h].next /\ dep'.enrolled = dep.enrolled
      /\ history' = history /\ Finish(h)
  BY DepFields DEF MarkJobRequested, Before, DepRows
<1>4. handler[h].at = "mark" /\ handler[h].next # "none"
  BY HandlerFields DEF MarkJobRequested, At, Before, HandlerConsistent
<1>5. ASSUME handler'[h] = Idle PROVE RowsFit(handler[h])'
  <2>0. /\ handler[h].op \in Day2Requests \cup { "Destroy", "RetryInstall" }
        /\ RequestStands(handler[h]) /\ RowsFit(handler[h])
    BY <1>4 DEF Before, TableAt, RequestStands
  <2>1. CASE handler[h].op \in Day2Requests
    <3>1. Busy(Day2Types) /\ handler[h].next = "UPDATING" /\ dep.state \in BulkDeployableStates
      BY <1>4, <2>0, <2>1 DEF RequestStands
    <3>2. ~ Busy({ "INSTALL" }) /\ ~ Busy({ "DESTROY" }) /\ ~ Busy({ "PURGE" })
      BY <3>1, OneBusy DEF Before
    <3> QED
      BY <1>2, <1>3, <2>0, <3>1, <3>2
      DEF RowsFit, InstallsOnRecord, Operable, Serving, Unstarted, BulkDeployableStates
  <2>2. CASE handler[h].op = "Destroy"
    <3>1. Busy({ "DESTROY" }) /\ handler[h].next = "DELETING" /\ dep.state \notin Unstarted
          /\ dep.state # "DELETED"
      BY <1>4, <2>0, <2>2 DEF RequestStands
    <3>2. ~ Busy({ "INSTALL" }) /\ ~ Busy(Day2Types) /\ ~ Busy({ "PURGE" })
      BY <3>1, OneBusy DEF Before
    <3> QED
      BY <1>2, <1>3, <2>0, <3>1, <3>2
      DEF RowsFit, InstallsOnRecord, Operable, Serving, Unstarted
  <2>3. CASE handler[h].op = "RetryInstall"
    <3>1. /\ Busy({ "INSTALL" }) /\ handler[h].next = "INSTALLING" /\ ~ HasSucceededInstall
          /\ dep.state \in { "FAILED", "INSTALLING" }
      BY <1>4, <2>0, <2>3 DEF RequestStands
    <3>2. ~ Busy({ "DESTROY" }) /\ ~ Busy(Day2Types) /\ ~ Busy({ "PURGE" })
      BY <3>1, OneBusy DEF Before
    <3> QED
      BY <1>2, <1>3, <2>0, <3>1, <3>2
      DEF RowsFit, InstallsOnRecord, Operable, Serving, Unstarted
  <2> QED BY <2>0, <2>1, <2>2, <2>3
<1> QED BY <1>1, <1>2, <1>3, <1>5, EndsWell, EndedRevives

\* A deployment that was never installed has no active job.
LEMMA RemoveKeeps ==
    ASSUME NEW h, Before(h), RemoveNeverInstalled(h)
    PROVE  TableAt(h)' /\ NoneRevived
<1>1. Ended({}, "none")
  BY SameEnds DEF RemoveNeverInstalled, Before
<1>2. /\ \A types : (Busy(types)' <=> Busy(types)) /\ JobsOf(types)' = JobsOf(types)
      /\ HasSucceededInstall' <=> HasSucceededInstall
      /\ NumbersInOrder' /\ MutationsInTurn'
  BY <1>1, QuietBusy DEF Before, TableAt
<1>3. /\ dep'.state = "DELETED" /\ dep'.enrolled = dep.enrolled
      /\ history' = history /\ Finish(h)
  BY DepFields DEF RemoveNeverInstalled, Before, DepRows
<1>4. /\ handler[h].op = "Destroy" /\ handler[h].at = "commit" /\ dep.state \in Unstarted
      /\ RowsFit(handler[h])
  BY DEF RemoveNeverInstalled, Runs, At, Before, TableAt, RequestStands
<1>5. RowsFit(handler[h])'
  BY <1>2, <1>3, <1>4 DEF RowsFit, InstallsOnRecord, Operable, Serving, Unstarted
<1> QED BY <1>1, <1>2, <1>3, <1>5, EndsWell, EndedRevives

\* INSTALLING survives the cancellation: the removal goes on from here.
LEMMA CancelObsoleteKeeps ==
    ASSUME NEW h, Before(h), CancelObsoleteInstalls(h)
    PROVE  TableAt(h)' /\ NoneRevived
<1>1. /\ handler[h].op = "Destroy" /\ handler[h].at = "check" /\ GoTo(h, "cancel")
      /\ UNCHANGED << dep, created, ready, history >>
      /\ RowsFit(handler[h]) /\ RequestStands(handler[h])
  BY DEF CancelObsoleteInstalls, Runs, At, Before, TableAt
<1>2. /\ handler'[h].op = "Destroy" /\ handler'[h].at = "cancel"
      /\ handler'[h].key = handler[h].key /\ handler'[h].next = handler[h].next
      /\ handler'[h].write = handler[h].write /\ handler'[h].job = handler[h].job
  BY <1>1, NextRow DEF Before
<1>3. /\ NoneRevived
      /\ \A types : JobsOf(types)' = JobsOf(types)
      /\ Busy({ "INSTALL" })' => Busy({ "INSTALL" })
      /\ \A types : "INSTALL" \notin types => (Busy(types)' <=> Busy(types))
      /\ HasSucceededInstall' <=> HasSucceededInstall
      /\ NumbersInOrder' /\ MutationsInTurn'
  <2>1. CASE CancelActiveInstalls
    <3>1. Ended(ActiveJobsOf({ "INSTALL" }), "CANCELLED")
      BY <1>1, <2>1, CancelEnds DEF Before
    <3> QED BY <3>1, CancelBusy, EndedRevives DEF Before, TableAt
  <2>2. CASE UNCHANGED jobs
    <3>1. Ended({}, "none")
      BY <1>1, <2>2, SameEnds DEF Before
    <3> QED BY <3>1, QuietBusy, EndedRevives DEF Before, TableAt
  <2> QED BY <2>1, <2>2 DEF CancelObsoleteInstalls
<1>4. "INSTALL" \notin Day2Types
  BY DEF Day2Types
<1>5. RowsFit(handler[h])'
  BY <1>1, <1>2, <1>3, <1>4 DEF RowsFit, InstallsOnRecord, Operable
<1>6. RequestStands(handler[h])'
  BY <1>1, <1>2, <1>3 DEF RequestStands, Day2Requests, NextNumber
<1>7. ReportStands(handler[h])'
  BY <1>2 DEF ReportStands, Settlers, Watchdog
<1> QED BY <1>3, <1>5, <1>6, <1>7 DEF TableAt

\* A removal that is refused leaves INSTALLING with its INSTALL.
LEMMA RequireIdleKeeps ==
    ASSUME NEW h, Before(h), RequireIdleForDestroy(h)
    PROVE  TableAt(h)' /\ NoneRevived
<1>1. /\ handler[h].op = "Destroy" /\ handler[h].at = "cancel"
      /\ UNCHANGED << dep, jobs, created, ready, history >>
      /\ RowsFit(handler[h]) /\ RequestStands(handler[h])
  BY DEF RequireIdleForDestroy, DecideDataDeletion, Runs, At, Before, TableAt, rows
<1>2. Ended({}, "none")
  BY <1>1, SameEnds DEF Before
<1>3. /\ \A types : (Busy(types)' <=> Busy(types)) /\ JobsOf(types)' = JobsOf(types)
      /\ HasSucceededInstall' <=> HasSucceededInstall
      /\ NumbersInOrder' /\ MutationsInTurn'
  BY <1>2, QuietBusy DEF Before, TableAt
<1>4. CASE RemovalReads(h)
  <2>1. /\ handler'[h].op = "Destroy" /\ handler'[h].at = "decide"
        /\ handler'[h].key = handler[h].key /\ handler'[h].next = handler[h].next
    BY <1>1, <1>4 DEF RemovalReads
  <2>2. RowsFit(handler[h])'
    BY <1>1, <1>3, <2>1 DEF RowsFit, InstallsOnRecord, Operable
  <2>3. RequestStands(handler[h])'
    BY <1>1, <1>3, <2>1 DEF RequestStands, Day2Requests, NextNumber
  <2>4. ReportStands(handler[h])'
    BY <2>1 DEF ReportStands, Settlers, Watchdog
  <2> QED BY <1>2, <1>3, <2>2, <2>3, <2>4, EndedRevives DEF TableAt
<1>5. CASE ~ DeploymentIdle(handler[h].key) /\ Finish(h)
  <2>1. PICK j \in Jobs : Active(j) /\ Type(j) # "PURGE"
    BY <1>5 DEF DeploymentIdle, ActiveJobsOf, JobsOf, IdleTypes
  <2>2. /\ Type(j) \in { "INSTALL", "DESTROY", "PURGE", "CONFIG_UPDATE" } \cup Day2Types
        /\ \A types : Type(j) \in types => Busy(types)
    BY <2>1, BusyWith DEF Before
  <2>3. Type(j) = "CONFIG_UPDATE" => JobsOf({ "CONFIG_UPDATE" }) # {}
    BY DEF JobsOf
  <2>4. dep.state = "INSTALLING" => Busy({ "INSTALL" }) \/ HasSucceededInstall
    BY <1>1, <2>1, <2>2, <2>3
       DEF RowsFit, InstallsOnRecord, Operable, Serving
  <2>5. handler'[h] = Idle
    BY <1>5, NextRow DEF Before
  <2>6. RowsFit(handler[h])'
    BY <1>1, <1>3, <2>4, <2>5 DEF RowsFit, InstallsOnRecord, Operable
  <2> QED BY <1>2, <1>3, <1>5, <2>6, EndsWell, EndedRevives
<1> QED BY <1>4, <1>5, ReadsOfRemoval DEF RequireIdleForDestroy, Before, RemovalReads

\* What it reads of the installs stands at its insert.
LEMMA DecideKeeps ==
    ASSUME NEW h, Before(h), DecideDataDeletion(h)
    PROVE  TableAt(h)' /\ NoneRevived
<1>1. /\ handler[h].op = "Destroy" /\ handler[h].at = "decide"
      /\ UNCHANGED << dep, jobs, created, ready, history >>
      /\ RowsFit(handler[h]) /\ RequestStands(handler[h])
  BY DEF DecideDataDeletion, Runs, At, Before, TableAt, rows
<1>2. Ended({}, "none")
  BY <1>1, SameEnds DEF Before
<1>3. /\ \A types : (Busy(types)' <=> Busy(types)) /\ JobsOf(types)' = JobsOf(types)
      /\ HasSucceededInstall' <=> HasSucceededInstall
      /\ NumbersInOrder' /\ MutationsInTurn'
  BY <1>2, QuietBusy DEF Before, TableAt
<1>4. /\ handler'[h].op = "Destroy" /\ handler'[h].at = "insert"
      /\ handler'[h].key = handler[h].key /\ handler'[h].next = handler[h].next
      /\ handler'[h].flag = ~ HasSucceededInstall
  BY <1>1, ReadsOfRemoval DEF RemovalReads, Before
<1>5. RowsFit(handler[h])'
  BY <1>1, <1>3, <1>4 DEF RowsFit, InstallsOnRecord, Operable
<1>6. RequestStands(handler[h])'
  BY <1>1, <1>3, <1>4 DEF RequestStands, Day2Requests, NextNumber
<1>7. ReportStands(handler[h])'
  BY <1>4 DEF ReportStands, Settlers, Watchdog
<1> QED BY <1>2, <1>3, <1>5, <1>6, <1>7, EndedRevives DEF TableAt

\* An insert revives nothing, and the next number of a first attempt is free.
LEMMA InsertRevives ==
    ASSUME Coherent, NEW key, NEW destructive, NEW zeroStart,
           InsertJob(key, destructive, zeroStart)
    PROVE  NoneRevived
BY NewRow DEF NoneRevived, Active

LEMMA NextIsFree ==
    ASSUME Coherent, NumbersInOrder, NEW key, key.type \in { "INSTALL", "DESTROY" },
           NextNumber(key)
    PROVE  ~ KeyTaken(key)
<1>1. SUFFICES ASSUME NEW j \in Jobs, jobs[j].key = key
               PROVE  FALSE
  BY DEF KeyTaken
<1>2. Type(j) = key.type /\ j \in JobsOf({ "INSTALL", "DESTROY" })
  BY <1>1 DEF Type, JobsOf
<1>3. key.n < Cardinality(JobsOf({ key.type }))
  BY <1>1, <1>2 DEF NumbersInOrder
<1>4. Cardinality(JobsOf({ key.type })) \in Nat
  BY Counted
<1> QED BY <1>3, <1>4 DEF NextNumber

\* A day-2 request, or a purge, inserts its job.
LEMMA InsertRequestKeeps ==
    ASSUME NEW h, Before(h), InsertRequest(h)
    PROVE  TableAt(h)' /\ NoneRevived
<1>1. /\ handler[h].op \in Day2Requests \cup { "Purge" } /\ handler[h].at = "insert"
      /\ UNCHANGED << dep, ready, history >>
      /\ RowsFit(handler[h]) /\ RequestStands(handler[h])
  BY HandlerFields
     DEF InsertRequest, InsertRequested, Runs, At, Before, TableAt, OneByOne,
         HandlerConsistent, Day2Requests
<1>k. PICK key \in Keys : key = handler[h].key
  BY HandlerFields DEF Before
<1>2. /\ handler[h].op \in Day2Requests =>
            key.type \in Day2Types /\ Operable /\ handler[h].next \in { "none", "UPDATING" }
            /\ (handler[h].next = "UPDATING" => dep.state \in BulkDeployableStates)
      /\ handler[h].op = "Purge" =>
            key.type = "PURGE" /\ handler[h].next = "none" /\ dep.state = "DELETED"
  BY <1>1, <1>k DEF RequestStands
<1>t. key.type \in Day2Types \cup { "PURGE" } /\ key.type \in IndexedTypes
      /\ key.type \notin { "INSTALL", "DESTROY", "CONFIG_UPDATE" }
      /\ (key.type \in Day2Types => key.type # "PURGE")
  BY <1>1, <1>2 DEF Day2Types, IndexedTypes, JobTypes
<1>o. "Purge" \notin Day2Requests
  BY DEF Day2Requests
<1>3. CASE CanInsert(key)
  <2>1. InsertJob(key, FALSE, FALSE)
        /\ (IF handler[h].next = "none" THEN Finish(h) ELSE GoTo(h, "mark"))
    BY <1>3, <1>k DEF InsertRequest, InsertRequested
  <2>2. /\ \A types : Busy(types)' <=> Busy(types) \/ key.type \in types
        /\ \A types : key.type \notin types => JobsOf(types)' = JobsOf(types)
        /\ HasSucceededInstall' <=> HasSucceededInstall
        /\ ~ Busy({ "INSTALL" }) /\ ~ Busy(Day2Types) /\ ~ Busy({ "DESTROY" })
        /\ ~ Busy({ "PURGE" })
        /\ NumbersInOrder' /\ MutationsInTurn'
    BY <1>3, <1>t, <2>1, InsertBusy DEF Before, TableAt
  <2>c. JobsOf({ "CONFIG_UPDATE" })' = JobsOf({ "CONFIG_UPDATE" })
    BY <1>t, <2>2
  <2>3. RowsFit(handler[h])'
    BY <1>1, <1>2, <1>t, <2>2, <2>c
    DEF RowsFit, InstallsOnRecord, Operable, Serving
  <2>4. NoneRevived
    BY <2>1, InsertRevives DEF Before
  <2>5. CASE Finish(h)
    BY <2>2, <2>3, <2>4, <2>5, EndsWell
  <2>6. CASE GoTo(h, "mark") /\ handler[h].next # "none"
    <3>1. /\ handler'[h].op = handler[h].op /\ handler'[h].at = "mark"
          /\ handler'[h].key = key /\ handler'[h].next = "UPDATING"
          /\ handler[h].op \in Day2Requests
      BY <1>1, <1>2, <1>k, <2>6, NextRow DEF Before
    <3>2. Busy(Day2Types)' /\ dep'.state = dep.state /\ dep.state \in BulkDeployableStates
      BY <1>1, <1>2, <2>2, <2>6
    <3>3. RequestStands(handler[h])'
      BY <1>2, <3>1, <3>2 DEF RequestStands, Day2Requests
    <3>4. ReportStands(handler[h])'
      BY <3>1 DEF ReportStands, Settlers, Watchdog, Day2Requests
    <3> QED BY <2>2, <2>3, <2>4, <3>3, <3>4 DEF TableAt
  <2> QED BY <2>1, <2>5, <2>6
<1>4. CASE ~ CanInsert(key)
  <2>1. Finish(h) /\ UNCHANGED << jobs, created >>
    BY <1>4, <1>k DEF InsertRequest, InsertRequested
  <2>2. Ended({}, "none")
    BY <2>1, SameEnds DEF Before
  <2>3. /\ \A types : (Busy(types)' <=> Busy(types)) /\ JobsOf(types)' = JobsOf(types)
        /\ HasSucceededInstall' <=> HasSucceededInstall
        /\ NumbersInOrder' /\ MutationsInTurn'
    BY <2>2, QuietBusy DEF Before, TableAt
  <2>4. handler'[h] = Idle
    BY <2>1, NextRow DEF Before
  <2>5. RowsFit(handler[h])'
    BY <1>1, <1>o, <2>3, <2>4 DEF RowsFit, InstallsOnRecord, Operable, Day2Requests
  <2> QED BY <2>1, <2>2, <2>3, <2>5, EndsWell, EndedRevives
<1> QED BY <1>3, <1>4

\* The removal of a deployment inserts its DESTROY, or leaves INSTALLING with its INSTALL.
LEMMA InsertDestroyKeeps ==
    ASSUME NEW h, Before(h), InsertDestroy(h)
    PROVE  TableAt(h)' /\ NoneRevived
<1>1. /\ handler[h].op = "Destroy" /\ handler[h].at = "insert"
      /\ UNCHANGED << dep, ready, history >>
      /\ RowsFit(handler[h]) /\ RequestStands(handler[h])
  BY DEF InsertDestroy, InsertRequested, Runs, At, Before, TableAt
<1>k. PICK key \in Keys : key = handler[h].key
  BY HandlerFields DEF Before
<1>2. /\ key.type = "DESTROY" /\ key.by = "request" /\ key.of = 0
      /\ key.n <= Cardinality(JobsOf({ "DESTROY" }))
      /\ handler[h].next = "DELETING" /\ dep.state # "DELETED"
      /\ dep.state \notin Unstarted
      /\ ~ Busy({ "DESTROY" }) => NextNumber(key)
  BY <1>1, <1>k DEF RequestStands
<1>t. "DESTROY" \in IndexedTypes /\ "DESTROY" \notin Day2Types
  BY DEF IndexedTypes, JobTypes, Day2Types
<1>3. CASE CanInsert(key)
  <2>1. InsertJob(key, handler[h].flag, FALSE) /\ GoTo(h, "mark")
    BY <1>2, <1>3, <1>k DEF InsertDestroy, InsertRequested
  <2>2. /\ \A types : Busy(types)' <=> Busy(types) \/ key.type \in types
        /\ \A types : key.type \notin types => JobsOf(types)' = JobsOf(types)
        /\ \A type : Cardinality(JobsOf({ type }))' =
                 Cardinality(JobsOf({ type })) + (IF key.type = type THEN 1 ELSE 0)
        /\ HasSucceededInstall' <=> HasSucceededInstall
        /\ ~ Busy({ "INSTALL" }) /\ ~ Busy(Day2Types) /\ ~ Busy({ "DESTROY" })
        /\ ~ Busy({ "PURGE" })
        /\ NumbersInOrder' /\ MutationsInTurn'
    BY <1>2, <1>3, <1>t, <2>1, InsertBusy DEF Before, TableAt
  <2>c. JobsOf({ "CONFIG_UPDATE" })' = JobsOf({ "CONFIG_UPDATE" })
    BY <1>2, <2>2
  <2>3. /\ handler'[h].op = "Destroy" /\ handler'[h].at = "mark"
        /\ handler'[h].key = key /\ handler'[h].next = "DELETING"
    BY <1>1, <1>2, <1>k, <2>1, NextRow DEF Before
  <2>4. RowsFit(handler[h])'
    BY <1>1, <1>2, <1>t, <2>2, <2>c, <2>3
    DEF RowsFit, InstallsOnRecord, Operable, Serving
  <2>5. key.n <= Cardinality(JobsOf({ "DESTROY" }))'
    <3>1. Cardinality(JobsOf({ "DESTROY" })) \in Nat /\ key.n \in Nat
      BY Counted DEF Before, Keys
    <3>2. Cardinality(JobsOf({ "DESTROY" }))' = Cardinality(JobsOf({ "DESTROY" })) + 1
      BY <1>2, <2>2
    <3> QED BY <1>2, <3>1, <3>2
  <2>6. RequestStands(handler[h])'
    <3>1. Busy({ "DESTROY" })' /\ dep' = dep
      BY <1>1, <1>2, <2>2
    <3> QED BY <1>2, <2>3, <2>5, <3>1 DEF RequestStands, Day2Requests
  <2>7. ReportStands(handler[h])'
    BY <2>3 DEF ReportStands, Settlers, Watchdog
  <2> QED BY <2>1, <2>2, <2>4, <2>6, <2>7, InsertRevives DEF TableAt, Before
<1>4. CASE ~ CanInsert(key)
  <2>1. Finish(h) /\ UNCHANGED << jobs, created >>
    BY <1>4, <1>k DEF InsertDestroy, InsertRequested
  <2>2. Ended({}, "none")
    BY <2>1, SameEnds DEF Before
  <2>3. /\ \A types : (Busy(types)' <=> Busy(types)) /\ JobsOf(types)' = JobsOf(types)
        /\ HasSucceededInstall' <=> HasSucceededInstall
        /\ NumbersInOrder' /\ MutationsInTurn'
    BY <2>2, QuietBusy DEF Before, TableAt
  <2>4. handler'[h] = Idle
    BY <2>1, NextRow DEF Before
  <2>5. Busy({ "DESTROY" }) \/ Busy(IndexedTypes)
    <3>1. ~ Busy({ "DESTROY" }) => ~ KeyTaken(key)
      BY <1>2, NextIsFree DEF Before, TableAt
    <3> QED BY <1>2, <1>4, <3>1 DEF CanInsert, IndexAllows, Busy
  <2>6. Busy({ "INSTALL" }) \/ Busy(Day2Types) \/ Busy({ "DESTROY" }) \/ Busy({ "PURGE" })
    BY <2>5, OneBusy DEF Before
  <2>7. RowsFit(handler[h])'
    BY <1>1, <2>3, <2>4, <2>6 DEF RowsFit, InstallsOnRecord, Operable, Serving
  <2> QED BY <2>1, <2>2, <2>3, <2>7, EndsWell, EndedRevives
<1> QED BY <1>3, <1>4

\* A repeated INSTALL is inserted: its number is free and nothing else is active.
LEMMA InsertRetryKeeps ==
    ASSUME NEW h, Before(h), InsertRetryInstall(h)
    PROVE  TableAt(h)' /\ NoneRevived
<1>1. /\ handler[h].op = "RetryInstall" /\ handler[h].at = "insert"
      /\ UNCHANGED << dep, ready, history >>
      /\ RowsFit(handler[h]) /\ RequestStands(handler[h])
  BY DEF InsertRetryInstall, InsertRequested, Runs, At, Before, TableAt
<1>k. PICK key \in Keys : key = handler[h].key
  BY HandlerFields DEF Before
<1>2. /\ key.type = "INSTALL" /\ key.by = "request" /\ key.of = 0
      /\ handler[h].next = "INSTALLING" /\ ~ HasSucceededInstall
      /\ dep.state \in { "FAILED", "INSTALLING" }
      /\ NextNumber(key) /\ ~ Busy(IndexedTypes)
  BY <1>1, <1>k DEF RequestStands, Before, CarriesItsJob
<1>t. "INSTALL" \in IndexedTypes /\ "INSTALL" \notin Day2Types
  BY DEF IndexedTypes, JobTypes, Day2Types
<1>3. CanInsert(key)
  BY <1>2, NextIsFree DEF Before, TableAt, CanInsert, IndexAllows, Busy
<1>4. InsertJob(key, TRUE, StartAfterConfig) /\ GoTo(h, "mark")
  BY <1>2, <1>3, <1>k DEF InsertRetryInstall, InsertRequested
<1>5. key.n <= Cardinality(JobsOf({ key.type }))
  <2>1. Cardinality(JobsOf({ key.type })) \in Nat
    BY Counted DEF Before
  <2> QED BY <1>2, <2>1 DEF NextNumber
<1>6. /\ \A types : Busy(types)' <=> Busy(types) \/ key.type \in types
      /\ \A types : key.type \notin types => JobsOf(types)' = JobsOf(types)
      /\ HasSucceededInstall' <=> HasSucceededInstall
      /\ ~ Busy({ "INSTALL" }) /\ ~ Busy(Day2Types) /\ ~ Busy({ "DESTROY" })
      /\ ~ Busy({ "PURGE" })
      /\ NumbersInOrder' /\ MutationsInTurn'
  BY <1>2, <1>3, <1>4, <1>5, <1>t, InsertBusy DEF Before, TableAt
<1>c. JobsOf({ "CONFIG_UPDATE" })' = JobsOf({ "CONFIG_UPDATE" })
  BY <1>2, <1>6
<1>7. /\ handler'[h].op = "RetryInstall" /\ handler'[h].at = "mark"
      /\ handler'[h].key = key /\ handler'[h].next = "INSTALLING"
  BY <1>1, <1>2, <1>k, <1>4, NextRow DEF Before
<1>8. RowsFit(handler[h])'
  BY <1>1, <1>2, <1>t, <1>6, <1>c, <1>7
  DEF RowsFit, InstallsOnRecord, Operable, Serving
<1>9. RequestStands(handler[h])'
  <2>1. Busy({ "INSTALL" })' /\ dep' = dep
    BY <1>1, <1>2, <1>6
  <2> QED BY <1>2, <1>6, <1>7, <2>1 DEF RequestStands, Day2Requests
<1>10. ReportStands(handler[h])'
  BY <1>7 DEF ReportStands, Settlers, Watchdog
<1> QED BY <1>4, <1>6, <1>8, <1>9, <1>10, InsertRevives DEF TableAt, Before

\* So is the first one, when the relay registers.
LEMMA InsertFirstKeeps ==
    ASSUME NEW h, Before(h), InsertFirstInstall(h)
    PROVE  TableAt(h)' /\ NoneRevived
<1>1. /\ handler[h].op = "Register" /\ handler[h].at = "insert"
      /\ UNCHANGED << dep, ready, history >>
      /\ RowsFit(handler[h]) /\ ReportStands(handler[h])
  BY DEF InsertFirstInstall, Runs, At, Before, TableAt
<1>k. PICK key \in Keys : key = handler[h].key
  BY HandlerFields DEF Before
<1>2. /\ key.type = "INSTALL" /\ key.by = "request" /\ key.of = 0
      /\ ~ dep.enrolled /\ dep.state \in Unstarted /\ handler[h].state = dep.state
      /\ NextNumber(key) /\ ~ Busy(IndexedTypes)
  BY <1>1, <1>k DEF ReportStands, Before, CarriesItsJob
<1>t. "INSTALL" \in IndexedTypes /\ "INSTALL" \notin Day2Types
  BY DEF IndexedTypes, JobTypes, Day2Types
<1>3. CanInsert(key) /\ ~ KeyTaken(key)
  BY <1>2, NextIsFree DEF Before, TableAt, CanInsert, IndexAllows, Busy
<1>4. InsertJob(key, handler[h].flag, StartAfterConfig) /\ GoTo(h, "enroll")
  BY <1>3, <1>k DEF InsertFirstInstall
<1>5. key.n <= Cardinality(JobsOf({ key.type }))
  <2>1. Cardinality(JobsOf({ key.type })) \in Nat
    BY Counted DEF Before
  <2> QED BY <1>2, <2>1 DEF NextNumber
<1>6. /\ \A types : Busy(types)' <=> Busy(types) \/ key.type \in types
      /\ \A types : key.type \notin types => JobsOf(types)' = JobsOf(types)
      /\ HasSucceededInstall' <=> HasSucceededInstall
      /\ ~ Busy({ "INSTALL" }) /\ ~ Busy(Day2Types) /\ ~ Busy({ "DESTROY" })
      /\ ~ Busy({ "PURGE" })
      /\ NumbersInOrder' /\ MutationsInTurn'
  BY <1>2, <1>3, <1>4, <1>5, <1>t, InsertBusy DEF Before, TableAt
<1>c. JobsOf({ "CONFIG_UPDATE" })' = JobsOf({ "CONFIG_UPDATE" })
  BY <1>2, <1>6
<1>7. /\ handler'[h].op = "Register" /\ handler'[h].at = "enroll"
      /\ handler'[h].key = key /\ handler'[h].state = dep.state
      /\ handler'[h].next = handler[h].next /\ handler'[h].write = handler[h].write
  BY <1>1, <1>2, <1>k, <1>4, NextRow DEF Before
<1>8. RowsFit(handler[h])'
  BY <1>1, <1>2, <1>t, <1>6, <1>c, <1>7
  DEF RowsFit, InstallsOnRecord, Operable, Serving
<1>9. RequestStands(handler[h])'
  BY <1>7 DEF RequestStands, Day2Requests
<1>10. ReportStands(handler[h])'
  <2>1. Busy({ "INSTALL" })' /\ dep' = dep
    BY <1>1, <1>2, <1>6
  <2> QED BY <1>2, <1>7, <2>1 DEF ReportStands, Settlers, Watchdog
<1> QED BY <1>4, <1>6, <1>8, <1>9, <1>10, InsertRevives DEF TableAt, Before

\* The enrollment starts INSTALLING with the INSTALL that was inserted for it.
LEMMA EnrollKeeps ==
    ASSUME NEW h, Before(h), Enroll(h)
    PROVE  TableAt(h)' /\ NoneRevived
<1>1. /\ handler[h].op = "Register" /\ handler[h].at = "enroll"
      /\ UNCHANGED << jobs, created, ready, history >> /\ Finish(h)
      /\ RowsFit(handler[h]) /\ ReportStands(handler[h])
  BY DEF Enroll, Runs, At, Before, TableAt
<1>2. /\ ~ dep.enrolled /\ handler[h].state = dep.state
      /\ dep.state \in Unstarted => Busy({ "INSTALL" })
  BY <1>1 DEF ReportStands
<1>3. Ended({}, "none")
  BY <1>1, SameEnds DEF Before
<1>4. /\ \A types : (Busy(types)' <=> Busy(types)) /\ JobsOf(types)' = JobsOf(types)
      /\ HasSucceededInstall' <=> HasSucceededInstall
      /\ NumbersInOrder' /\ MutationsInTurn'
  BY <1>3, QuietBusy DEF Before, TableAt
<1>5. /\ dep'.enrolled = TRUE
      /\ dep'.state = IF dep.state \in Unstarted THEN "INSTALLING" ELSE dep.state
  BY <1>2, DepFields DEF Enroll, Before, DepRows, Unstarted
<1>6. handler'[h] = Idle
  BY <1>1, NextRow DEF Before
<1>7. RowsFit(handler[h])'
  BY <1>1, <1>2, <1>4, <1>5, <1>6, OneBusy
  DEF RowsFit, InstallsOnRecord, Operable, Serving, Unstarted, Before
<1> QED BY <1>1, <1>3, <1>4, <1>7, EndsWell, EndedRevives

\* A forced removal leaves no active mutation.
LEMMA ForceCompleteKeeps ==
    ASSUME NEW h, Before(h), CommitForceComplete(h)
    PROVE  TableAt(h)' /\ NoneRevived
<1>1. /\ handler[h].op = "ForceComplete" /\ Finish(h)
      /\ UNCHANGED << created, ready, history >>
      /\ RowsFit(handler[h]) /\ RequestStands(handler[h])
  BY DEF CommitForceComplete, Runs, At, Before, TableAt
<1>2. dep'.state = "DELETED" /\ dep'.enrolled = dep.enrolled
  BY DepFields DEF CommitForceComplete, Before, DepRows
<1>3. Names(handler[h], { "DESTROY" }) /\ handler[h].job \in Jobs
  BY <1>1, HandlerFields, BoundsAssumption DEF Before, CarriesItsJob, Names, Jobs
<1>4. /\ NoneRevived
      /\ ~ Busy({ "INSTALL" })' /\ ~ Busy(Day2Types)' /\ ~ Busy({ "DESTROY" })'
      /\ JobsOf({ "CONFIG_UPDATE" })' = JobsOf({ "CONFIG_UPDATE" })
      /\ HasSucceededInstall' <=> HasSucceededInstall
      /\ NumbersInOrder' /\ MutationsInTurn'
  <2>1. CASE handler[h].write = "CANCELLED"
    <3>1. Active(handler[h].job) /\ SetJobState(handler[h].job, "CANCELLED")
      BY <1>1, <2>1 DEF RequestStands, CommitForceComplete
    <3>2. Ended({ handler[h].job }, "CANCELLED")
      BY <1>1, <1>3, <3>1, SetEnds DEF Before, JobStates, SettledStates
    <3>3. Type(handler[h].job) \in IndexedTypes
      BY <1>3 DEF Names, IndexedTypes, JobTypes
    <3> QED BY <1>3, <3>1, <3>2, <3>3, EndBusy, EndedRevives DEF Before, TableAt
  <2>2. CASE handler[h].write # "CANCELLED"
    <3>1. ~ Busy(IndexedTypes) /\ UNCHANGED jobs
      BY <1>1, <2>2 DEF RequestStands, CommitForceComplete
    <3>2. Ended({}, "none")
      BY <1>1, <3>1, SameEnds DEF Before
    <3> QED BY <3>1, <3>2, QuietBusy, OneBusy, EndedRevives DEF Before, TableAt
  <2> QED BY <2>1, <2>2
<1>5. RowsFit(handler[h])'
  BY <1>1, <1>2, <1>4 DEF RowsFit, InstallsOnRecord, Operable, Unstarted
<1> QED BY <1>1, <1>4, <1>5, EndsWell

\* An attempt that starts over leaves nothing active.
LEMMA FreshCredentialKeeps ==
    ASSUME NEW h, Before(h), CommitFreshCredential(h)
    PROVE  TableAt(h)' /\ NoneRevived
<1>1. /\ handler[h].op = "PublicRetry" /\ Finish(h)
      /\ UNCHANGED << created, ready, history >>
      /\ RowsFit(handler[h]) /\ RequestStands(handler[h])
  BY HandlerFields
     DEF CommitFreshCredential, Runs, At, Before, TableAt, OneByOne, HandlerConsistent
<1>2. /\ handler[h].next = "NOT_INSTALLED" /\ ~ HasSucceededInstall
      /\ dep.state \in PublicRetryableStates
  BY <1>1 DEF RequestStands
<1>3. dep'.state = "NOT_INSTALLED" /\ dep'.enrolled = FALSE
  BY <1>2, DepFields DEF CommitFreshCredential, Before, DepRows
<1>4. Ended(ActiveJobsOf({ "INSTALL" }), "CANCELLED")
  BY <1>1, <1>2, CancelEnds DEF CommitFreshCredential, Before
<1>5. "INSTALL" \notin Day2Types
  BY DEF Day2Types
<1>6. /\ ~ Busy({ "INSTALL" })' /\ (Busy(Day2Types)' <=> Busy(Day2Types))
      /\ (Busy({ "DESTROY" })' <=> Busy({ "DESTROY" }))
      /\ (Busy({ "PURGE" })' <=> Busy({ "PURGE" }))
      /\ JobsOf({ "CONFIG_UPDATE" })' = JobsOf({ "CONFIG_UPDATE" })
      /\ HasSucceededInstall' <=> HasSucceededInstall
      /\ NumbersInOrder' /\ MutationsInTurn'
  BY <1>4, <1>5, CancelBusy DEF Before, TableAt
<1>7. RowsFit(handler[h])'
  BY <1>1, <1>2, <1>3, <1>6
  DEF RowsFit, InstallsOnRecord, Operable, Serving, Unstarted, PublicRetryableStates
<1> QED BY <1>1, <1>4, <1>6, <1>7, EndsWell, EndedRevives

\* The superseded INSTALL was the only active mutation.
LEMMA SupersedeKeeps ==
    ASSUME NEW h, Before(h), CancelSuperseded(h)
    PROVE  TableAt(h)' /\ NoneRevived
<1>1. /\ handler[h].op = "RetryInstall" /\ handler[h].at = "cancel" /\ GoTo(h, "insert")
      /\ SetJobState(handler[h].job, "CANCELLED")
      /\ UNCHANGED << dep, created, ready, history >>
      /\ RowsFit(handler[h]) /\ RequestStands(handler[h])
  BY DEF CancelSuperseded, Runs, At, Before, TableAt
<1>2. /\ Names(handler[h], { "INSTALL" }) /\ Active(handler[h].job) /\ ~ HasSucceededInstall
      /\ handler[h].next = "INSTALLING" /\ dep.state \in { "FAILED", "INSTALLING" }
  BY <1>1 DEF RequestStands
<1>3. handler[h].job \in Jobs
  BY <1>2, HandlerFields, BoundsAssumption DEF Before, Names, Jobs
<1>4. Ended({ handler[h].job }, "CANCELLED")
  BY <1>1, <1>2, <1>3, SetEnds DEF Before, JobStates, SettledStates
<1>5. Type(handler[h].job) = "INSTALL" /\ Type(handler[h].job) \in IndexedTypes
  BY <1>2 DEF Names, IndexedTypes, JobTypes
<1>6. /\ ~ Busy({ "INSTALL" })' /\ ~ Busy(Day2Types)' /\ ~ Busy({ "DESTROY" })'
      /\ ~ Busy({ "PURGE" })'
      /\ \A types : JobsOf(types)' = JobsOf(types)
      /\ HasSucceededInstall' <=> HasSucceededInstall
      /\ NumbersInOrder' /\ MutationsInTurn'
  BY <1>2, <1>3, <1>4, <1>5, EndBusy DEF Before, TableAt
<1>7. /\ handler'[h].op = "RetryInstall" /\ handler'[h].at = "insert"
      /\ handler'[h].key = handler[h].key /\ handler'[h].next = "INSTALLING"
  BY <1>1, <1>2, NextRow DEF Before
<1>8. RowsFit(handler[h])'
  BY <1>1, <1>2, <1>6, <1>7 DEF RowsFit, InstallsOnRecord, Operable, Unstarted
<1>9. RequestStands(handler[h])'
  <2>1. Coherent'
    BY <1>1, NextCoherent DEF Before, Next, Advance
  <2>2. ~ Busy(IndexedTypes)'
    <3>1. ActiveJobsOf(IndexedTypes)' = ActiveJobsOf(IndexedTypes) \ { handler[h].job }
      <4>1. PICK S : S = { handler[h].job }
        OBVIOUS
      <4> QED BY <1>3, <1>4, <4>1, EndedRows DEF Before, TableAt
    <3>2. \A i \in ActiveJobsOf(IndexedTypes) : i = handler[h].job
      BY <1>2, <1>3, <1>5 DEF Before, Coherent, OneActiveMutation, ActiveJobsOf, JobsOf
    <3> QED BY <3>1, <3>2 DEF Busy
  <2>3. NextNumber(handler[h].key)'
    BY <1>1, <1>6, <1>7 DEF RequestStands, NextNumber
  <2> QED BY <1>1, <1>2, <1>6, <1>7, <2>2, <2>3 DEF RequestStands, Day2Requests
<1>10. ReportStands(handler[h])'
  BY <1>7 DEF ReportStands, Settlers, Watchdog
<1> QED BY <1>4, <1>6, <1>8, <1>9, <1>10, EndedRevives DEF TableAt

\* A handler that ends without touching the deployment or a job's settlement.
LEMMA QuietEnd ==
    ASSUME NEW h, Before(h), Finish(h), Ended({}, "none"),
           dep'.state = dep.state, dep'.enrolled = dep.enrolled, history' = history,
           handler[h].at \notin { "cancel", "decide", "insert", "mark", "enroll" }
    PROVE  TableAt(h)' /\ NoneRevived
<1>1. /\ \A types : (Busy(types)' <=> Busy(types)) /\ JobsOf(types)' = JobsOf(types)
      /\ HasSucceededInstall' <=> HasSucceededInstall
      /\ NumbersInOrder' /\ MutationsInTurn'
  BY QuietBusy DEF Before, TableAt
<1>2. handler'[h] = Idle
  BY NextRow DEF Before
<1>3. RowsFit(handler[h])'
  BY <1>1, <1>2 DEF RowsFit, InstallsOnRecord, Operable, Before, TableAt
<1> QED BY <1>1, <1>3, EndsWell, EndedRevives

\* A poll's claim, the record of the follow-ups, a re-offer and a parking.
LEMMA ClaimKeeps ==
    ASSUME NEW h, Before(h), CommitClaim(h)
    PROVE  TableAt(h)' /\ NoneRevived
<1>1. handler[h].at = "commit" /\ UNCHANGED << dep, created, ready, history >> /\ Finish(h)
  BY DEF CommitClaim, Runs, At
<1>2. \A i \in Jobs : /\ jobs'[i].key = jobs[i].key
                      /\ \/ jobs'[i].state = jobs[i].state
                         \/ Active(i) /\ jobs'[i].state \in ActiveStates
  <2>1. SUFFICES ASSUME NEW i \in Jobs
                 PROVE  /\ jobs'[i].key = jobs[i].key
                        /\ \/ jobs'[i].state = jobs[i].state
                           \/ Active(i) /\ jobs'[i].state \in ActiveStates
    OBVIOUS
  <2>2. i \in JobIds /\ jobs[i] \in JobRows
    BY JobFields DEF Before
  <2>3. jobs'[i] = IF i \in Claimed(h)
                   THEN [ jobs[i] EXCEPT !.state = "RUNNING", !.offered = TRUE ] ELSE jobs[i]
    BY <2>2 DEF CommitClaim
  <2> QED BY <2>2, <2>3 DEF Claimed, Active, ActiveStates, JobRows
<1>3. Ended({}, "none")
  BY <1>1, <1>2, StayActive DEF Before
<1> QED BY <1>1, <1>3, QuietEnd

LEMMA RecordKeeps ==
    ASSUME NEW h, Before(h), RecordFollowUps(h)
    PROVE  TableAt(h)' /\ NoneRevived
<1>1. handler[h].at = "record" /\ UNCHANGED << dep, created, ready, history >> /\ Finish(h)
  BY DEF RecordFollowUps, At
<1>2. \A i \in Jobs : /\ jobs'[i].key = jobs[i].key
                      /\ \/ jobs'[i].state = jobs[i].state
                         \/ Active(i) /\ jobs'[i].state \in ActiveStates
  <2>1. SUFFICES ASSUME NEW i \in Jobs
                 PROVE  jobs'[i].key = jobs[i].key /\ jobs'[i].state = jobs[i].state
    OBVIOUS
  <2>2. i \in JobIds /\ jobs[i] \in JobRows /\ jobs \in [ JobIds -> JobRows ]
    BY JobFields DEF Before, Coherent, TypeOK
  <2>3. jobs' = [ jobs EXCEPT ![handler[h].job].followUps = TRUE ]
    BY DEF RecordFollowUps
  <2> QED BY <2>2, <2>3 DEF JobRows
<1>3. Ended({}, "none")
  BY <1>1, <1>2, StayActive DEF Before
<1> QED BY <1>1, <1>3, QuietEnd

LEMMA RequeueKeeps ==
    ASSUME NEW h, Before(h), RequeueStuckJob(h)
    PROVE  TableAt(h)' /\ NoneRevived
<1>1. handler[h].at = "commit" /\ UNCHANGED << dep, created, ready, history >> /\ Finish(h)
  BY DEF RequeueStuckJob, Runs, At
<1>2. \A i \in Jobs : /\ jobs'[i].key = jobs[i].key
                      /\ \/ jobs'[i].state = jobs[i].state
                         \/ Active(i) /\ jobs'[i].state \in ActiveStates
  <2>1. SUFFICES ASSUME NEW i \in Jobs
                 PROVE  /\ jobs'[i].key = jobs[i].key
                        /\ \/ jobs'[i].state = jobs[i].state
                           \/ Active(i) /\ jobs'[i].state \in ActiveStates
    OBVIOUS
  <2>2. i \in JobIds /\ jobs[i] \in JobRows /\ jobs \in [ JobIds -> JobRows ]
    BY JobFields DEF Before, Coherent, TypeOK
  <2>3. CASE Settles(handler[h].job) /\ i = handler[h].job
    <3>1. PICK n : n = handler[h].requeues + 1
      OBVIOUS
    <3>2. jobs' = [ jobs EXCEPT ![handler[h].job].state = "REQUESTED",
                                ![handler[h].job].requeues = n ]
      BY <2>3, <3>1 DEF RequeueStuckJob
    <3>3. jobs'[i].key = jobs[i].key /\ jobs'[i].state = "REQUESTED"
      BY <2>2, <2>3, <3>2 DEF JobRows
    <3> QED BY <2>3, <3>3 DEF Settles, ActiveStates
  <2>4. CASE ~ Settles(handler[h].job) \/ i # handler[h].job
    <3>1. jobs'[i] = jobs[i]
      BY <2>2, <2>4 DEF RequeueStuckJob
    <3> QED BY <3>1
  <2> QED BY <2>3, <2>4
<1>3. Ended({}, "none")
  BY <1>1, <1>2, StayActive DEF Before
<1> QED BY <1>1, <1>3, QuietEnd

LEMMA ParkKeeps ==
    ASSUME NEW h, Before(h), ParkStuckJob(h)
    PROVE  TableAt(h)' /\ NoneRevived
<1>1. /\ handler[h].op \in Watchdog /\ handler[h].at = "commit"
      /\ UNCHANGED << dep, created, ready, history >> /\ Finish(h)
  BY DEF ParkStuckJob, Runs, At
<1>2. Active(handler[h].job) /\ handler[h].job \in Jobs
  BY <1>1, HandlerFields, BoundsAssumption
  DEF Before, TableAt, ReportStands, CarriesItsJob, Settlers, Jobs
<1>3. Ended({}, "none")
  BY <1>1, <1>2, SetEnds, SameEnds DEF ParkStuckJob, Before, ActiveStates, JobStates
<1> QED BY <1>1, <1>3, QuietEnd

\* What a result or a verdict writes follows from the job it settles.
LEMMA SettleKeeps ==
    ASSUME NEW h, Before(h), SettlesItsJob(h), handler[h].at = "commit",
           \/ Finish(h)
           \/ /\ GoTo(h, "followUps") /\ handler[h].op \in { "Result", "Progress" }
              /\ Type(handler[h].job) = "INSTALL" /\ handler[h].write = "SUCCEEDED"
    PROVE  TableAt(h)' /\ NoneRevived
<1> DEFINE job == handler[h].job
<1>1. /\ handler[h].op \in Settlers /\ job \in Jobs /\ Active(job)
      /\ handler[h].write \in { "SUCCEEDED", "FAILED" } /\ SetJobState(job, handler[h].write)
      /\ UNCHANGED << created, ready >>
      /\ RowsFit(handler[h]) /\ ReportStands(handler[h])
  BY DEF SettlesItsJob, SettleJob, Before, TableAt
<1>2. /\ dep'.state = IF handler[h].next = "none" THEN dep.state ELSE handler[h].next
      /\ dep'.enrolled = dep.enrolled
      /\ history'.installed <=> history.installed
                                \/ (handler[h].write = "SUCCEEDED" /\ Type(job) = "INSTALL")
  BY DepFields DEF SettlesItsJob, SettleJob, Before, DepRows
<1>3. Ended({ job }, handler[h].write)
  BY <1>1, SetEnds DEF Before, JobStates, SettledStates
<1>4. /\ \A types : JobsOf(types)' = JobsOf(types)
      /\ Type(job) \in IndexedTypes =>
            ~ Busy({ "INSTALL" })' /\ ~ Busy(Day2Types)' /\ ~ Busy({ "DESTROY" })'
            /\ ~ Busy({ "PURGE" })'
      /\ \A types : Type(job) \notin types => (Busy(types)' <=> Busy(types))
      /\ HasSucceededInstall' <=>
            HasSucceededInstall \/ (handler[h].write = "SUCCEEDED" /\ Type(job) = "INSTALL")
      /\ NumbersInOrder' /\ MutationsInTurn'
  BY <1>1, <1>3, EndBusy DEF Before, TableAt
<1>5. /\ Type(job) \in { "INSTALL", "DESTROY", "PURGE", "CONFIG_UPDATE" } \cup Day2Types
      /\ \A types : Type(job) \in types => Busy(types) /\ Names(handler[h], types)
  BY <1>1, BusyWith, JobFields DEF Before, Names
<1>6. /\ handler'[h].at \in { "idle", "followUps" }
      /\ handler'[h].at = "followUps" =>
            /\ Type(job) = "INSTALL" /\ handler[h].write = "SUCCEEDED"
            /\ GoTo(h, "followUps") /\ handler[h].op \in { "Result", "Progress" }
  BY NextRow DEF Before, Idle
<1>7. RowsFit(handler[h])'
  <2>1. CASE Type(job) = "INSTALL"
    <3>1. handler[h].next = IF handler[h].write = "FAILED" THEN "FAILED" ELSE "none"
      BY <1>1, <1>5, <2>1 DEF ReportStands
    <3>2. Type(job) \in IndexedTypes /\ Busy({ "INSTALL" })
      BY <1>5, <2>1 DEF IndexedTypes, JobTypes
    <3>3. dep.state = "INSTALLING"
      BY <1>1, <3>2 DEF RowsFit, Settlers, Watchdog
    <3> QED
      BY <1>1, <1>2, <1>4, <1>6, <2>1, <3>1, <3>2, <3>3
      DEF RowsFit, InstallsOnRecord, Unstarted
  <2>2. CASE Type(job) \in Day2Types
    <3>1. handler[h].next \in { "FAILED", "HEALTHY", "UPDATE_AVAILABLE" }
      BY <1>1, <1>5, <2>2 DEF ReportStands
    <3>2. Type(job) \in IndexedTypes /\ Busy(Day2Types) /\ Type(job) # "INSTALL"
      BY <1>5, <2>2 DEF IndexedTypes, JobTypes, Day2Types
    <3>3. Operable
      BY <1>1, <3>2 DEF RowsFit
    <3> QED
      BY <1>1, <1>2, <1>4, <1>6, <3>1, <3>2, <3>3
      DEF RowsFit, InstallsOnRecord, Unstarted, Operable, Serving
  <2>3. CASE Type(job) = "CONFIG_UPDATE"
    <3>1. handler[h].next = "none"
      BY <1>1, <1>5, <2>3 DEF ReportStands
    <3>2. "CONFIG_UPDATE" \notin Day2Types
      BY DEF Day2Types
    <3> QED
      BY <1>1, <1>2, <1>4, <1>6, <2>3, <3>1, <3>2
      DEF RowsFit, InstallsOnRecord, Operable, Settlers, Watchdog
  <2>4. CASE Type(job) = "DESTROY"
    <3>1. handler[h].next = IF handler[h].write = "FAILED" THEN "FAILED" ELSE "DELETED"
      BY <1>1, <1>5, <2>4 DEF ReportStands
    <3>2. Type(job) \in IndexedTypes /\ Busy({ "DESTROY" })
      BY <1>5, <2>4 DEF IndexedTypes, JobTypes
    <3>3. dep.state = "DELETING"
      BY <1>1, <3>2 DEF RowsFit, Settlers, Watchdog
    <3> QED
      BY <1>1, <1>2, <1>4, <1>6, <2>4, <3>1, <3>2, <3>3
      DEF RowsFit, InstallsOnRecord, Unstarted
  <2>5. CASE Type(job) = "PURGE"
    <3>1. handler[h].next = "none"
      BY <1>1, <1>5, <2>5 DEF ReportStands
    <3>2. Type(job) \in IndexedTypes /\ Busy({ "PURGE" })
      BY <1>5, <2>5 DEF IndexedTypes, JobTypes
    <3>3. dep.state = "DELETED"
      BY <1>1, <3>2 DEF RowsFit
    <3> QED
      BY <1>1, <1>2, <1>4, <1>6, <2>5, <3>1, <3>2, <3>3
      DEF RowsFit, InstallsOnRecord, Unstarted
  <2> QED BY <1>5, <2>1, <2>2, <2>3, <2>4, <2>5
<1>8. CASE Finish(h)
  BY <1>3, <1>4, <1>7, <1>8, EndsWell, EndedRevives
<1>9. CASE /\ GoTo(h, "followUps") /\ handler[h].op \in { "Result", "Progress" }
           /\ Type(job) = "INSTALL" /\ handler[h].write = "SUCCEEDED"
  <2>1. /\ handler'[h].op = handler[h].op /\ handler'[h].at = "followUps"
        /\ handler'[h].job = job /\ handler'[h].write = "SUCCEEDED"
        /\ handler'[h].next = handler[h].next
    BY <1>9, NextRow DEF Before
  <2>2. handler[h].next = "none" /\ dep.state = "INSTALLING"
    BY <1>1, <1>5, <1>9
    DEF ReportStands, RowsFit, Settlers, Watchdog
  <2>3. HasSucceededInstall' /\ dep'.state = "INSTALLING"
    BY <1>2, <1>4, <1>9, <2>2
  <2>4. RequestStands(handler[h])'
    BY <1>9, <2>1 DEF RequestStands, Day2Requests
  <2>5. \A types : Names(handler[h], types)' <=> Names(handler[h], types)
    <3>1. Type(job)' = Type(job)
      BY <1>1, <1>3, <2>1 DEF Ended, Type
    <3> QED BY <2>1, <3>1 DEF Names, Type
  <2>6. ReportStands(handler[h])'
    BY <1>1, <1>9, <2>1, <2>3, <2>5 DEF ReportStands, Settlers, Watchdog, Ending
  <2> QED BY <1>3, <1>4, <1>7, <2>4, <2>6, EndedRevives DEF TableAt
<1> QED BY <1>8, <1>9

LEMMA ResultKeeps ==
    ASSUME NEW h, Before(h), CommitResult(h)
    PROVE  TableAt(h)' /\ NoneRevived
<1>1. /\ handler[h].op \in { "Result", "Progress" } /\ handler[h].at = "commit"
      /\ handler[h].op \in Settlers /\ handler[h].write \in { "SUCCEEDED", "FAILED" }
      /\ UNCHANGED << created, ready >>
      /\ RowsFit(handler[h]) /\ ReportStands(handler[h])
  BY HandlerFields
  DEF CommitResult, Runs, At, Before, TableAt, Settlers, HandlerConsistent
<1>2. handler[h].job \in Jobs
  BY <1>1, HandlerFields, BoundsAssumption DEF Before, CarriesItsJob, Jobs
<1>3. CASE Settles(handler[h].job)
  <2>1. SettlesItsJob(h)
    BY <1>1, <1>2, <1>3 DEF SettlesItsJob, CommitResult, Settles
  <2> QED BY <1>1, <1>3, <2>1, SettleKeeps DEF CommitResult
<1>4. CASE ~ Settles(handler[h].job)
  <2>1. UNCHANGED << dep, jobs, history >>
    BY <1>4 DEF CommitResult
  <2>2. Ended({}, "none")
    BY <1>1, <2>1, SameEnds DEF Before
  <2>3. CASE Finish(h)
    BY <1>1, <2>1, <2>2, <2>3, QuietEnd
  <2>4. CASE GoTo(h, "followUps") /\ handler[h].seen = "SUCCEEDED"
             /\ Type(handler[h].job) = "INSTALL"
    <3>1. handler[h].op = "Result" /\ handler[h].state = dep.state
          /\ jobs[handler[h].job].state = "SUCCEEDED"
      BY <1>1, <2>4 DEF ReportStands
    <3>2. HasSucceededInstall
      BY <1>2, <2>4, <3>1 DEF HasSucceededInstall, JobsOf
    <3>3. /\ \A types : (Busy(types)' <=> Busy(types)) /\ JobsOf(types)' = JobsOf(types)
          /\ HasSucceededInstall' <=> HasSucceededInstall
          /\ NumbersInOrder' /\ MutationsInTurn'
      BY <2>2, QuietBusy DEF Before, TableAt
    <3>4. /\ handler'[h].op = "Result" /\ handler'[h].at = "followUps"
          /\ handler'[h].state = dep.state
          /\ handler'[h].job = handler[h].job /\ handler'[h].write = handler[h].write
          /\ handler'[h].next = handler[h].next
      BY <2>4, <3>1, NextRow DEF Before
    <3>5. RowsFit(handler[h])'
      BY <1>1, <2>1, <3>1, <3>3, <3>4 DEF RowsFit, InstallsOnRecord, Operable
    <3>6. RequestStands(handler[h])'
      BY <3>4 DEF RequestStands, Day2Requests
    <3>7. \A types : Names(handler[h], types)' <=> Names(handler[h], types)
      BY <2>1, <3>4 DEF Names, Type
    <3>8. ReportStands(handler[h])'
      BY <1>1, <2>1, <3>1, <3>2, <3>3, <3>4, <3>7 DEF ReportStands, Settlers, Watchdog
    <3> QED BY <2>2, <3>3, <3>5, <3>6, <3>8, EndedRevives DEF TableAt
  <2> QED BY <1>4, <2>3, <2>4 DEF CommitResult
<1> QED BY <1>3, <1>4

LEMMA FailStuckKeeps ==
    ASSUME NEW h, Before(h), FailStuckJob(h)
    PROVE  TableAt(h)' /\ NoneRevived
<1>1. /\ handler[h].op \in Settlers /\ handler[h].at = "commit"
      /\ handler[h].write = "FAILED" /\ Finish(h)
      /\ UNCHANGED << created, ready >>
  BY DEF FailStuckJob, Runs, At, Settlers
<1>2. handler[h].job \in Jobs
  BY <1>1, HandlerFields, BoundsAssumption DEF Before, CarriesItsJob, Jobs
<1>3. CASE Settles(handler[h].job)
  <2>1. SettlesItsJob(h)
    BY <1>1, <1>2, <1>3 DEF SettlesItsJob, FailStuckJob, Settles
  <2> QED BY <1>1, <2>1, SettleKeeps
<1>4. CASE ~ Settles(handler[h].job)
  <2>1. UNCHANGED << dep, jobs, history >>
    BY <1>4 DEF FailStuckJob
  <2>2. Ended({}, "none")
    BY <1>1, <2>1, SameEnds DEF Before
  <2> QED BY <1>1, <2>1, <2>2, QuietEnd
<1> QED BY <1>3, <1>4

\* A handler that goes on, leaving the rows alone, to a step at which no request
\* stands half-way.
LEMMA QuietlyOn ==
    ASSUME NEW h, Before(h), UNCHANGED << jobs, created, history >>, dep'.enrolled = dep.enrolled,
           handler[h].op \in { "Result", "Progress", "Heartbeat" },
           handler'[h].op = handler[h].op,
           handler'[h].at \notin { "cancel", "insert", "mark", "enroll", "commit" },
           handler[h].op # "Heartbeat" =>
              /\ dep' = dep /\ handler'[h].job = handler[h].job
              /\ handler'[h].write = handler[h].write /\ handler'[h].next = handler[h].next,
           RowsFit(handler[h])',
           handler'[h].op = "Heartbeat" /\ handler'[h].at \in { "verify", "promote", "repair" }
           /\ dep'.state \in Ending => handler'[h].state \in Ending,
           handler'[h].at = "followUps" =>
              HasSucceededInstall /\ (dep'.state \in Ending => handler'[h].state \in Ending),
           handler'[h].at \in { "config", "deploy" } =>
              HasSucceededInstall /\ dep'.state \notin Ending
    PROVE  TableAt(h)' /\ NoneRevived
<1>1. Ended({}, "none")
  BY SameEnds DEF Before
<1>2. /\ HasSucceededInstall' <=> HasSucceededInstall
      /\ NumbersInOrder' /\ MutationsInTurn'
  BY <1>1, QuietBusy DEF Before, TableAt
<1>3. RequestStands(handler[h])'
  BY DEF RequestStands, Day2Requests
<1>4. handler[h].op # "Heartbeat" =>
         \A types : Names(handler[h], types)' <=> Names(handler[h], types)
  BY DEF Names, Type
<1>5. ReportStands(handler[h])'
  BY <1>2, <1>4 DEF Before, TableAt, ReportStands, Settlers, Watchdog
<1> QED BY <1>1, <1>2, <1>3, <1>5, EndedRevives DEF TableAt

LEMMA QuietFit ==
    ASSUME NEW h, Before(h), UNCHANGED << dep, jobs, created, history >>,
           handler[h].at \notin { "cancel", "decide", "insert", "mark", "enroll" }
    PROVE  RowsFit(handler[h])'
<1>1. Ended({}, "none")
  BY SameEnds DEF Before
<1>2. /\ \A types : (Busy(types)' <=> Busy(types)) /\ JobsOf(types)' = JobsOf(types)
      /\ HasSucceededInstall' <=> HasSucceededInstall
  BY <1>1, QuietBusy DEF Before, TableAt
<1> QED BY <1>2 DEF RowsFit, InstallsOnRecord, Operable, Before, TableAt

\* The follow-ups of an INSTALL that succeeded, unless the deployment is going away.
LEMMA CheckFollowUpsKeeps ==
    ASSUME NEW h, Before(h), CheckFollowUps(h)
    PROVE  TableAt(h)' /\ NoneRevived
<1>1. /\ handler[h].at = "followUps" /\ UNCHANGED << dep, jobs, created, ready, history >>
      /\ handler[h].op \in { "Result", "Progress", "Heartbeat" }
      /\ ReportStands(handler[h])
  BY DEF CheckFollowUps, At, rows, Before, TableAt, CarriesItsJob
<1>2. HasSucceededInstall /\ (dep.state \in Ending => handler[h].state \in Ending)
  BY <1>1 DEF ReportStands
<1>3. RowsFit(handler[h])'
  BY <1>1, QuietFit
<1>4. CASE Finish(h)
  BY <1>1, <1>4, SameEnds, QuietEnd DEF Before
<1>5. CASE /\ handler[h].state \notin { "DELETING", "DELETED" }
           /\ \E step \in { "record", "config" } : GoTo(h, step)
  <2>1. PICK step \in { "record", "config" } : GoTo(h, step)
    BY <1>5
  <2>2. /\ handler'[h].op = handler[h].op /\ handler'[h].at = step
        /\ handler'[h].job = handler[h].job /\ handler'[h].write = handler[h].write
        /\ handler'[h].next = handler[h].next
    BY <2>1, NextRow DEF Before
  <2>3. dep.state \notin Ending
    BY <1>2, <1>5 DEF Ending
  <2> QED BY <1>1, <1>2, <1>3, <2>2, <2>3, QuietlyOn
<1> QED BY <1>4, <1>5 DEF CheckFollowUps

\* A follow-up is queued for a deployment that day-2 work may touch.
LEMMA FollowUpKeeps ==
    ASSUME NEW h, Before(h), NEW type \in { "CONFIG_UPDATE", "DEPLOY_RELEASE" },
           NEW possible, NEW then, QueueFollowUp(h, type, possible, then),
           handler[h].at \in { "config", "deploy" },
           (type = "CONFIG_UPDATE" /\ then = "deploy") \/ then = "record"
    PROVE  TableAt(h)' /\ NoneRevived
<1>1. /\ UNCHANGED << dep, ready, history >> /\ RowsFit(handler[h])
      /\ handler[h].op \in { "Result", "Progress", "Heartbeat" }
      /\ HasSucceededInstall /\ dep.state \notin Ending
      /\ ReportStands(handler[h])
  BY DEF QueueFollowUp, Before, TableAt, ReportStands, CarriesItsJob
<1>2. Operable
  BY <1>1, DepFields
  DEF RowsFit, InstallsOnRecord, Operable, Serving, Unstarted, Ending, DepStates, Before
<1>3. GoTo(h, then) =>
         /\ handler'[h].op = handler[h].op /\ handler'[h].at = then
         /\ handler'[h].job = handler[h].job /\ handler'[h].write = handler[h].write
         /\ handler'[h].next = handler[h].next
  BY NextRow DEF Before
<1>4. CASE UNCHANGED << jobs, created >> /\ Finish(h)
  BY <1>1, <1>4, SameEnds, QuietEnd DEF Before
<1>5. CASE UNCHANGED << jobs, created >> /\ GoTo(h, then)
  <2>1. RowsFit(handler[h])'
    BY <1>1, <1>5, QuietFit
  <2> QED BY <1>1, <1>3, <1>5, <2>1, QuietlyOn
<1>6. CASE /\ CanInsert(FollowUpKey(type, handler[h].job))
           /\ InsertJob(FollowUpKey(type, handler[h].job), FALSE, FALSE) /\ GoTo(h, then)
  <2>1. PICK key \in Keys : key = FollowUpKey(type, handler[h].job)
    <3>1. handler[h].job \in Nat
      BY HandlerFields, BoundsAssumption DEF Before
    <3> QED BY <3>1, KeyType DEF FollowUpKey, JobTypes
  <2>2. key.type = type
    BY <2>1 DEF FollowUpKey, Key
  <2>3. /\ \A types : Busy(types)' <=> Busy(types) \/ key.type \in types
        /\ HasSucceededInstall' <=> HasSucceededInstall
        /\ key.type \in IndexedTypes =>
              ~ Busy({ "INSTALL" }) /\ ~ Busy(Day2Types) /\ ~ Busy({ "DESTROY" })
              /\ ~ Busy({ "PURGE" })
        /\ NumbersInOrder' /\ MutationsInTurn'
    BY <1>6, <2>1, <2>2, InsertBusy DEF Before, TableAt
  <2>4. "DEPLOY_RELEASE" \in Day2Types /\ "CONFIG_UPDATE" \notin Day2Types
        /\ "DEPLOY_RELEASE" \in IndexedTypes
    BY DEF Day2Types, IndexedTypes, JobTypes
  <2>5. RowsFit(handler[h])'
    BY <1>1, <1>2, <2>2, <2>3, <2>4 DEF RowsFit, InstallsOnRecord, Operable
  <2>6. /\ handler'[h].op = handler[h].op /\ handler'[h].at = then
        /\ handler'[h].job = handler[h].job /\ handler'[h].write = handler[h].write
        /\ handler'[h].next = handler[h].next
    BY <1>3, <1>6
  <2>7. RequestStands(handler[h])'
    BY <1>1, <2>6 DEF RequestStands, Day2Requests
  <2>8. ReportStands(handler[h])'
    <3>1. \A types : handler[h].op \in Settlers =>
             (Names(handler[h], types)' <=> Names(handler[h], types))
      <4>1. handler[h].op \in Settlers => handler[h].job \in Jobs
        BY HandlerFields, BoundsAssumption DEF Before, CarriesItsJob, Jobs
      <4>2. \A j \in Jobs : Type(j)' = Type(j)
        BY <1>6, NewRow DEF Before, Type
      <4>3. handler[h].job \in Jobs =>
               jobs'[handler[h].job].key.type = jobs[handler[h].job].key.type
        BY <4>2 DEF Type
      <4> QED BY <2>6, <4>1, <4>3 DEF Names, Type
    <3> QED BY <1>1, <2>3, <2>6, <3>1 DEF ReportStands, Settlers, Watchdog
  <2> QED BY <1>6, <2>3, <2>5, <2>7, <2>8, InsertRevives DEF TableAt, Before
<1> QED BY <1>4, <1>5, <1>6 DEF QueueFollowUp

LEMMA FollowUpsKeep ==
    ASSUME NEW h, Before(h), QueueFirstFollowUp(h) \/ QueueSecondFollowUp(h)
    PROVE  TableAt(h)' /\ NoneRevived
<1>1. CASE QueueFirstFollowUp(h)
  BY <1>1, FollowUpKeeps DEF QueueFirstFollowUp, FollowUpOrder, At
<1>2. CASE QueueSecondFollowUp(h)
  BY <1>2, FollowUpKeeps DEF QueueSecondFollowUp, FollowUpOrder, At
<1> QED BY <1>1, <1>2

\* A heartbeat recovers or verifies a deployment whose INSTALL succeeded.
LEMMA WriteHeartbeatKeeps ==
    ASSUME NEW h, Before(h), WriteHeartbeat(h)
    PROVE  TableAt(h)' /\ NoneRevived
<1>1. /\ handler[h].op = "Heartbeat" /\ handler[h].at = "commit"
      /\ UNCHANGED << jobs, created, ready, history >>
      /\ RowsFit(handler[h]) /\ ReportStands(handler[h])
      /\ handler[h].next \in { "HEALTHY", "none" }
  BY DEF WriteHeartbeat, Runs, At, Before, TableAt, CarriesItsJob
<1>2. /\ handler[h].state = dep.state
      /\ handler[h].next = "HEALTHY" =>
            dep.state = "FAILED" \/ (dep.state = "INSTALLING" /\ HasSucceededInstall)
  BY <1>1 DEF ReportStands
<1>3. /\ dep'.state = IF handler[h].next = "none" THEN dep.state ELSE handler[h].next
      /\ dep'.enrolled = dep.enrolled
  BY DepFields DEF WriteHeartbeat, Before, DepRows
<1>4. PICK step \in { "verify", "promote", "repair" } : GoTo(h, step)
  BY DEF WriteHeartbeat
<1>5. /\ handler'[h].op = "Heartbeat" /\ handler'[h].at = step
      /\ handler'[h].state = handler[h].state
  BY <1>1, <1>4, NextRow DEF Before
<1>6. Ended({}, "none")
  BY <1>1, SameEnds DEF Before
<1>7. /\ \A types : (Busy(types)' <=> Busy(types)) /\ JobsOf(types)' = JobsOf(types)
      /\ HasSucceededInstall' <=> HasSucceededInstall
  BY <1>6, QuietBusy DEF Before, TableAt
<1>8. RowsFit(handler[h])'
  BY <1>1, <1>2, <1>3, <1>5, <1>7
  DEF RowsFit, InstallsOnRecord, Operable, Serving, Unstarted
<1>9. dep'.state \in Ending => handler'[h].state \in Ending
  BY <1>1, <1>2, <1>3, <1>5 DEF Ending
<1> QED BY <1>1, <1>3, <1>5, <1>8, <1>9, QuietlyOn

\* An install that stays unverified fails; nothing is active then.
LEMMA FailUnverifiedKeeps ==
    ASSUME NEW h, Before(h), FailUnverifiedInstall(h)
    PROVE  TableAt(h)' /\ NoneRevived
<1>1. /\ handler[h].op = "Heartbeat" /\ handler[h].at = "verify" /\ GoTo(h, "repair")
      /\ UNCHANGED << jobs, created, ready, history >>
      /\ RowsFit(handler[h]) /\ ReportStands(handler[h])
  BY DEF FailUnverifiedInstall, Runs, At, Before, TableAt
<1>2. dep.state \in Ending => handler[h].state \in Ending
  BY <1>1 DEF ReportStands
<1>3. /\ handler'[h].op = "Heartbeat" /\ handler'[h].at = "repair"
      /\ handler'[h].state = handler[h].state
  BY <1>1, NextRow DEF Before
<1>4. CASE UNCHANGED dep
  <2>1. RowsFit(handler[h])'
    BY <1>1, <1>4, QuietFit
  <2> QED BY <1>1, <1>2, <1>3, <1>4, <2>1, QuietlyOn
<1>5. CASE /\ dep.state = "INSTALLING" /\ Unverified
           /\ dep' = [ dep EXCEPT !.state = "FAILED" ]
  <2>1. dep'.state = "FAILED" /\ dep'.enrolled = dep.enrolled
    BY <1>5, DepFields DEF Before, DepRows
  <2>2. HasSucceededInstall /\ ActiveJobsOf(PointerTypes) = {}
    BY <1>5 DEF Unverified
  <2>3. ~ Busy({ "INSTALL" }) /\ ~ Busy(Day2Types) /\ ~ Busy({ "DESTROY" })
    BY <2>2 DEF Busy, ActiveJobsOf, JobsOf, PointerTypes, JobTypes, Day2Types
  <2>4. Ended({}, "none")
    BY <1>1, SameEnds DEF Before
  <2>5. /\ \A types : (Busy(types)' <=> Busy(types)) /\ JobsOf(types)' = JobsOf(types)
        /\ HasSucceededInstall' <=> HasSucceededInstall
    BY <2>4, QuietBusy DEF Before, TableAt
  <2>6. RowsFit(handler[h])'
    BY <1>1, <1>3, <1>5, <2>1, <2>3, <2>5 DEF RowsFit, InstallsOnRecord, Unstarted
  <2> QED BY <1>1, <1>3, <2>1, <2>6, QuietlyOn DEF Ending
<1> QED BY <1>4, <1>5 DEF FailUnverifiedInstall

\* A promotion leaves the deployment serving.
LEMMA PromoteKeeps ==
    ASSUME NEW h, Before(h), ReconcileRunningDigest(h)
    PROVE  TableAt(h)' /\ NoneRevived
<1>1. /\ handler[h].op = "Heartbeat" /\ handler[h].at = "promote" /\ GoTo(h, "repair")
      /\ UNCHANGED << jobs, created, ready >>
      /\ RowsFit(handler[h]) /\ ReportStands(handler[h])
  BY DEF ReconcileRunningDigest, Runs, At, Before, TableAt
<1>2. dep.state \in Ending => handler[h].state \in Ending
  BY <1>1 DEF ReportStands
<1>3. /\ handler'[h].op = "Heartbeat" /\ handler'[h].at = "repair"
      /\ handler'[h].state = handler[h].state
  BY <1>1, NextRow DEF Before
<1>4. /\ history'.installed = history.installed /\ dep'.enrolled = dep.enrolled
      /\ \/ dep'.state = dep.state
         \/ dep.state = "UPDATE_AVAILABLE" /\ dep'.state = "HEALTHY"
  <2>1. history \in [ installed: BOOLEAN, started: BOOLEAN ]
    BY DEF Before, Coherent, TypeOK
  <2> QED BY <2>1, DepFields
          DEF ReconcileRunningDigest, StateAfterPromotion, Before, DepRows
<1>5. Ended({}, "none")
  BY <1>1, SameEnds DEF Before
<1>6. /\ \A types : (Busy(types)' <=> Busy(types)) /\ JobsOf(types)' = JobsOf(types)
      /\ HasSucceededInstall' <=> HasSucceededInstall
      /\ NumbersInOrder' /\ MutationsInTurn'
  BY <1>5, QuietBusy DEF Before, TableAt
<1>7. RowsFit(handler[h])'
  BY <1>1, <1>3, <1>4, <1>6
  DEF RowsFit, InstallsOnRecord, Operable, Serving, Unstarted
<1>8. RequestStands(handler[h])'
  BY <1>3 DEF RequestStands, Day2Requests
<1>9. ReportStands(handler[h])'
  BY <1>2, <1>3, <1>4 DEF ReportStands, Settlers, Watchdog, Ending
<1> QED BY <1>5, <1>6, <1>7, <1>8, <1>9, EndedRevives DEF TableAt

\* Missing follow-ups are those of an INSTALL that succeeded.
LEMMA RepairKeeps ==
    ASSUME NEW h, Before(h), RepairFollowUps(h)
    PROVE  TableAt(h)' /\ NoneRevived
<1>1. /\ handler[h].op = "Heartbeat" /\ handler[h].at = "repair"
      /\ UNCHANGED << dep, jobs, created, ready, history >>
      /\ ReportStands(handler[h])
  BY DEF RepairFollowUps, Runs, At, Before, TableAt, rows
<1>2. dep.state \in Ending => handler[h].state \in Ending
  BY <1>1 DEF ReportStands
<1>3. CASE Finish(h)
  BY <1>1, <1>3, SameEnds, QuietEnd DEF Before
<1>4. CASE ~ Finish(h)
  <2>1. PICK j \in JobsOf({ "INSTALL" }) :
              Continue(h, [ handler[h] EXCEPT !.at = "followUps", !.job = j ])
    BY <1>4 DEF RepairFollowUps
  <2>2. HasSucceededInstall
    BY <1>4 DEF RepairFollowUps, HasSucceededInstall
  <2>3. handler'[h] = [ handler[h] EXCEPT !.at = "followUps", !.job = j ]
    BY <2>1, NextRow DEF Before
  <2>4. /\ handler'[h].op = "Heartbeat" /\ handler'[h].at = "followUps"
        /\ handler'[h].state = handler[h].state
    BY <1>1, <2>3, HandlerFields DEF Before, HandlerRows
  <2>5. RowsFit(handler[h])'
    BY <1>1, QuietFit
  <2> QED BY <1>1, <1>2, <2>2, <2>4, <2>5, QuietlyOn
<1> QED BY <1>3, <1>4

\* A release that becomes READY announces an update to a serving deployment.
LEMMA ReleaseReadyKeeps ==
    ASSUME NEW h, Before(h), CommitReleaseReady(h)
    PROVE  TableAt(h)' /\ NoneRevived
<1>1. /\ handler[h].op = "ReleaseReady" /\ Finish(h)
      /\ UNCHANGED << jobs, created, history >> /\ RowsFit(handler[h])
  BY DEF CommitReleaseReady, Runs, Before, TableAt
<1>2. /\ dep'.enrolled = dep.enrolled
      /\ dep'.state = dep.state \/ (dep.state = "HEALTHY" /\ dep'.state = "UPDATE_AVAILABLE")
  BY DepFields DEF CommitReleaseReady, Before, DepRows
<1>3. Ended({}, "none")
  BY <1>1, SameEnds DEF Before
<1>4. /\ \A types : (Busy(types)' <=> Busy(types)) /\ JobsOf(types)' = JobsOf(types)
      /\ HasSucceededInstall' <=> HasSucceededInstall
      /\ NumbersInOrder' /\ MutationsInTurn'
  BY <1>3, QuietBusy DEF Before, TableAt
<1>5. RowsFit(handler[h])'
  BY <1>1, <1>2, <1>4 DEF RowsFit, InstallsOnRecord, Operable, Serving, Unstarted
<1> QED BY <1>1, <1>3, <1>4, <1>5, EndsWell, EndedRevives

\* The statements that stand alone.
LEMMA AtOnceKeeps ==
    ASSUME NEW h, Before(h), AtOnce(h)
    PROVE  TableAt(h)' /\ NoneRevived
<1>1. handler[h] = Idle /\ handler' = handler /\ UNCHANGED << created, ready, history >>
  BY DEF AtOnce, Launch, HandBack, SweepRelayLiveness, Starts
<1>2. handler[h].op = "idle" /\ handler[h].at = "idle" /\ handler'[h] = Idle
  BY <1>1, IdleFields
<1>3. Ended({}, "none")
  <2>1. CASE UNCHANGED jobs
    BY <1>1, <2>1, SameEnds DEF Before
  <2>2. CASE \E j \in Jobs : HandBack(h, j)
    <3>1. PICK j \in Jobs : jobs[j].state = "RUNNING" /\ SetJobState(j, "REQUESTED")
      BY <2>2 DEF HandBack
    <3> QED BY <1>1, <3>1, SetEnds DEF Active, ActiveStates, JobStates, Before
  <2> QED BY <2>1, <2>2 DEF AtOnce, Launch, SweepRelayLiveness
<1>4. /\ \A types : (Busy(types)' <=> Busy(types)) /\ JobsOf(types)' = JobsOf(types)
      /\ HasSucceededInstall' <=> HasSucceededInstall
      /\ NumbersInOrder' /\ MutationsInTurn'
  BY <1>3, QuietBusy DEF Before, TableAt
<1>5. /\ dep'.enrolled = dep.enrolled
      /\ \/ dep'.state = dep.state
         \/ dep.state = "NOT_INSTALLED" /\ dep'.state = "WAITING_FOR_RELAY"
  BY DepFields DEF AtOnce, Launch, HandBack, SweepRelayLiveness, Before, DepRows
<1>6. RowsFit(handler[h])'
  BY <1>1, <1>2, <1>4, <1>5
  DEF RowsFit, InstallsOnRecord, Operable, Serving, Unstarted, Before, TableAt
<1> QED BY <1>2, <1>3, <1>4, <1>6, IdleStandsNext, EndedRevives DEF TableAt, Before

\* Every later step of the handler keeps the table.
LEMMA AdvanceKeepsTable ==
    ASSUME NEW h, Before(h), Advance(h)
    PROVE  TableAt(h)' /\ NoneRevived
BY MarkKeeps, RemoveKeeps, CancelObsoleteKeeps, RequireIdleKeeps, DecideKeeps, InsertRequestKeeps,
   InsertDestroyKeeps, InsertRetryKeeps, InsertFirstKeeps, EnrollKeeps, ForceCompleteKeeps,
   FreshCredentialKeeps, SupersedeKeeps, ClaimKeeps, RecordKeeps, RequeueKeeps, ParkKeeps,
   ResultKeeps, FailStuckKeeps, CheckFollowUpsKeeps, FollowUpsKeep, WriteHeartbeatKeeps,
   FailUnverifiedKeeps, PromoteKeeps, RepairKeeps, ReleaseReadyKeeps
DEF Advance

-----------------------------------------------------------------------------
(* What the handler reads. *)

\* What stands while it is read still stands when the handler carries it.
LEMMA StandsOn ==
    ASSUME NEW h, Before(h), handler[h] = Idle, UNCHANGED rows,
           NEW row, handler'[h] = row, RequestStands(row), ReportStands(row)
    PROVE  TableAt(h)' /\ NoneRevived
<1>1. UNCHANGED << dep, jobs, created, ready, history >>
  BY DEF rows
<1>2. Ended({}, "none")
  BY <1>1, SameEnds DEF Before
<1>3. /\ \A types : (Busy(types)' <=> Busy(types)) /\ JobsOf(types)' = JobsOf(types)
      /\ HasSucceededInstall' <=> HasSucceededInstall
      /\ NumbersInOrder' /\ MutationsInTurn'
  BY <1>2, QuietBusy DEF Before, TableAt
<1>4. RowsFit(handler[h])'
  BY <1>1, <1>3, IdleFields DEF RowsFit, InstallsOnRecord, Operable, Before, TableAt
<1>5. RequestStands(handler[h])'
  BY <1>1, <1>3
  DEF RequestStands, Operable, NextNumber, Names, Active, Type
<1>6. ReportStands(handler[h])'
  BY <1>1, <1>3
  DEF ReportStands, NextNumber, Names, Active, Type
<1> QED BY <1>2, <1>3, <1>4, <1>5, <1>6, EndedRevives DEF TableAt

\* The deployment between two requests.
LEMMA AtRest ==
    ASSUME NEW h, Before(h), handler[h] = Idle
    PROVE  /\ Busy({ "INSTALL" }) => ~ HasSucceededInstall /\ dep.state = "INSTALLING"
           /\ Busy(Day2Types) => Operable
           /\ Busy({ "DESTROY" }) => dep.state = "DELETING"
           /\ Busy({ "PURGE" }) => dep.state = "DELETED"
           /\ dep.state = "UPDATING" => Busy(Day2Types)
           /\ dep.state = "DELETING" => Busy({ "DESTROY" })
           /\ dep.state = "INSTALLING" => Busy({ "INSTALL" }) \/ HasSucceededInstall
           /\ InstallsOnRecord
BY IdleFields DEF Before, TableAt, RowsFit

\* The key of an attempt while none is active is the next one.
LEMMA NextAttempt ==
    ASSUME NEW h, Before(h), NEW type \in { "INSTALL", "DESTROY" }
    PROVE  LET key == RetryAwareIdempotencyKey(type, 0) IN
           /\ key.type = type /\ key.by = "request" /\ key.of = 0
           /\ key.n <= Cardinality(JobsOf({ type }))
           /\ ~ Busy({ type }) => NextNumber(key)
<1> DEFINE key == RetryAwareIdempotencyKey(type, 0)
           attempts == Attempts(type, 0)
<1>1. attempts = JobsOf({ type })
  BY DEF Attempts, JobsOf, NumbersInOrder, Before, TableAt
<1>2. Cardinality(JobsOf({ type })) \in Nat
      /\ (Cardinality(JobsOf({ type })) = 0 <=> JobsOf({ type }) = {})
  BY Counted DEF Before
<1>3. /\ key.type = type /\ key.by = "request" /\ key.of = 0
      /\ key.n = IF \E j \in attempts : IsLatest(j, attempts) /\ Settled(j)
                 THEN Cardinality(attempts) ELSE 0
  BY DEF RetryAwareIdempotencyKey, Key
<1>4. ASSUME ~ Busy({ type }) PROVE key.n = Cardinality(JobsOf({ type }))
  <2>1. CASE JobsOf({ type }) = {}
    BY <1>1, <1>2, <1>3, <2>1
  <2>2. CASE JobsOf({ type }) # {}
    <3>1. PICK j \in JobsOf({ type }) : IsLatest(j, JobsOf({ type }))
      <4>1. created \in Nat /\ JobsOf({ type }) \subseteq Jobs
        BY JobFields DEF Before, JobsOf
      <4> QED BY <2>2, <4>1, LatestExists
    <3>2. Settled(j)
      BY <1>4 DEF NumbersInOrder, Before, TableAt, Busy, ActiveJobsOf, JobsOf
    <3> QED BY <1>1, <1>3, <3>1, <3>2
  <2> QED BY <2>1, <2>2
<1>5. key.n <= Cardinality(JobsOf({ type }))
  BY <1>1, <1>2, <1>3
<1> HIDE DEF key
<1> QED BY <1>3, <1>4, <1>5 DEF NextNumber, key

\* What happens to the deployment when a job ends.
LEMMA EndStates ==
    ASSUME NEW j, NEW outcome \in { "SUCCEEDED", "FAILED" }
    PROVE  /\ Type(j) \in { "CONFIG_UPDATE", "PURGE" } => StateAfter(j, outcome) = "none"
           /\ Type(j) = "INSTALL" =>
                 StateAfter(j, outcome) = IF outcome = "FAILED" THEN "FAILED" ELSE "none"
           /\ Type(j) = "DESTROY" =>
                 StateAfter(j, outcome) = IF outcome = "FAILED" THEN "FAILED" ELSE "DELETED"
           /\ Type(j) \in Day2Types =>
                 StateAfter(j, outcome) \in { "FAILED", "HEALTHY", "UPDATE_AVAILABLE" }
BY DEF StateAfter, DeploymentStateAfterFailedJob, DeploymentStateAfterSucceededJob, Day2Types

\* Day-2 work is requested of a deployment it may touch.
LEMMA Day2Reads ==
    ASSUME NEW h, Before(h), NEW op \in { "Deploy", "Rollback", "Restart" },
           NEW type \in Day2Types, NEW of, LoadDay2(h, op, type, of)
    PROVE  TableAt(h)' /\ NoneRevived
<1> DEFINE key == RetryAwareIdempotencyKey(type, of)
           next == IF dep.state \in BulkDeployableStates THEN "UPDATING" ELSE "none"
           row == [ Idle EXCEPT !.op = op, !.at = "insert", !.key = key, !.next = next ]
<1>1. handler[h] = Idle /\ handler'[h] = row /\ UNCHANGED rows
      /\ RequireDeployableState /\ DeploymentIdle(key)
  BY NextRow DEF LoadDay2, Starts, Before
<1>2. key.type = type
  BY RequestKey
<1>3. ~ Busy({ "INSTALL" })
  <2>1. SUFFICES ASSUME NEW j \in ActiveJobsOf({ "INSTALL" }) PROVE FALSE
    BY DEF Busy
  <2>2. Type(j) = "INSTALL" /\ j \in ActiveJobsOf(IdleTypes)
    BY DEF ActiveJobsOf, JobsOf, IdleTypes, JobTypes
  <2>3. jobs[j].key = key
    BY <1>1, <2>2 DEF DeploymentIdle
  <2> QED BY <1>2, <2>2, <2>3 DEF Type, Day2Types
<1>4. Operable
  BY <1>1, <1>3, AtRest, DepFields
  DEF RequireDeployableState, UndeployableStates, Operable, Serving, DepStates, Before
<1>5. /\ row.op = op /\ row.at = "insert" /\ row.key = key /\ row.next = next
      /\ row.job = 0 /\ row.write = "none"
  BY DEF Idle
<1>6. next \in { "none", "UPDATING" }
      /\ (next = "UPDATING" => dep.state \in BulkDeployableStates)
  OBVIOUS
<1> HIDE DEF key, next, row
<1>7. RequestStands(row)
  BY <1>2, <1>4, <1>5, <1>6 DEF RequestStands, Day2Requests
<1>8. ReportStands(row)
  BY <1>5 DEF ReportStands, Settlers, Watchdog
<1> QED BY <1>1, <1>7, <1>8, StandsOn

LEMMA BulkReads ==
    ASSUME NEW h, Before(h), NEW r, LoadBulkDeploy(h, r)
    PROVE  TableAt(h)' /\ NoneRevived
<1> DEFINE key == RetryAwareIdempotencyKey("DEPLOY_RELEASE", r)
           row == [ Idle EXCEPT !.op = "BulkDeploy", !.at = "insert", !.key = key ]
<1>1. handler[h] = Idle /\ handler'[h] = row /\ UNCHANGED rows
      /\ dep.state \in BulkDeployableStates
  BY NextRow DEF LoadBulkDeploy, Starts, Before
<1>2. key.type \in Day2Types
  BY RequestKey DEF Day2Types
<1>3. Operable
  BY <1>1 DEF BulkDeployableStates, Operable, Serving
<1>4. /\ row.op = "BulkDeploy" /\ row.at = "insert" /\ row.key = key /\ row.next = "none"
      /\ row.job = 0 /\ row.write = "none"
  BY DEF Idle
<1> HIDE DEF key, row
<1>5. RequestStands(row)
  BY <1>2, <1>3, <1>4 DEF RequestStands, Day2Requests
<1>6. ReportStands(row)
  BY <1>4 DEF ReportStands, Settlers, Watchdog
<1> QED BY <1>1, <1>5, <1>6, StandsOn

LEMMA PurgeReads ==
    ASSUME NEW h, Before(h), LoadPurge(h)
    PROVE  TableAt(h)' /\ NoneRevived
<1> DEFINE key == RetryAwareIdempotencyKey("PURGE", 0)
           row == [ Idle EXCEPT !.op = "Purge", !.at = "insert", !.key = key ]
<1>1. handler[h] = Idle /\ handler'[h] = row /\ UNCHANGED rows /\ dep.state = "DELETED"
  BY NextRow DEF LoadPurge, Starts, Before
<1>2. key.type = "PURGE"
  BY RequestKey
<1>3. /\ row.op = "Purge" /\ row.at = "insert" /\ row.key = key /\ row.next = "none"
      /\ row.job = 0 /\ row.write = "none"
  BY DEF Idle
<1> HIDE DEF key, row
<1>4. RequestStands(row)
  BY <1>1, <1>2, <1>3 DEF RequestStands, Day2Requests
<1>5. ReportStands(row)
  BY <1>3 DEF ReportStands, Settlers, Watchdog
<1> QED BY <1>1, <1>4, <1>5, StandsOn

LEMMA DestroyReads ==
    ASSUME NEW h, Before(h), LoadDestroy(h)
    PROVE  TableAt(h)' /\ NoneRevived
<1> DEFINE key == RetryAwareIdempotencyKey("DESTROY", 0)
           step == IF dep.state \in { "NOT_INSTALLED", "WAITING_FOR_RELAY" }
                   THEN "commit" ELSE "check"
           row == [ Idle EXCEPT !.op = "Destroy", !.state = dep.state,
                       !.flag = dep.relay = "DISCONNECTED",
                       !.key = key, !.next = "DELETING", !.at = step ]
<1>1. handler[h] = Idle /\ handler'[h] = row /\ UNCHANGED rows /\ dep.state # "DELETED"
  BY NextRow DEF LoadDestroy, Starts, Before
<1>2. /\ key.type = "DESTROY" /\ key.by = "request" /\ key.of = 0
      /\ key.n <= Cardinality(JobsOf({ "DESTROY" }))
      /\ ~ Busy({ "DESTROY" }) => NextNumber(key)
  BY NextAttempt
<1>3. /\ row.op = "Destroy" /\ row.at = step /\ row.key = key /\ row.next = "DELETING"
      /\ row.job = 0 /\ row.write = "none"
  BY DEF Idle
<1>4. step \in { "commit", "check" } /\ (step = "commit" <=> dep.state \in Unstarted)
  BY DEF Unstarted
<1> HIDE DEF key, step, row
<1>5. RequestStands(row)
  BY <1>1, <1>2, <1>3, <1>4 DEF RequestStands, Day2Requests
<1>6. ReportStands(row)
  BY <1>3, <1>4 DEF ReportStands, Settlers, Watchdog
<1> QED BY <1>1, <1>5, <1>6, StandsOn

\* A removal is forced over an active DESTROY, or when the newest job is a failed one.
LEMMA ForceCompleteReads ==
    ASSUME NEW h, Before(h), LoadForceComplete(h)
    PROVE  TableAt(h)' /\ NoneRevived
<1> DEFINE active == ActiveJobsOf({ "DESTROY" })
           write == IF active # {} THEN "CANCELLED" ELSE "none"
<1>1. PICK j \in JobsOf({ "DESTROY" }) :
         /\ \/ IsLatest(j, active)
            \/ active = {} /\ jobs[j].state = "FAILED" /\ IsLatest(j, Jobs)
         /\ Continue(h, [ Idle EXCEPT !.op = "ForceComplete", !.at = "commit", !.job = j,
                            !.write = write ])
  BY DEF LoadForceComplete
<1> DEFINE row == [ Idle EXCEPT !.op = "ForceComplete", !.at = "commit", !.job = j,
                       !.write = write ]
<1>2. handler[h] = Idle /\ handler'[h] = row /\ UNCHANGED rows
  BY <1>1, NextRow DEF LoadForceComplete, Starts, Before
<1>3. /\ row.op = "ForceComplete" /\ row.at = "commit" /\ row.job = j /\ row.write = write
      /\ row.next = "none"
  BY DEF Idle
<1>4. IF write = "CANCELLED" THEN Active(j) ELSE ~ Busy(IndexedTypes)
  <2>1. CASE IsLatest(j, active)
    BY <2>1 DEF IsLatest, ActiveJobsOf
  <2>2. CASE active = {} /\ jobs[j].state = "FAILED" /\ IsLatest(j, Jobs)
    <3>1. ~ Active(j) /\ j \in JobsOf(IndexedTypes)
      BY <2>2 DEF Active, ActiveStates, JobsOf, IndexedTypes, JobTypes
    <3>2. \A i \in JobsOf(IndexedTypes) : ~ Active(i)
      <4>1. \A i \in JobsOf(IndexedTypes) : i = j \/ i < j
        BY <2>2, JobFields DEF IsLatest, JobsOf, Jobs, Before
      <4> QED BY <3>1, <4>1 DEF MutationsInTurn, Before, TableAt
    <3> QED BY <2>2, <3>2 DEF Busy, ActiveJobsOf
  <2> QED BY <1>1, <2>1, <2>2
<1> HIDE DEF active, write, row
<1>5. RequestStands(row)
  BY <1>3, <1>4 DEF RequestStands, Day2Requests
<1>6. ReportStands(row)
  BY <1>3 DEF ReportStands, Settlers, Watchdog
<1> QED BY <1>2, <1>5, <1>6, StandsOn

LEMMA PublicRetryReads ==
    ASSUME NEW h, Before(h), LoadPublicRetry(h)
    PROVE  TableAt(h)' /\ NoneRevived
<1> DEFINE flag == dep.enrolled \/ dep.reused
           row == [ Idle EXCEPT !.op = "PublicRetry", !.at = "commit",
                       !.next = "NOT_INSTALLED", !.flag = flag ]
<1>1. /\ handler[h] = Idle /\ handler'[h] = row /\ UNCHANGED rows
      /\ ~ HasSucceededInstall /\ dep.state \in PublicRetryableStates
  BY NextRow DEF LoadPublicRetry, Starts, Before
<1>2. /\ row.op = "PublicRetry" /\ row.at = "commit" /\ row.next = "NOT_INSTALLED"
      /\ row.job = 0 /\ row.write = "none"
  BY DEF Idle
<1> HIDE DEF flag, row
<1>3. RequestStands(row)
  BY <1>1, <1>2 DEF RequestStands, Day2Requests
<1>4. ReportStands(row)
  BY <1>2 DEF ReportStands, Settlers, Watchdog
<1> QED BY <1>1, <1>3, <1>4, StandsOn

LEMMA RetryInstallReads ==
    ASSUME NEW h, Before(h), LoadRetryInstall(h)
    PROVE  TableAt(h)' /\ NoneRevived
<1> DEFINE active == ActiveJobsOf({ "INSTALL" })
<1>1. PICK j \in 0 .. created :
         /\ IF active = {} THEN j = 0 ELSE j \in active
         /\ Continue(h, [ Idle EXCEPT !.op = "RetryInstall", !.job = j,
                            !.at = IF j = 0 THEN "insert" ELSE "cancel",
                            !.key = RetryInstallKey, !.next = "INSTALLING" ])
  BY DEF LoadRetryInstall
<1> DEFINE step == IF j = 0 THEN "insert" ELSE "cancel"
           row == [ Idle EXCEPT !.op = "RetryInstall", !.job = j, !.at = step,
                       !.key = RetryInstallKey, !.next = "INSTALLING" ]
<1>2. /\ handler[h] = Idle /\ handler'[h] = row /\ UNCHANGED rows
      /\ ~ HasSucceededInstall /\ (dep.state = "FAILED" \/ active # {})
  BY <1>1, NextRow DEF LoadRetryInstall, Starts, Before, NeverInstalled
<1>3. /\ row.op = "RetryInstall" /\ row.at = step /\ row.job = j /\ row.write = "none"
      /\ row.key = RetryInstallKey /\ row.next = "INSTALLING"
  BY DEF Idle
<1>4. /\ RetryInstallKey.type = "INSTALL" /\ RetryInstallKey.by = "request"
      /\ RetryInstallKey.of = 0 /\ NextNumber(RetryInstallKey)
  BY DEF RetryInstallKey, Key, NextNumber
<1>5. CASE active = {}
  <2>1. j = 0 /\ step = "insert" /\ dep.state = "FAILED" /\ ~ Busy({ "INSTALL" })
    BY <1>1, <1>2, <1>5 DEF Busy
  <2>2. ~ Busy(IndexedTypes)
    BY <1>2, <2>1, AtRest, OneBusy DEF Operable, Serving, Before
  <2> HIDE DEF active, step, row
  <2>3. RequestStands(row)
    BY <1>2, <1>3, <1>4, <2>1, <2>2 DEF RequestStands, Day2Requests
  <2>4. ReportStands(row)
    BY <1>3, <2>1 DEF ReportStands, Settlers, Watchdog
  <2> QED BY <1>2, <2>3, <2>4, StandsOn
<1>6. CASE active # {}
  <2>1. j \in active /\ Active(j) /\ Type(j) = "INSTALL" /\ j # 0 /\ step = "cancel"
    BY <1>1, <1>6, JobFields DEF ActiveJobsOf, JobsOf, Before
  <2>2. dep.state = "INSTALLING"
    BY <1>2, <1>6, AtRest DEF Busy
  <2> HIDE DEF active, step, row
  <2>3. Names(row, { "INSTALL" }) /\ Active(row.job)
    BY <1>3, <2>1 DEF Names
  <2>4. RequestStands(row)
    BY <1>2, <1>3, <1>4, <2>1, <2>2, <2>3 DEF RequestStands, Day2Requests
  <2>5. ReportStands(row)
    BY <1>3, <2>1 DEF ReportStands, Settlers, Watchdog
  <2> QED BY <1>2, <2>4, <2>5, StandsOn
<1> QED BY <1>5, <1>6

LEMMA RegisterReads ==
    ASSUME NEW h, Before(h), LoadRegister(h)
    PROVE  TableAt(h)' /\ NoneRevived
<1> DEFINE key == RetryAwareIdempotencyKey("INSTALL", 0)
           step == IF dep.state \in { "NOT_INSTALLED", "WAITING_FOR_RELAY" }
                   THEN "insert" ELSE "enroll"
           row == [ Idle EXCEPT !.op = "Register", !.state = dep.state,
                       !.flag = dep.reused, !.key = key, !.at = step ]
<1>1. handler[h] = Idle /\ handler'[h] = row /\ UNCHANGED rows /\ ~ dep.enrolled
  BY NextRow DEF LoadRegister, Starts, Before
<1>2. /\ key.type = "INSTALL" /\ key.by = "request" /\ key.of = 0
      /\ ~ Busy({ "INSTALL" }) => NextNumber(key)
  BY NextAttempt
<1>3. /\ row.op = "Register" /\ row.at = step /\ row.key = key /\ row.next = "none"
      /\ row.job = 0 /\ row.write = "none" /\ row.state = dep.state
  BY DEF Idle
<1>4. step \in { "insert", "enroll" } /\ (step = "insert" <=> dep.state \in Unstarted)
  BY DEF Unstarted
<1>5. dep.state \in Unstarted => NextNumber(key) /\ ~ Busy(IndexedTypes)
  BY <1>1, <1>2, AtRest, OneBusy DEF Operable, Serving, Unstarted, Before
<1> HIDE DEF key, step, row
<1>6. RequestStands(row)
  BY <1>3, <1>4 DEF RequestStands, Day2Requests
<1>7. ReportStands(row)
  BY <1>1, <1>2, <1>3, <1>4, <1>5 DEF ReportStands, Settlers, Watchdog
<1> QED BY <1>1, <1>6, <1>7, StandsOn

LEMMA ClaimReads ==
    ASSUME NEW h, Before(h), LoadClaim(h)
    PROVE  TableAt(h)' /\ NoneRevived
<1>1. PICK batch : Continue(h, [ Idle EXCEPT !.op = "Claim", !.at = "commit", !.batch = batch ])
  BY DEF LoadClaim
<1> DEFINE row == [ Idle EXCEPT !.op = "Claim", !.at = "commit", !.batch = batch ]
<1>2. handler[h] = Idle /\ handler'[h] = row /\ UNCHANGED rows
  BY <1>1, NextRow DEF LoadClaim, Starts, Before
<1>3. row.op = "Claim" /\ row.at = "commit"
  BY DEF Idle
<1> HIDE DEF row
<1>4. RequestStands(row)
  BY <1>3 DEF RequestStands, Day2Requests
<1>5. ReportStands(row)
  BY <1>3 DEF ReportStands, Settlers, Watchdog
<1> QED BY <1>2, <1>4, <1>5, StandsOn

LEMMA ProgressReads ==
    ASSUME NEW h, Before(h), NEW j \in Jobs, LoadProgress(h, j)
    PROVE  TableAt(h)' /\ NoneRevived
<1> DEFINE next == StateAfter(j, "FAILED")
           row == [ Idle EXCEPT !.op = "Progress", !.at = "commit", !.job = j,
                       !.write = "FAILED", !.next = next ]
<1>1. handler[h] = Idle /\ handler'[h] = row /\ UNCHANGED rows /\ Type(j) = "INSTALL"
  BY NextRow DEF LoadProgress, Starts, Before
<1>2. next = "FAILED" /\ j # 0
  BY <1>1, EndStates, JobFields DEF Before
<1>3. /\ row.op = "Progress" /\ row.at = "commit" /\ row.job = j /\ row.write = "FAILED"
      /\ row.next = next /\ row.seen = "none"
  BY DEF Idle
<1>4. "INSTALL" \notin Day2Types
  BY DEF Day2Types
<1> HIDE DEF next, row
<1>5. RequestStands(row)
  BY <1>3 DEF RequestStands, Day2Requests
<1>6. ReportStands(row)
  BY <1>1, <1>2, <1>3, <1>4 DEF ReportStands, Settlers, Watchdog, Names
<1> QED BY <1>1, <1>5, <1>6, StandsOn

LEMMA ResultReads ==
    ASSUME NEW h, Before(h), NEW j \in Jobs, NEW outcome \in { "SUCCEEDED", "FAILED" },
           LoadResult(h, j, outcome)
    PROVE  TableAt(h)' /\ NoneRevived
<1> DEFINE next == StateAfter(j, outcome)
           state == IF Type(j) = "INSTALL" THEN dep.state ELSE "none"
           row == [ Idle EXCEPT !.op = "Result", !.at = "commit", !.job = j,
                       !.state = state, !.seen = jobs[j].state, !.write = outcome,
                       !.next = next ]
<1>1. handler[h] = Idle /\ handler'[h] = row /\ UNCHANGED rows
  BY NextRow DEF LoadResult, Starts, Before
<1>2. /\ Type(j) \in { "CONFIG_UPDATE", "PURGE" } => next = "none"
      /\ Type(j) = "INSTALL" => next = IF outcome = "FAILED" THEN "FAILED" ELSE "none"
      /\ Type(j) = "DESTROY" => next = IF outcome = "FAILED" THEN "FAILED" ELSE "DELETED"
      /\ Type(j) \in Day2Types => next \in { "FAILED", "HEALTHY", "UPDATE_AVAILABLE" }
  BY EndStates
<1>3. /\ row.op = "Result" /\ row.at = "commit" /\ row.job = j /\ row.write = outcome
      /\ row.next = next /\ row.seen = jobs[j].state /\ row.state = state
  BY DEF Idle
<1>4. Type(j) = "INSTALL" => state = dep.state
  OBVIOUS
<1> HIDE DEF next, row, state
<1>5. RequestStands(row)
  BY <1>3 DEF RequestStands, Day2Requests
<1>6. ReportStands(row)
  BY <1>2, <1>3, <1>4 DEF ReportStands, Settlers, Watchdog, Names
<1> QED BY <1>1, <1>5, <1>6, StandsOn

LEMMA StuckReads ==
    ASSUME NEW h, Before(h), NEW j \in Jobs, LoadStuckJob(h, j)
    PROVE  TableAt(h)' /\ NoneRevived
<1> DEFINE op == IF dep.relay = "CONNECTED" THEN "StuckJobs" ELSE "StrandedJobs"
           write == Verdict(j)
           next == IF write = "FAILED" THEN StateAfter(j, "FAILED") ELSE "none"
           requeues == jobs[j].requeues
           row == [ Idle EXCEPT !.op = op, !.at = "commit", !.job = j,
                       !.requeues = requeues, !.write = write, !.next = next ]
<1>1. handler[h] = Idle /\ handler'[h] = row /\ UNCHANGED rows /\ Active(j)
  BY NextRow DEF LoadStuckJob, Starts, Before
<1>2. /\ op \in Watchdog /\ write # "SUCCEEDED"
      /\ write = "FAILED" => next = StateAfter(j, "FAILED")
  BY DEF Verdict, Watchdog
<1>3. /\ row.op = op /\ row.at = "commit" /\ row.job = j /\ row.write = write
      /\ row.next = next
  BY DEF Idle
<1>4. /\ Type(j) \in { "CONFIG_UPDATE", "PURGE" } => StateAfter(j, "FAILED") = "none"
      /\ Type(j) = "INSTALL" => StateAfter(j, "FAILED") = "FAILED"
      /\ Type(j) = "DESTROY" => StateAfter(j, "FAILED") = "FAILED"
      /\ Type(j) \in Day2Types =>
            StateAfter(j, "FAILED") \in { "FAILED", "HEALTHY", "UPDATE_AVAILABLE" }
  BY EndStates
<1> HIDE DEF op, write, next, requeues, row
<1>5. RequestStands(row)
  BY <1>2, <1>3 DEF RequestStands, Day2Requests, Watchdog
<1>6. ReportStands(row)
  BY <1>1, <1>2, <1>3, <1>4 DEF ReportStands, Settlers, Watchdog, Names
<1> QED BY <1>1, <1>5, <1>6, StandsOn

LEMMA HeartbeatReads ==
    ASSUME NEW h, Before(h), NEW evidence, NEW release, LoadHeartbeat(h, evidence, release)
    PROVE  TableAt(h)' /\ NoneRevived
<1> DEFINE next == IF StateRecovered(evidence) \/ InstallVerifiedHealthy(evidence)
                   THEN "HEALTHY" ELSE "none"
           row == [ Idle EXCEPT !.op = "Heartbeat", !.at = "commit",
                       !.state = dep.state, !.current = dep.current,
                       !.evidence = evidence, !.release = release, !.next = next ]
<1>1. handler[h] = Idle /\ handler'[h] = row /\ UNCHANGED rows
  BY NextRow DEF LoadHeartbeat, Starts, Before
<1>2. next = "HEALTHY" =>
         dep.state = "FAILED" \/ (dep.state = "INSTALLING" /\ HasSucceededInstall)
  BY DEF StateRecovered, InstallVerifiedHealthy
<1>3. /\ row.op = "Heartbeat" /\ row.at = "commit" /\ row.job = 0 /\ row.write = "none"
      /\ row.next = next /\ row.state = dep.state
  BY DEF Idle
<1> HIDE DEF next, row
<1>4. RequestStands(row)
  BY <1>3 DEF RequestStands, Day2Requests
<1>5. ReportStands(row)
  BY <1>2, <1>3 DEF ReportStands, Settlers, Watchdog
<1> QED BY <1>1, <1>4, <1>5, StandsOn

LEMMA ReleaseReads ==
    ASSUME NEW h, Before(h), NEW r, LoadReleaseReady(h, r)
    PROVE  TableAt(h)' /\ NoneRevived
<1> DEFINE flag == /\ dep.state = "HEALTHY"
                   /\ r > dep.current \/ NewerReadyReleaseExists(dep.current)
           row == [ Idle EXCEPT !.op = "ReleaseReady", !.at = "commit", !.release = r,
                       !.flag = flag ]
<1>1. handler[h] = Idle /\ handler'[h] = row /\ UNCHANGED rows
  BY NextRow DEF LoadReleaseReady, Starts, Before
<1>2. row.op = "ReleaseReady" /\ row.at = "commit"
  BY DEF Idle
<1> HIDE DEF flag, row
<1>3. RequestStands(row)
  BY <1>2 DEF RequestStands, Day2Requests
<1>4. ReportStands(row)
  BY <1>2 DEF ReportStands, Settlers, Watchdog
<1> QED BY <1>1, <1>3, <1>4, StandsOn

\* Every first step of the handler keeps the table.
LEMMA LoadKeepsTable ==
    ASSUME NEW h, Before(h), Load(h)
    PROVE  TableAt(h)' /\ NoneRevived
<1>1. ~ LoadConfigUpdate(h) /\ ~ LoadReset(h)
  BY DEF LoadConfigUpdate, LoadReset, Starts, Before, OneByOne
<1>2. \A r : LoadDeploy(h, r) \/ LoadRollback(h, r) \/ LoadRestart(h)
             => TableAt(h)' /\ NoneRevived
  BY Day2Reads DEF LoadDeploy, LoadRollback, LoadRestart, Day2Types
<1> QED
  BY <1>1, <1>2, BulkReads, PurgeReads, DestroyReads, ForceCompleteReads, PublicRetryReads,
     RetryInstallReads, RegisterReads, ClaimReads, ProgressReads, ResultReads, StuckReads,
     HeartbeatReads, ReleaseReads DEF Load

-----------------------------------------------------------------------------
(* The inductive invariant of the table. *)

\* What one handler announces stays true: the pointer moves only in its hands.
LEMMA AnnouncedAlone ==
    ASSUME NEW h, Before(h), Step(h), NoneRevived, AnnouncementsStand, UpdateAvailableIsTrue
    PROVE  AnnouncementsStand' /\ UpdateAvailableIsTrue'
<1>0. ready \subseteq ready' /\ \A g \in Handlers : g = h
  BY ReadyGrows DEF Before, OneByOne
<1>1. ASSUME dep'.current = dep.current, NewerReadyReleaseExists(dep.current)
      PROVE  NewerReadyReleaseExists(dep.current)'
  BY <1>0, <1>1 DEF NewerReadyReleaseExists
<1>2. ASSUME handler[h].op # "Heartbeat" PROVE dep'.current = dep.current
  BY <1>2, PointerMoves DEF Before, ReconcileRunningDigest, Runs
<1>3. \/ handler'[h] = Idle
      \/ handler'[h].op = handler[h].op /\ handler'[h].next = handler[h].next
         /\ handler'[h].release = handler[h].release
         /\ (handler'[h].flag = handler[h].flag \/ handler[h].op = "Destroy")
         /\ (handler'[h].job = handler[h].job \/ handler[h].op \in { "Heartbeat", "Destroy" })
      \/ FitsAsRead(handler'[h]) /\ UNCHANGED rows
  BY Errands DEF Before, SameErrand
<1>4. ASSUME handler'[h].next = "UPDATE_AVAILABLE", Active(handler[h].job)'
      PROVE  NewerReadyReleaseExists(dep.current)'
  <2>1. CASE /\ handler'[h].op = handler[h].op /\ handler'[h].next = handler[h].next
             /\ (handler'[h].job = handler[h].job \/ handler[h].op \in { "Heartbeat", "Destroy" })
    <3>1. /\ handler[h].op \in Settlers /\ handler[h].op \notin { "Heartbeat", "Destroy" }
          /\ handler[h].job \in Jobs
      BY <1>4, <2>1, HandlerFields, BoundsAssumption
      DEF Before, CarriesItsJob, Settlers, Watchdog, Jobs
    <3>2. Active(handler[h].job)
      <4>1. PICK j \in Jobs : j = handler[h].job
        BY <3>1
      <4>2. Active(j)'
        BY <1>4, <2>1, <3>1, <4>1 DEF Active
      <4> QED BY <4>1, <4>2 DEF NoneRevived
    <3> QED BY <1>1, <1>2, <1>4, <2>1, <3>1, <3>2 DEF AnnouncementsStand, Before
  <2>2. CASE FitsAsRead(handler'[h]) /\ UNCHANGED rows
    BY <1>1, <1>4, <2>2 DEF FitsAsRead, ReadRight, rows
  <2>3. handler'[h] # Idle
    BY <1>4 DEF Idle
  <2> QED BY <1>3, <2>1, <2>2, <2>3
<1>5. ASSUME handler'[h].op = "ReleaseReady", handler'[h].flag
      PROVE  handler'[h].release > dep'.current \/ NewerReadyReleaseExists(dep.current)'
  <2>1. CASE /\ handler'[h].op = handler[h].op
             /\ handler'[h].release = handler[h].release
             /\ (handler'[h].flag = handler[h].flag \/ handler[h].op = "Destroy")
    BY <1>1, <1>2, <1>5, <2>1 DEF AnnouncementsStand, Before
  <2>2. CASE FitsAsRead(handler'[h]) /\ UNCHANGED rows
    BY <1>1, <1>5, <2>2 DEF FitsAsRead, ReadRight, rows
  <2>3. handler'[h] # Idle
    BY <1>5 DEF Idle
  <2> QED BY <1>3, <2>1, <2>2, <2>3
<1>6. ASSUME dep'.state = "UPDATE_AVAILABLE" PROVE NewerReadyReleaseExists(dep.current)'
  <2>1. CASE dep'.current # dep.current
    <3>1. ReconcileRunningDigest(h) /\ dep'.current = handler[h].release /\ MayPromote(h)
      BY <2>1, PointerMoves DEF ReconcileRunningDigest, Before
    <3>2. dep'.state = StateAfterPromotion(handler[h].release) /\ ready' = ready
      BY <3>1, DepFields DEF ReconcileRunningDigest, Before, DepRows
    <3>3. NewerReadyReleaseExists(handler[h].release)
      BY <1>6, <3>2 DEF StateAfterPromotion
    <3> QED BY <3>1, <3>2, <3>3 DEF NewerReadyReleaseExists
  <2>2. CASE dep'.current = dep.current /\ dep.state = "UPDATE_AVAILABLE"
    BY <1>1, <2>2 DEF UpdateAvailableIsTrue
  <2>3. CASE dep'.current = dep.current /\ SettlesItsJob(h) /\ dep'.state = handler[h].next
    BY <1>1, <1>6, <2>3 DEF SettlesItsJob, AnnouncementsStand, Before
  <2>4. CASE dep'.current = dep.current /\ CommitReleaseReady(h) /\ handler[h].flag
    <3>1. handler[h].release > dep.current \/ NewerReadyReleaseExists(dep.current)
      BY <2>4 DEF CommitReleaseReady, Runs, AnnouncementsStand, Before
    <3>2. handler[h].release \in ready'
      BY <2>4 DEF CommitReleaseReady
    <3> QED BY <1>1, <2>4, <3>1, <3>2 DEF NewerReadyReleaseExists
  <2> QED BY <1>6, <2>1, <2>2, <2>3, <2>4, StateMoves DEF Before
<1> QED BY <1>0, <1>4, <1>5, <1>6 DEF AnnouncementsStand, UpdateAvailableIsTrue

\* The initial rows are in order.
LEMMA InitInTurn ==
    ASSUME Init
    PROVE  InTurn
<1>1. Consistent
  BY InitConsistent
<1>2. /\ created = 0 /\ handler = [ h \in Handlers |-> Idle ]
      /\ history = [ installed |-> FALSE, started |-> FALSE ]
      /\ dep.state = "NOT_INSTALLED" /\ dep.enrolled = FALSE
  BY DEF Init
<1>3. \A types : JobsOf(types) = {}
  BY <1>2 DEF JobsOf, Jobs
<1>4. \A types : ~ Busy(types)
  BY <1>3 DEF Busy, ActiveJobsOf
<1>5. ~ HasSucceededInstall
  BY <1>3 DEF HasSucceededInstall
<1>6. NumbersInOrder /\ MutationsInTurn
  BY <1>3 DEF NumbersInOrder, MutationsInTurn
<1>7. InstallsOnRecord /\ JobsFitState /\ StateHasItsJob
  BY <1>2, <1>3, <1>4, <1>5
  DEF InstallsOnRecord, JobsFitState, StateHasItsJob, Unstarted
<1>8. \A h \in Handlers : RequestStands(handler[h]) /\ ReportStands(handler[h])
  BY <1>2, IdleStands
<1>9. AnnouncementsStand /\ UpdateAvailableIsTrue
  BY <1>2 DEF AnnouncementsStand, UpdateAvailableIsTrue, Idle
<1> QED BY <1>1, <1>6, <1>7, <1>8, <1>9 DEF InTurn, TableHolds

\* The table before a step, and after one.
LEMMA InTurnIs ==
    ASSUME OneByOne, NEW h \in Handlers
    PROVE  /\ InTurn => Before(h)
           /\ Consistent' /\ TableAt(h)' /\ AnnouncementsStand' /\ UpdateAvailableIsTrue'
              => InTurn'
<1>1. \A g \in Handlers : g = h
  BY DEF OneByOne
<1>2. InTurn => Before(h)
  BY OneRow DEF InTurn, TableHolds, Before, TableAt, Consistent
<1>3. TableAt(h)' =>
         /\ NumbersInOrder' /\ MutationsInTurn'
         /\ (InstallsOnRecord /\ JobsFitState /\ StateHasItsJob)'
         /\ RequestStands(handler[h])' /\ ReportStands(handler[h])'
  BY OneRow DEF TableAt
<1>4. TableAt(h)' =>
         \A g \in Handlers : RequestStands(handler[g])' /\ ReportStands(handler[g])'
  BY <1>1, <1>3
<1> QED BY <1>2, <1>3, <1>4 DEF InTurn, TableHolds

\* Every step keeps the table, as long as handlers run one after the other.
LEMMA StepInTurn ==
    ASSUME OneByOne, InTurn, NEW h \in Handlers, Step(h)
    PROVE  InTurn'
<1>1. Before(h) /\ Consistent /\ AnnouncementsStand /\ UpdateAvailableIsTrue
  BY InTurnIs DEF InTurn, TableHolds
<1>2. ~ Crash(h)
  BY DEF Crash, OneByOne
<1>3. TableAt(h)' /\ NoneRevived
  BY <1>1, <1>2, LoadKeepsTable, AdvanceKeepsTable, AtOnceKeeps DEF Step
<1>4. Consistent'
  BY <1>1, StepConsistent
<1> QED BY <1>1, <1>3, <1>4, AnnouncedAlone, InTurnIs

LEMMA StutterInTurn ==
    ASSUME InTurn, UNCHANGED vars
    PROVE  InTurn'
<1>1. Consistent'
  BY StutterConsistent DEF InTurn
<1>2. /\ dep' = dep /\ jobs' = jobs /\ created' = created /\ ready' = ready
      /\ handler' = handler /\ history' = history
  BY DEF vars
<1>3. \A types : JobsOf(types)' = JobsOf(types) /\ ActiveJobsOf(types)' = ActiveJobsOf(types)
  BY <1>2 DEF ActiveJobsOf, JobsOf, Jobs, Type, Active
<1>4. /\ HasSucceededInstall' <=> HasSucceededInstall
      /\ \A types : Busy(types)' <=> Busy(types)
  BY <1>2, <1>3 DEF HasSucceededInstall, Busy
<1>5. NumbersInOrder' /\ MutationsInTurn'
  <2>1. \A j : JobsOf({ Type(j) })' = JobsOf({ Type(j) })
    BY <1>2 DEF JobsOf, Jobs, Type
  <2> QED BY <1>2, <1>3, <2>1
          DEF InTurn, TableHolds, NumbersInOrder, MutationsInTurn, Active, Settled, Type
<1>6. \A op, step : Doing(op, step)' <=> Doing(op, step)
  BY <1>2 DEF Doing, Runs, At
<1>7. (InstallsOnRecord /\ JobsFitState /\ StateHasItsJob)'
  BY <1>2, <1>3, <1>4, <1>6
  DEF InTurn, TableHolds, InstallsOnRecord, JobsFitState, StateHasItsJob, Operable
<1>8. ASSUME NEW h \in Handlers PROVE RequestStands(handler[h])' /\ ReportStands(handler[h])'
  BY <1>2, <1>3, <1>4
  DEF InTurn, TableHolds, RequestStands, ReportStands, Operable, NextNumber, Names, Active,
      Type
<1>9. AnnouncementsStand' /\ UpdateAvailableIsTrue'
  BY <1>2
  DEF InTurn, TableHolds, AnnouncementsStand, UpdateAvailableIsTrue, NewerReadyReleaseExists,
      Active
<1> QED BY <1>1, <1>5, <1>7, <1>8, <1>9 DEF InTurn, TableHolds

\* The jobs and the state of a deployment agree, and what a request has read is still so
\* at its next step: while handlers run one after the other and to their end, no
\* credential is replaced, and no configuration message is fanned out.
THEOREM SerialInvariance ==
    ASSUME OneByOne
    PROVE  Spec => []InTurn
<1>1. Init => InTurn
  BY InitInTurn
<1>2. InTurn /\ [Next]_vars => InTurn'
  BY StepInTurn, StutterInTurn DEF Next, Step
<1> QED BY <1>1, <1>2, PTL DEF Spec

\* Between requests, an in-flight state is backed by the job it announces, whatever the
\* watchdog parked, re-offered or failed meanwhile: under the same condition.
THEOREM InFlightStateHasItsJobHolds ==
    ASSUME OneByOne
    PROVE  Spec => []InFlightStateHasItsJob
<1>1. ASSUME InTurn, \A h \in Handlers : handler[h] = Idle
      PROVE  /\ dep.state = "UPDATING" => ActiveJobsOf(Day2Types) # {}
             /\ dep.state = "DELETING" => ActiveJobsOf({ "DESTROY" }) # {}
             /\ dep.state = "INSTALLING" =>
                   \E j \in JobsOf({ "INSTALL" }) : Active(j) \/ jobs[j].state = "SUCCEEDED"
  <2>1. \A op, step : Doing(op, step) => step = "idle"
    BY <1>1, IdleFields DEF Doing, Runs, At
  <2>2. /\ dep.state = "UPDATING" => Busy(Day2Types)
        /\ dep.state = "DELETING" => Busy({ "DESTROY" })
        /\ dep.state = "INSTALLING" => Busy({ "INSTALL" }) \/ HasSucceededInstall
    BY <1>1, <2>1 DEF InTurn, TableHolds, StateHasItsJob
  <2> QED BY <2>2 DEF Busy, ActiveJobsOf, HasSucceededInstall
<1>2. InTurn => InFlightStateHasItsJob
  BY <1>1 DEF InFlightStateHasItsJob
<1> QED BY <1>2, SerialInvariance, PTL

\* An update is announced only while a newer READY release exists, whichever heartbeats
\* promote a release and whichever builds finish, with revivals by the watchdog, as long
\* as they run one after the other.
THEOREM AnnouncedInTurnHolds ==
    ASSUME OneByOne
    PROVE  Spec => []UpdateAvailableIsTrue
<1>1. InTurn => UpdateAvailableIsTrue
  BY DEF InTurn, TableHolds
<1> QED BY <1>1, SerialInvariance, PTL

\* An active INSTALL with the authority to delete a failed stack belongs to a deployment
\* none of whose INSTALLs ever succeeded: however often it was retried, superseded or
\* re-enrolled.
THEOREM RecoveryOnlyIfNeverInstalledHolds ==
    ASSUME OneByOne
    PROVE  Spec => []RecoveryOnlyIfNeverInstalled
<1>1. ASSUME InTurn, NEW j \in ActiveJobsOf({ "INSTALL" })
      PROVE  ~ history.installed
  <2>1. Busy({ "INSTALL" })
    BY <1>1 DEF Busy
  <2> QED BY <1>1, <2>1 DEF InTurn, TableHolds, JobsFitState, InstallsOnRecord
<1>2. InTurn => RecoveryOnlyIfNeverInstalled
  BY <1>1 DEF RecoveryOnlyIfNeverInstalled
<1> QED BY <1>2, SerialInvariance, PTL

\* Only its DESTROY settles a job of a deployment on its way out.
LEMMA EndingSettles ==
    ASSUME NEW h \in Handlers, Before(h), SettlesItsJob(h), dep.state \in Ending
    PROVE  \/ handler[h].next = "none"
           \/ dep.state = "DELETING" /\ handler[h].next \in { "DELETED", "FAILED" }
<1> DEFINE j == handler[h].job
<1>1. /\ handler[h].op \in Settlers /\ j \in Jobs /\ Active(j)
      /\ handler[h].write \in { "SUCCEEDED", "FAILED" }
  BY DEF SettlesItsJob
<1>2. handler[h].op \notin { "Register", "RetryInstall", "Destroy" } /\ j # 0
  BY <1>1 DEF Settlers, Watchdog, Jobs
<1>3. ~ Busy({ "INSTALL" }) /\ ~ Busy(Day2Types)
      /\ (Busy({ "DESTROY" }) => dep.state = "DELETING")
  BY <1>2 DEF Before, TableAt, RowsFit, Ending, Operable, Serving, Unstarted
<1>4. /\ Type(j) \in { "CONFIG_UPDATE", "PURGE" } => handler[h].next = "none"
      /\ Type(j) = "DESTROY" => handler[h].next \in { "DELETED", "FAILED" }
  BY <1>1, <1>2 DEF Before, TableAt, ReportStands, Names
<1>5. Type(j) \in { "CONFIG_UPDATE", "PURGE" } \/ (Type(j) = "DESTROY" /\ Busy({ "DESTROY" }))
  BY <1>1, <1>3, BusyWith DEF Before
<1> QED BY <1>3, <1>4, <1>5

\* A deployment on its way out ends DELETED or FAILED.
LEMMA EndingMoves ==
    ASSUME NEW h \in Handlers, Before(h), Step(h), dep.state \in Ending,
           dep'.state # dep.state
    PROVE  dep.state = "DELETING" /\ dep'.state \in { "DELETED", "FAILED" }
<1>d. Coherent /\ dep \in DepRows /\ OneByOne
  BY DepFields DEF Before
<1>e. dep.state = "DELETING" \/ dep.state = "DELETED"
  BY DEF Ending
<1>1. CASE Load(h)
  BY <1>1, LoadReads DEF rows
<1>2. CASE Crash(h)
  BY <1>2 DEF Crash, rows
<1>3. CASE AtOnce(h)
  BY <1>3, <1>d, <1>e DEF AtOnce, Launch, HandBack, SweepRelayLiveness, DepRows
<1>4. CASE CommitResult(h) \/ FailStuckJob(h)
  <2>1. handler[h].op \in Settlers /\ handler[h].write \in { "SUCCEEDED", "FAILED" }
    BY <1>4, <1>d, HandlerFields DEF CommitResult, FailStuckJob, Runs, Settlers, HandlerConsistent
  <2>2. UNCHANGED << jobs, created, dep, ready, history >> \/ SettlesItsJob(h)
    BY <1>4, <1>d, <2>1, SettleIsSettle DEF CommitResult, FailStuckJob, Before
  <2>3. SettlesItsJob(h) =>
           dep'.state = IF handler[h].next = "none" THEN dep.state ELSE handler[h].next
    BY <1>d DEF SettlesItsJob, SettleJob, DepRows
  <2> QED BY <2>2, <2>3, EndingSettles
<1>5. CASE MarkJobRequested(h)
  <2>1. handler[h].at = "mark" /\ dep'.state = handler[h].next /\ handler[h].next # "none"
    BY <1>5, <1>d, HandlerFields DEF MarkJobRequested, At, DepRows, HandlerConsistent
  <2> QED
    BY <1>e, <2>1
    DEF Before, TableAt, RequestStands, Day2Requests, BulkDeployableStates
<1>6. CASE WriteHeartbeat(h)
  <2>1. handler[h].op = "Heartbeat" /\ handler[h].at = "commit"
    BY <1>6 DEF WriteHeartbeat, Runs, At
  <2>2. handler[h].next \in { "HEALTHY", "none" }
    BY <2>1 DEF Before, CarriesItsJob
  <2>3. handler[h].next # "HEALTHY"
    BY <1>e, <2>1 DEF Before, TableAt, ReportStands
  <2> QED BY <1>6, <1>d, <2>2, <2>3 DEF WriteHeartbeat, DepRows
<1>7. CASE Enroll(h)
  <2>1. handler[h].op = "Register" /\ handler[h].state = dep.state
    BY <1>7 DEF Enroll, Runs, Before, TableAt, ReportStands
  <2> QED BY <1>7, <1>d, <1>e, <2>1 DEF Enroll, DepRows
<1>8. CASE RemoveNeverInstalled(h) \/ CommitForceComplete(h)
  BY <1>8, <1>d, <1>e DEF RemoveNeverInstalled, CommitForceComplete, DepRows
<1>9. CASE CommitFreshCredential(h)
  <2>1. handler[h].op = "PublicRetry"
    BY <1>9, <1>d, HandlerFields
    DEF CommitFreshCredential, Runs, OneByOne, HandlerConsistent
  <2> QED BY <1>e, <2>1 DEF Before, TableAt, RequestStands, PublicRetryableStates
<1>10. CASE FailUnverifiedInstall(h) \/ ReconcileRunningDigest(h) \/ CommitReleaseReady(h)
  BY <1>10, <1>d, <1>e
  DEF FailUnverifiedInstall, ReconcileRunningDigest, StateAfterPromotion, CommitReleaseReady,
      DepRows
<1>11. CASE /\ Advance(h) /\ ~ CommitResult(h) /\ ~ FailStuckJob(h)
            /\ ~ ReconcileRunningDigest(h) /\ ~ MarkJobRequested(h) /\ ~ WriteHeartbeat(h)
            /\ ~ CommitReleaseReady(h) /\ ~ Enroll(h) /\ ~ RemoveNeverInstalled(h)
            /\ ~ CommitForceComplete(h) /\ ~ CommitFreshCredential(h)
            /\ ~ FailUnverifiedInstall(h)
  BY <1>11
     DEF Advance, InsertRequest, InsertDestroy, InsertRetryInstall, InsertRequested,
         CancelObsoleteInstalls, RequireIdleForDestroy, DecideDataDeletion, CancelSuperseded,
         InsertFirstInstall, CommitClaim, CheckFollowUps, QueueFirstFollowUp,
         QueueSecondFollowUp, QueueFollowUp, RecordFollowUps, RepairFollowUps,
         RequeueStuckJob, ParkStuckJob, rows
<1> QED
  BY <1>1, <1>2, <1>3, <1>4, <1>5, <1>6, <1>7, <1>8, <1>9, <1>10, <1>11 DEF Step

\* What a step of the specification does to such a deployment.
LEMMA EndingStep ==
    ASSUME OneByOne, InTurn, [Next]_vars, dep.state \in Ending
    PROVE  \/ dep'.state = dep.state
           \/ dep.state = "DELETING" /\ dep'.state \in { "DELETED", "FAILED" }
<1>1. CASE Next
  <2>1. PICK h \in Handlers : Step(h)
    BY <1>1 DEF Next, Step
  <2>2. Before(h)
    BY InTurnIs
  <2> QED BY <2>1, <2>2, EndingMoves
<1> QED BY <1>1 DEF vars

\* DELETED is terminal: no leftover job, result, purge or sweep revives it.
THEOREM DeletedIsTerminalHolds ==
    ASSUME OneByOne
    PROVE  Spec => DeletedIsTerminal
<1>1. InTurn /\ [Next]_vars => [ dep.state = "DELETED" => dep'.state = "DELETED" ]_vars
  BY EndingStep DEF Ending
<1> QED BY <1>1, SerialInvariance, PTL DEF Spec, DeletedIsTerminal

\* A teardown ends in DELETED or FAILED and in nothing else.  The run stale_heartbeat
\* shows why the handlers have to take turns for it.
THEOREM DeletingEndsTheDeploymentHolds ==
    ASSUME OneByOne
    PROVE  Spec => DeletingEndsTheDeployment
<1>1. InTurn /\ [Next]_vars =>
        [ dep.state = "DELETING" => dep'.state \in { "DELETING", "DELETED", "FAILED" } ]_vars
  BY EndingStep DEF Ending
<1> QED BY <1>1, SerialInvariance, PTL DEF Spec, DeletingEndsTheDeployment

\* One handler at a time, data deletion is authorised only for what never installed,
\* whatever was retried, superseded, parked or revived before.  (Between the route's
\* read and its insert another handler may make this false: see the README.)
THEOREM DeletionInTurnHolds ==
    ASSUME OneByOne
    PROVE  Spec => []DataDeletionOnlyIfNeverInstalled
<1>1. Init => InTurn /\ DataDeletionOnlyIfNeverInstalled
  <2>1. Init => ActiveJobsOf({ "DESTROY" }) = {}
    BY DEF Init, ActiveJobsOf, JobsOf, Jobs
  <2> QED BY <2>1, InitInTurn DEF DataDeletionOnlyIfNeverInstalled
<1>2. ASSUME InTurn, DataDeletionOnlyIfNeverInstalled, NEW h \in Handlers, Step(h)
      PROVE  DataDeletionOnlyIfNeverInstalled'
  <2>1. Before(h) /\ NoneRevived /\ ~ Crash(h)
    <3>1. Before(h) /\ ~ Crash(h)
      BY <1>2, InTurnIs DEF Crash, OneByOne
    <3> QED BY <1>2, <3>1, LoadKeepsTable, AdvanceKeepsTable, AtOnceKeeps DEF Step
  <2>2. \A j \in JobIds : Active(j)' => Active(j) \/ (j = created' /\ created' # created)
    <3>1. ASSUME NEW j \in JobIds, Active(j)'
          PROVE  Active(j) \/ (j = created' /\ created' # created)
      <4>1. Coherent' /\ Coherent
        BY <1>2, <2>1, NextCoherent DEF Next, Step, Before
      <4>2. created \in Nat /\ created' \in Nat
        BY <4>1, BoundsAssumption DEF Coherent, TypeOK
      <4>3. j \in Nat /\ j >= 1 /\ j <= created'
        <5>1. ~ (j > created')
          BY <3>1, <4>1 DEF Coherent, RowsInOrder, Active, ActiveStates, NoJob
        <5> QED BY <4>2, <5>1 DEF JobIds
      <4>4. created' = created \/ created' = created + 1
        <5>1. Inserts => created' = created + 1
          BY DEF Inserts, InsertJob
        <5>2. SettlesItsJob(h) \/ MovesJobs(h) => created' = created
          BY DEF SettlesItsJob, MovesJobs
        <5> QED BY <1>2, <2>1, <4>1, <5>1, <5>2, Shapes DEF Before
      <4>5. CASE j \in Jobs
        BY <2>1, <3>1, <4>5 DEF NoneRevived
      <4>6. CASE j \notin Jobs
        BY <4>2, <4>3, <4>4, <4>6 DEF Jobs
      <4> QED BY <4>5, <4>6
    <3> QED BY <3>1
  <2> QED
    <3>1. Runs(h, { "Destroy" }, "insert") /\ handler[h].flag => ~ HasSucceededInstall
      BY <2>1 DEF Before, TableAt, RequestStands, Runs, At
    <3> QED
      BY <1>2, <2>1, <2>2, <3>1, DeletionKept DEF Before, InTurn, TableHolds, InstallsOnRecord
<1>3. ASSUME DataDeletionOnlyIfNeverInstalled, UNCHANGED vars
      PROVE  DataDeletionOnlyIfNeverInstalled'
  BY <1>3
  DEF vars, DataDeletionOnlyIfNeverInstalled, ActiveJobsOf, JobsOf, Jobs, Type, Active
<1>4. InTurn /\ DataDeletionOnlyIfNeverInstalled /\ [Next]_vars
      => InTurn' /\ DataDeletionOnlyIfNeverInstalled'
  BY <1>2, <1>3, StepInTurn, StutterInTurn DEF Next, Step
<1> QED BY <1>1, <1>4, PTL DEF Spec

\* A settled job keeps its outcome, the three writers that go by a job's id alone
\* included: what they name is still active when they write.
THEOREM SettledInTurnHolds ==
    ASSUME OneByOne
    PROVE  Spec => SettledJobKept
<1>1. ASSUME NEW h \in Handlers, Before(h), UnguardedWrite(h) PROVE Kept
  <2>1. \/ UNCHANGED jobs
        \/ \E state \in JobStates : SetJobState(handler[h].job, state) /\ Active(handler[h].job)
    BY <1>1
    DEF UnguardedWrite, CommitForceComplete, CancelSuperseded, ParkStuckJob, Runs, At,
        Before, TableAt, RequestStands, ReportStands, JobStates, ActiveStates, SettledStates
  <2> QED BY <1>1, <2>1, SettledIsNotActive, SetUnsettledKeeps DEF Kept, Before
<1>2. InTurn /\ [Next]_vars
      => [ \A j \in JobIds : Settled(j) => jobs'[j].state = jobs[j].state ]_vars
  BY <1>1, InTurnIs, AdvanceKeeps, OtherStepsKeep DEF Next, Kept, Before
<1> QED BY <1>2, SerialInvariance, PTL DEF Spec, SettledJobKept

=============================================================================
