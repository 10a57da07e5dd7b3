--------------------------- MODULE SecretDelivery ---------------------------
(***************************************************************************)
(* How a customer's secret value gets from the vendor's editor into the    *)
(* customer's AWS account: the config save of apps/api/src/config.ts, the  *)
(* vault of pending-secrets.ts, the queue and its fan-out, the claim that  *)
(* hands a value out once, the relay's config-update.ts, and what its      *)
(* acknowledgement deletes.                                                *)
(*                                                                         *)
(* One customer, one application, one key; the vendor saves its values     *)
(* 1, 2, ... one after the other.  Deployments come, install and go.       *)
(***************************************************************************)
EXTENDS Naturals, Sequences, SequencesExt, FiniteSets

CONSTANTS
    Deployments,
    MaxValues,   \* bounds the saves
    MaxFaults,   \* bounds lost messages, cut-offs, failures and expiries
    PromptQueue  \* messages arrive in order, and before the next INSTALL begins

ASSUME BoundsAssumption == MaxValues \in Nat /\ MaxFaults \in Nat
ASSUME QueueAssumption == PromptQueue \in BOOLEAN

VARIABLES
    dep,       \* the state of each deployment
    creating,  \* created deployments whose staged secrets are not bound yet
    latest,    \* the newest value the vendor has typed
    row,       \* the key is part of the scope's configuration
    save,      \* the request that saves it, and the scope it has read
    queue,     \* CONFIG_UPDATE messages, by the value they carry
    staged,    \* the staged row of the vault; 0 is no row
    bound,     \* the bound row of each deployment
    jobs,      \* the CONFIG_UPDATE jobs of each deployment
    relay,     \* what its relay is doing with which job
    store,     \* the value in the customer's AppConfigSecret
    faults,
    \* The rest only serves the properties.
    owed,      \* the deployments that were promised the latest value
    vaulted,   \* those that need not be running yet to get it
    told,      \* a CONFIG_UPDATE of theirs failed since: the vendor can see it
    dropped,   \* a value was lost, expired, left behind or omitted for good, since
    cut        \* an acknowledgement ever ended before it deleted the row

vars == << dep, creating, latest, row, save, queue, staged, bound, jobs, relay,
           store, faults, owed, vaulted, told, dropped, cut >>
history == << owed, vaulted, told, dropped, cut >>
vault == << staged, bound >>

Values == 0 .. MaxValues
States == { "absent", "waiting", "installing", "failed", "running", "removed" }
Live == { "installing", "failed", "running" }  \* a relay can act for them
Resting == [ at |-> "idle", job |-> 0, value |-> 0, fetched |-> 0, omitted |-> FALSE,
             ok |-> FALSE ]
NoSave == [ at |-> "idle", claimable |-> {}, preRelay |-> {}, bindable |-> {} ]

\* splitScopeDeployments: DELETED counts as pre-relay.
PreRelay == { d \in Deployments : dep[d] \in { "waiting", "removed" } }
Claimable == { d \in Deployments : dep[d] \in Live }
Bindable == PreRelay \cup { d \in Deployments : dep[d] = "installing" }

OpenJob(d, i) == jobs[d][i].state \in { "offered", "claimed" }

JobRows == [ value: Values, names: BOOLEAN, sealed: BOOLEAN,
             state: { "offered", "claimed", "done", "failed" } ]
Turns == [ at: { "idle", "fetch", "write", "report" }, job: Nat, value: Values,
           fetched: Values, omitted: BOOLEAN, ok: BOOLEAN ]

TypeOK ==
    /\ dep \in [ Deployments -> States ]
    /\ creating \subseteq Deployments
    /\ latest \in Values
    /\ row \in BOOLEAN
    /\ save \in [ at: { "idle", "queue", "persist" }, claimable: SUBSET Deployments,
                  preRelay: SUBSET Deployments, bindable: SUBSET Deployments ]
    /\ queue \in Seq(1 .. MaxValues)
    /\ staged \in Values
    /\ bound \in [ Deployments -> Values ]
    /\ jobs \in [ Deployments -> Seq(JobRows) ]
    /\ relay \in [ Deployments -> Turns ]
    /\ store \in [ Deployments -> Values ]
    /\ faults \in 0 .. MaxFaults
    /\ owed \subseteq Deployments /\ vaulted \subseteq owed
    /\ told \subseteq Deployments /\ dropped \subseteq Deployments
    /\ cut \subseteq Deployments

Fault == faults < MaxFaults /\ faults' = faults + 1
NoFault == UNCHANGED faults

-----------------------------------------------------------------------------
(***************************************************************************)
(* The vendor's save: setConfig.                                           *)
(***************************************************************************)

\* The deployments of the scope are read once, before anything is written.
BeginSave ==
    /\ save.at = "idle"
    /\ latest < MaxValues
    /\ latest' = latest + 1
    /\ save' = [ at |-> IF Claimable # {} THEN "queue" ELSE "persist",
                 claimable |-> Claimable, preRelay |-> PreRelay, bindable |-> Bindable ]
    /\ owed' = {} /\ vaulted' = {} /\ told' = {} /\ dropped' = {}
    /\ UNCHANGED << dep, creating, row, queue, vault, jobs, relay, store, faults, cut >>

\* writeSecrets, when a deployment of the scope can act on it today.
QueueValue ==
    /\ save.at = "queue"
    /\ queue' = Append(queue, latest)
    /\ save' = [ save EXCEPT !.at = "persist" ]
    /\ UNCHANGED << dep, creating, latest, row, vault, jobs, relay, store, faults, history >>

\* Defect for mutation checks: an installing deployment gets no bound row.
BindOnly(d) == d \in save.preRelay

\* upsertBound goes to every deployment the scope read found bindable.
Binds(d) == d \in save.bindable

\* The deployments the save has read as they are: one that was created or
\* finished its INSTALL since is missed.
Seen(d) ==
    /\ dep[d] \notin { "absent", "removed" }
    /\ d \in save.claimable \cup save.preRelay
    /\ dep[d] = "running" => d \in save.claimable

\* The row, then the vault: bound rows, or a staged row when the scope had no
\* deployment at all.
PersistValue ==
    /\ save.at = "persist"
    /\ row' = TRUE
    /\ bound' = [ d \in Deployments |-> IF Binds(d) THEN latest ELSE bound[d] ]
    /\ staged' = IF save.claimable = {} /\ save.preRelay = {} THEN latest ELSE staged
    /\ save' = NoSave
    /\ owed' = { d \in Deployments : Seen(d) }
    /\ vaulted' = owed' \cap save.bindable
    /\ UNCHANGED << dep, creating, latest, queue, jobs, relay, store, faults, told,
                    dropped, cut >>

\* The queue or the cipher refuses, or the request is cut off: the vendor gets
\* an error instead of a promise.
SaveFails ==
    /\ save.at # "idle"
    /\ Fault
    /\ save' = NoSave
    /\ UNCHANGED << dep, creating, latest, row, queue, vault, jobs, relay, store, history >>

-----------------------------------------------------------------------------
(***************************************************************************)
(* Deployments.                                                            *)
(***************************************************************************)

\* A new deployment is promised what is staged.
Create(d) ==
    /\ dep[d] = "absent"
    /\ dep' = [ dep EXCEPT ![d] = "waiting" ]
    /\ creating' = creating \cup { d }
    /\ owed' = IF save.at = "idle" /\ staged = latest /\ latest # 0
               THEN owed \cup { d } ELSE owed
    /\ vaulted' = vaulted \cup (owed' \ owed)
    /\ UNCHANGED << latest, row, save, queue, vault, jobs, relay, store, faults, told,
                    dropped, cut >>

\* A key that is bound already is left alone.
Materializes(d) == staged # 0 /\ bound[d] = 0

\* materializePendingSecretsForDeployment, after the transaction that created
\* the deployment; the request may end before it.
Materialize(d) ==
    /\ d \in creating
    /\ creating' = creating \ { d }
    /\ \/ /\ NoFault
          /\ bound' = [ bound EXCEPT ![d] = IF Materializes(d) THEN staged ELSE @ ]
          /\ UNCHANGED dropped
       \/ /\ Fault
          /\ dropped' = dropped \cup { d }
          /\ UNCHANGED bound
    /\ UNCHANGED << dep, latest, row, save, queue, staged, jobs, relay, store, owed,
                    vaulted, told, cut >>

\* The relay enrolls, or a failed first INSTALL is tried again.
BeginInstall(d) ==
    /\ dep[d] \in { "waiting", "failed" }
    /\ d \notin creating
    /\ relay[d] = Resting
    /\ PromptQueue => queue = << >>
    /\ dep' = [ dep EXCEPT ![d] = "installing" ]
    /\ UNCHANGED << creating, latest, row, save, queue, vault, jobs, relay, store,
                    faults, history >>

NewJob(v, names) == [ value |-> v, names |-> names, sealed |-> v = 0, state |-> "offered" ]

\* Defect for mutation checks: an install without a configuration pass.
NoFollowUp(d) == jobs[d]

\* queuePostInstallConfig names every key the configuration has by then.
WithFollowUp(d) == Append(jobs[d], NewJob(0, row))

EndInstall(d) ==
    /\ dep[d] = "installing"
    /\ \/ /\ dep' = [ dep EXCEPT ![d] = "running" ]
          /\ jobs' = [ jobs EXCEPT ![d] = WithFollowUp(d) ]
          /\ NoFault
       \/ /\ dep' = [ dep EXCEPT ![d] = "failed" ]
          /\ UNCHANGED jobs
          /\ Fault
    /\ UNCHANGED << creating, latest, row, save, queue, vault, relay, store, history >>

\* A removal ends everything of the deployment; only one that was never
\* installed or was forced drops its bound rows, others expire.
Teardown(d) ==
    /\ dep[d] \in { "waiting", "failed", "running" }
    /\ relay[d] = Resting
    /\ dep' = [ dep EXCEPT ![d] = "removed" ]
    /\ jobs' = [ jobs EXCEPT ![d] = << >> ]
    /\ store' = [ store EXCEPT ![d] = 0 ]
    /\ bound' = [ bound EXCEPT ![d] = IF dep[d] = "waiting" THEN 0 ELSE @ ]
    /\ creating' = creating \ { d }
    /\ owed' = owed \ { d }
    /\ vaulted' = vaulted \ { d }
    /\ UNCHANGED << latest, row, save, queue, staged, relay, faults, told, dropped, cut >>

\* sweepExpiredPendingSecrets, and the reads that skip expired rows.
Expire ==
    /\ Fault
    /\ \/ /\ staged # 0
          /\ staged' = 0
          /\ dropped' = dropped \cup creating
          /\ UNCHANGED bound
       \/ /\ UNCHANGED staged
          /\ \E d \in Deployments :
                /\ bound[d] # 0
                /\ bound' = [ bound EXCEPT ![d] = 0 ]
                /\ dropped' = dropped \cup { d }
    /\ UNCHANGED << dep, creating, latest, row, save, queue, jobs, relay, store, owed,
                    vaulted, told, cut >>

-----------------------------------------------------------------------------
(***************************************************************************)
(* The queue, the jobs and the relay.                                      *)
(***************************************************************************)

\* createOrReuseJob: the key holds the message id.
Fresh(d, v) == \A i \in DOMAIN jobs[d] : jobs[d][i].value # v

\* fanOutConfigUpdate: one job per deployment a relay can act for, keyed on
\* the message.  The message may be delivered again.
FanOut(n) ==
    /\ n \in DOMAIN queue
    /\ PromptQueue => n = 1
    /\ LET v == queue[n]
           new == { d \in Claimable : Fresh(d, v) } IN
       jobs' = [ d \in Deployments |-> IF d \in new THEN Append(jobs[d], NewJob(v, TRUE))
                                       ELSE jobs[d] ]
    /\ \/ NoFault /\ queue' = RemoveAt(queue, n)
       \/ Fault /\ UNCHANGED queue
    /\ UNCHANGED << dep, creating, latest, row, save, vault, relay, store, history >>

\* The claim hands the oldest job out, with its value, and then redacts the
\* row.  It may be cut off in between, and its response may be lost.
Claim(d) ==
    /\ dep[d] \in { "failed", "running" }
    /\ relay[d] = Resting
    /\ \A i \in DOMAIN jobs[d] : jobs[d][i].state # "claimed"
    /\ \E i \in DOMAIN jobs[d], redacted \in BOOLEAN :
          /\ jobs[d][i].state = "offered"
          /\ \A k \in 1 .. i - 1 : jobs[d][k].state # "offered"
          /\ jobs' = [ jobs EXCEPT ![d][i].state = "claimed", ![d][i].sealed = @ \/ redacted ]
          /\ LET value == IF jobs[d][i].sealed THEN 0 ELSE jobs[d][i].value IN
             \/ /\ NoFault /\ redacted
                /\ relay' = [ relay EXCEPT ![d] =
                     [ Resting EXCEPT !.at = "fetch", !.job = i, !.value = value ] ]
                /\ UNCHANGED dropped
             \/ /\ Fault
                /\ dropped' = IF value # 0 /\ redacted THEN dropped \cup { d } ELSE dropped
                /\ UNCHANGED relay
    /\ UNCHANGED << dep, creating, latest, row, save, queue, vault, store, owed,
                    vaulted, told, cut >>

\* GET /api/relay/config answers with the bound value, or without it when it
\* cannot be decrypted: the row is kept and the relay goes on.  Without an
\* application stack, or when a call fails, the command fails.
Fetch(d) ==
    /\ relay[d].at = "fetch"
    /\ \/ /\ dep[d] = "running" /\ NoFault
          /\ relay' = [ relay EXCEPT ![d].at = "write", ![d].fetched = bound[d] ]
       \/ /\ dep[d] = "running" /\ bound[d] # 0 /\ Fault
          /\ relay' = [ relay EXCEPT ![d].at = "write", ![d].omitted = TRUE ]
       \/ /\ IF dep[d] = "running" THEN Fault ELSE NoFault
          /\ relay' = [ relay EXCEPT ![d].at = "report" ]
    /\ UNCHANGED << dep, creating, latest, row, save, queue, vault, jobs, store, history >>

\* The values are merged: the store, over it the vault, over it the payload.
Merged(r, old) ==
    IF r.value # 0 THEN r.value ELSE IF r.fetched # 0 THEN r.fetched ELSE old

\* The value is put and rolled out; either may fail.
Write(d) ==
    /\ relay[d].at = "write"
    /\ \/ /\ store' = [ store EXCEPT ![d] = Merged(relay[d], @) ]
          /\ \/ NoFault /\ relay' = [ relay EXCEPT ![d].at = "report", ![d].ok = TRUE ]
             \/ Fault /\ relay' = [ relay EXCEPT ![d].at = "report" ]
       \/ /\ Fault
          /\ relay' = [ relay EXCEPT ![d].at = "report" ]
          /\ UNCHANGED store
    /\ UNCHANGED << dep, creating, latest, row, save, queue, vault, jobs, history >>

\* Defect for mutation checks: no answer deletes the bound row.
AckDeletesNothing(d) == FALSE

\* A success deletes the bound rows of the keys that the job named.
AckDeletes(d) == relay[d].ok /\ jobs[d][relay[d].job].names

\* The success of a job that was to bring the vault's value, and did not.
Omits(d) == relay[d].ok /\ relay[d].omitted /\ store[d] < bound[d]

\* The answer settles the job unless the watchdog did.  The row is deleted after
\* that, in the same request only: a repeated answer finds the job settled.
Report(d) ==
    /\ relay[d].at = "report"
    /\ relay' = [ relay EXCEPT ![d] = Resting ]
    /\ LET i == relay[d].job IN
       IF ~ OpenJob(d, i) THEN NoFault /\ UNCHANGED << jobs, bound, told, dropped, cut >>
       ELSE /\ jobs' = [ jobs EXCEPT ![d][i].state = IF relay[d].ok THEN "done" ELSE "failed" ]
            /\ \/ /\ NoFault
                  /\ bound' = [ bound EXCEPT ![d] = IF AckDeletes(d) THEN 0 ELSE @ ]
                  /\ dropped' = IF Omits(d) THEN dropped \cup { d } ELSE dropped
                  /\ UNCHANGED cut
               \/ /\ Fault /\ AckDeletes(d)
                  /\ dropped' = dropped \cup { d } /\ cut' = cut \cup { d }
                  /\ UNCHANGED bound
            /\ told' = IF relay[d].ok THEN told ELSE told \cup { d }
    /\ UNCHANGED << dep, creating, latest, row, save, queue, staged, store, owed, vaulted >>

\* The invocation ends before it has reported; what it held is gone.
CutOff(d) ==
    /\ relay[d].at # "idle"
    /\ Fault
    /\ relay' = [ relay EXCEPT ![d] = Resting ]
    /\ dropped' = IF relay[d].value = 0 THEN dropped ELSE dropped \cup { d }
    /\ UNCHANGED << dep, creating, latest, row, save, queue, vault, jobs, store, owed,
                    vaulted, told, cut >>

\* The watchdog re-offers a job nobody works on, or one that is slow.
Requeue(d) ==
    /\ \E i \in DOMAIN jobs[d] :
          /\ jobs[d][i].state = "claimed"
          /\ IF relay[d].job = i THEN Fault ELSE NoFault
          /\ jobs' = [ jobs EXCEPT ![d][i].state = "offered" ]
    /\ UNCHANGED << dep, creating, latest, row, save, queue, vault, relay, store, history >>

\* It fails one at last.
GiveUp(d) ==
    /\ Fault
    /\ \E i \in DOMAIN jobs[d] :
          /\ OpenJob(d, i)
          /\ jobs' = [ jobs EXCEPT ![d][i].state = "failed" ]
    /\ told' = told \cup { d }
    /\ UNCHANGED << dep, creating, latest, row, save, queue, vault, relay, store, owed,
                    vaulted, dropped, cut >>

-----------------------------------------------------------------------------
Init ==
    /\ dep = [ d \in Deployments |-> "absent" ]
    /\ creating = {}
    /\ latest = 0
    /\ row = FALSE
    /\ save = NoSave
    /\ queue = << >>
    /\ staged = 0
    /\ bound = [ d \in Deployments |-> 0 ]
    /\ jobs = [ d \in Deployments |-> << >> ]
    /\ relay = [ d \in Deployments |-> Resting ]
    /\ store = [ d \in Deployments |-> 0 ]
    /\ faults = 0
    /\ owed = {} /\ vaulted = {} /\ told = {} /\ dropped = {} /\ cut = {}

RelayStep(d) == Claim(d) \/ Fetch(d) \/ Write(d) \/ Report(d)

Next ==
    \/ BeginSave \/ QueueValue \/ PersistValue \/ SaveFails \/ Expire
    \/ \E n \in 1 .. MaxValues : FanOut(n)
    \/ \E d \in Deployments :
          \/ Create(d) \/ Materialize(d) \/ BeginInstall(d) \/ EndInstall(d) \/ Teardown(d)
          \/ RelayStep(d) \/ CutOff(d) \/ Requeue(d) \/ GiveUp(d)

Spec == Init /\ [][Next]_vars

\* Requests and queue messages are handled, a started INSTALL ends, a relay
\* polls every minute and the watchdog runs every quarter of an hour.
Fairness ==
    /\ WF_vars(QueueValue \/ PersistValue)
    /\ WF_vars(\E n \in 1 .. MaxValues : FanOut(n))
    /\ \A d \in Deployments :
          WF_vars(Materialize(d)) /\ WF_vars(RelayStep(d)) /\ WF_vars(Requeue(d))

FairSpec == Spec /\ Fairness

-----------------------------------------------------------------------------
(***************************************************************************)
(* Properties.                                                             *)
(***************************************************************************)

InQueue(v) == \E n \in DOMAIN queue : queue[n] = v
WillApply(d) == \E i \in DOMAIN jobs[d] :
                    /\ OpenJob(d, i)
                    /\ relay[d].job = i => relay[d].at = "fetch"

\* A turn that will not bring the value: it failed, or was answered without it.
Failing(d) == relay[d].omitted \/ (relay[d].at = "report" /\ ~ relay[d].ok)

\* A value is stored, or something still brings it to the deployment: its
\* message, its unclaimed job, the relay, or a vault row that a configuration
\* pass to come will fetch.
OnItsWay(d, v) ==
    \/ store[d] = v
    \/ dep[d] \in Live /\ InQueue(v)
    \/ \E i \in DOMAIN jobs[d] : jobs[d][i].value = v /\ ~ jobs[d][i].sealed /\ OpenJob(d, i)
    \/ relay[d].at = "fetch" /\ relay[d].value = v
    \/ relay[d].at = "write" /\ Merged(relay[d], 0) = v
    \/ bound[d] = v /\ (dep[d] \in { "waiting", "installing", "failed" } \/ WillApply(d))
    \/ staged = v /\ d \in creating /\ bound[d] = 0

\* The value that the vendor saved last is on its way to every deployment it
\* was promised to, unless it was lost in a claim, a cut-off invocation or by
\* expiry, an acknowledgement was cut off before it deleted the row, or one closed
\* a job whose fetch had left the value out.  A turn that fails, or that is cut off
\* after such a fetch, loses nothing.  A failed CONFIG_UPDATE excuses a deployment
\* that runs; one that is not installed yet still gets its value from the vault
\* ("bound rows deleted on success only", docs/pending-secret-delivery.md).
ValueIsOnItsWay ==
    save.at = "idle" =>
        \A d \in owed \ dropped :
            \/ OnItsWay(d, latest) \/ Failing(d)
            \/ d \in told /\ (d \in vaulted => dep[d] = "running")

\* Once no job of a deployment is open, its vault row is not older than what it
\* runs with, unless a job of it failed or an acknowledgement of it was cut off: a
\* row that outlives its value would come back with the next configuration pass
\* ("bound rows deleted on success only", pending-secret-delivery.md).
NoStaleRow ==
    \A d \in Deployments \ cut :
        /\ bound[d] # 0 /\ dep[d] = "running" /\ save.at = "idle"
        /\ \A i \in DOMAIN jobs[d] : jobs[d][i].state = "done"
        => bound[d] >= store[d]

-----------------------------------------------------------------------------
(* What carries these properties from step to step. *)

\* Messages are in the order of the saves, and none is newer than the latest; a
\* save promises nothing before it has ended.
QueueInOrder ==
    /\ \A m, n \in DOMAIN queue : m < n => queue[m] < queue[n]
    /\ \A n \in DOMAIN queue :
          queue[n] <= latest /\ (save.at = "queue" => queue[n] # latest)
    /\ staged <= latest
    /\ save.at = "idle" => save = NoSave
    /\ save.preRelay \subseteq save.bindable
    /\ save.at # "idle" => owed = {} /\ latest # 0

\* So are the jobs that are made of them.
JobsInOrder(d) ==
    \A i \in DOMAIN jobs[d] :
        /\ jobs[d][i].value <= latest
        /\ save.at = "queue" => jobs[d][i].value # latest
        /\ jobs[d][i].value # 0 => jobs[d][i].names
        /\ jobs[d][i].value = 0 => jobs[d][i].sealed
        /\ PromptQueue =>
              /\ \A k \in DOMAIN jobs[d] :
                    i < k /\ jobs[d][k].value # 0 => jobs[d][i].value < jobs[d][k].value
              /\ \A n \in DOMAIN queue : jobs[d][i].value <= queue[n]

\* A deployment without a relay has no job, one that never ran has no value, and
\* what a save has read of it can only have gone on.
InstallsInOrder(d) ==
    /\ d \in creating => dep[d] = "waiting"
    /\ bound[d] <= latest /\ store[d] <= latest
    /\ dep[d] \notin Live => jobs[d] = << >>
    /\ dep[d] # "running" => store[d] = 0
    /\ dep[d] = "absent" => bound[d] = 0
    /\ d \in save.claimable => dep[d] \in Live \cup { "removed" }
    /\ d \in save.bindable => dep[d] # "absent"
    /\ d \in owed => dep[d] \notin { "absent", "removed" } /\ latest # 0

\* A job that was never claimed still has its value.
Unclaimed(job) == job.state \in { "offered", "failed" } /\ (job.sealed <=> job.value = 0)

\* A job is claimed after the ones before it, and what the relay holds is what
\* its job had.
TurnsInOrder(d) ==
    /\ \A i, k \in DOMAIN jobs[d] : i < k /\ OpenJob(d, i) => Unclaimed(jobs[d][k])
    /\ relay[d].at = "idle" => relay[d] = Resting
    /\ relay[d].at # "idle" =>
          /\ dep[d] \in { "failed", "running" }
          /\ relay[d].job \in DOMAIN jobs[d]
          /\ jobs[d][relay[d].job].sealed /\ jobs[d][relay[d].job].state # "done"
          /\ relay[d].value \in { 0, jobs[d][relay[d].job].value }
          /\ relay[d].fetched <= latest
          /\ \A k \in DOMAIN jobs[d] :
                /\ k < relay[d].job => ~ OpenJob(d, k)
                /\ k > relay[d].job => Unclaimed(jobs[d][k])
    /\ relay[d].at = "write" \/ relay[d].ok => dep[d] = "running"
    /\ relay[d].ok => relay[d].at = "report"
    /\ relay[d].at = "fetch" => relay[d].fetched = 0
    /\ relay[d].omitted => relay[d].fetched = 0 /\ relay[d].at \in { "write", "report" }

\* A row that is older than what runs has a job whose success will delete it.
StaleRowGoes(d) ==
    /\ bound[d] # 0 /\ bound[d] < store[d] /\ d \notin cut =>
          \E i \in DOMAIN jobs[d] : jobs[d][i].names /\ jobs[d][i].state # "done"
    /\ bound[d] # 0 /\ relay[d].at = "write" => relay[d].fetched <= bound[d]

\* The latest value is in a message or an unclaimed job, or in the relay's hands.
Coming(d) ==
    \/ dep[d] \in Live /\ InQueue(latest) /\ Fresh(d, latest)
    \/ \E i \in DOMAIN jobs[d] :
          jobs[d][i].value = latest /\ ~ jobs[d][i].sealed /\ OpenJob(d, i)
    \/ /\ relay[d].at # "idle" /\ relay[d].value = latest
       /\ relay[d].at = "report" => ~ relay[d].ok /\ OpenJob(d, relay[d].job)

\* An older one is.
Older(d) ==
    \/ \E n \in DOMAIN queue : queue[n] < latest
    \/ \E i \in DOMAIN jobs[d] :
          jobs[d][i].value < latest /\ ~ jobs[d][i].sealed /\ OpenJob(d, i)
    \/ relay[d].at \in { "fetch", "write" } /\ relay[d].value \notin { 0, latest }

\* The latest value is stored and nothing will write over it.
Arrived(d) ==
    /\ store[d] = latest /\ ~ Older(d)
    /\ \/ bound[d] \in { 0, latest }
       \/ relay[d].at = "report" /\ relay[d].value = latest /\ relay[d].ok
    /\ relay[d].at = "write" => relay[d].fetched \in { 0, latest }

\* It is in the vault, and a job that is still open fetches it.
WillFetch(d) ==
    /\ bound[d] = latest /\ ~ Older(d)
    /\ \E i \in DOMAIN jobs[d] :
          /\ OpenJob(d, i)
          /\ relay[d].job = i /\ relay[d].ok => relay[d].omitted
    /\ relay[d].at = "write" => relay[d].fetched = latest \/ relay[d].omitted
    /\ relay[d].ok => store[d] = latest \/ relay[d].omitted

\* A deployment that the save has read as claimable gets the value as a message,
\* and so does one that would still get an older value.
MessageComes(d) ==
    /\ d \notin dropped \cup told =>
          /\ save.at = "persist" /\ d \in save.claimable =>
                dep[d] = "removed" \/ Coming(d) \/ Arrived(d)
          /\ (save.at = "persist" \/ d \in owed) /\ dep[d] \in Live /\ Older(d) => Coming(d)
    /\ \A i \in DOMAIN jobs[d] :
          jobs[d][i].value = latest /\ latest # 0 /\ jobs[d][i].state = "failed" => d \in told

\* One that was promised the latest value gets it from the vault or as a message.
PromiseKept(d) ==
    d \in owed \ dropped =>
        /\ dep[d] = "waiting" =>
              bound[d] = latest \/ (staged = latest /\ d \in creating /\ bound[d] = 0)
        /\ dep[d] \in { "installing", "failed" } =>
              bound[d] = latest \/ (d \notin vaulted /\ (d \in told \/ Coming(d)))
        /\ dep[d] = "running" =>
              d \in told \/ Coming(d) \/ Arrived(d) \/ WillFetch(d)

Coherent(d) ==
    /\ JobsInOrder(d) /\ InstallsInOrder(d) /\ TurnsInOrder(d) /\ StaleRowGoes(d)
    /\ PromptQueue => MessageComes(d) /\ PromiseKept(d)

Carried == TypeOK /\ QueueInOrder /\ \A d \in Deployments : Coherent(d)

\* The rows fit together: every variable has its type, no row is stale, and a
\* promise has what keeps it.
Consistent == Carried /\ NoStaleRow

\* A promised value reaches a running deployment in the end.
ValueArrives ==
    \A d \in Deployments, v \in 1 .. MaxValues :
        (d \in owed /\ latest = v /\ dep[d] = "running") ~>
            (store[d] = v \/ latest # v \/ d \in told \cup dropped \/ dep[d] # "running")

\* A fetch that cannot decrypt a value "omits the value, keeps the row, logs only
\* ids and retries next cycle" (docs/pending-secret-delivery.md): the row is there
\* when the turn ends.  The success of that turn deletes it.
OmittedRowKept ==
    [][ \A d \in Deployments :
          relay[d].omitted /\ relay'[d] = Resting => bound'[d] = bound[d] ]_vars

\* The claim is the last thing that needs the value: "After that response the
\* stored row never needs the plaintext again" (server.ts), so that a job that
\* succeeds has delivered it.  It does when the response is lost.
SuccessDelivers ==
    [][ \A d \in Deployments : \A i \in DOMAIN jobs[d] :
          i \in DOMAIN jobs'[d] /\ jobs[d][i].state # "done" /\ jobs'[d][i].state = "done"
              => store[d] >= jobs[d][i].value ]_vars

=============================================================================
