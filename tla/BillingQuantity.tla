--------------------------- MODULE BillingQuantity ---------------------------
(***************************************************************************)
(* What an organization is billed for: the billing state of its            *)
(* deployments (billing-domain.ts and billing-lifecycle.ts of apps/api,    *)
(* and where server.ts calls them), the quantity that is pushed to Paddle  *)
(* (billing-reconcile.ts), and the safety job (sweepBilling of             *)
(* packages/cdk/src/lambda/worker.ts).                                     *)
(*                                                                         *)
(* One organization, its PRODUCTION deployments and its subscription.      *)
(***************************************************************************)
EXTENDS Naturals, FiniteSets

CONSTANTS
    Deployments,
    Requests,     \* requests about deployments that may reconcile at the same time
    None,
    MaxAllowance, \* bounds the included deployments
    MaxFaults     \* bounds cut-offs, failing calls and lost reconciliations

ASSUME DeploymentsAssumption == IsFiniteSet(Deployments) /\ None \notin Deployments
ASSUME RequestsAssumption == Requests \cap { "sweep", "webhook" } = {}
ASSUME BoundsAssumption == MaxAllowance \in Nat /\ MaxFaults \in Nat

VARIABLES
    quantity,  \* the deployment item of the subscription, as Paddle has it
    updatable, \* billing_subscriptions has a status that may be updated
    included,  \* the organization's included deployments
    dep,       \* the deployments: state, billing_state, a READY step timing
    report,    \* deployments whose relay reported them READY while not billed
    removal,   \* the destroy route: the billing state it has read
    result,    \* the DESTROY's result, or force-complete: likewise
    promote,   \* the deployment that the safety job is about to promote
    count,     \* the reconciliations
    faults,
    atOnce,    \* those the route has read never installed, which it removes at once
    hasty      \* history: deployments whose removal was cut off before its billing,
               \* or that came up while they were being removed at once

vars == << quantity, updatable, included, dep, report, removal, result, promote, count,
           faults, atOnce, hasty >>
subscription == << quantity, updatable, included >>

Quantities == 0 .. Cardinality(Deployments)
BillingStates == { "NOT_STARTED", "ACTIVE", "STOPPED" }
Reconcilers == Requests \cup { "sweep", "webhook" }

ASSUME NoneAssumption == None \notin BillingStates

Quiet == [ at |-> "idle", expected |-> 0 ]
NoDeployment == [ state |-> "absent", billing |-> "NOT_STARTED", timed |-> FALSE ]

TypeOK ==
    /\ quantity \in Quantities
    /\ updatable \in BOOLEAN
    /\ included \in 0 .. MaxAllowance
    /\ dep \in [ Deployments -> [ state: { "absent", "waiting", "serving", "failed",
                                           "DELETING", "DELETED" },
                                  billing: BillingStates, timed: BOOLEAN ] ]
    /\ report \subseteq Deployments
    /\ removal \in [ Deployments -> BillingStates \cup { None } ]
    /\ result \in [ Deployments -> BillingStates \cup { None } ]
    /\ promote \in Deployments \cup { None }
    /\ count \in [ Reconcilers -> [ at: { "idle", "due", "counted" }, expected: Quantities ] ]
    /\ faults \in 0 .. MaxFaults
    /\ atOnce \subseteq Deployments
    /\ hasty \subseteq Deployments

Fault == faults < MaxFaults /\ faults' = faults + 1
NoFault == UNCHANGED faults

-----------------------------------------------------------------------------
(***************************************************************************)
(* Reconciliation.                                                         *)
(***************************************************************************)

Active == Cardinality({ d \in Deployments : dep[d].billing = "ACTIVE" })

\* Defect for mutation checks: a quantity below zero.
Unclamped(active, allowance) == active - allowance

\* billableDeploymentQuantity.
Billable(active, allowance) == IF active > allowance THEN active - allowance ELSE 0

Begin(q) == count[q].at = "idle" /\ count' = [ count EXCEPT ![q].at = "due" ]

\* A request goes on to reconcile what it changed, or fails before it does.
Reconcile ==
    \/ NoFault /\ \E q \in Requests : Begin(q)
    \/ Fault /\ UNCHANGED count

\* The safety job reconciles what was not reconciled for an hour.
BeginSweep ==
    /\ updatable
    /\ Begin("sweep")
    /\ UNCHANGED << subscription, dep, report, removal, result, promote, faults, atOnce, hasty >>

\* reconcileBilling counts, then reads the subscription, of which only some
\* statuses may be updated ...
Count(q) ==
    /\ count[q].at = "due"
    /\ count' = [ count EXCEPT ![q] =
                     IF updatable THEN [ at |-> "counted", expected |-> Billable(Active, included) ]
                                  ELSE Quiet ]
    /\ UNCHANGED << subscription, dep, report, removal, result, promote, faults, atOnce, hasty >>

\* Defect for mutation checks: the last deployment's item is never removed.
KeepsItem(expected) == IF expected = 0 THEN quantity ELSE expected

\* The absolute quantity; zero removes the item.
Pushed(expected) == expected

\* ... and makes Paddle agree, unless a call fails, before or after it is done.
Push(q) ==
    /\ count[q].at = "counted"
    /\ count' = [ count EXCEPT ![q] = Quiet ]
    /\ \/ NoFault /\ quantity' = Pushed(count[q].expected)
       \/ Fault /\ UNCHANGED quantity
    /\ UNCHANGED << updatable, included, dep, report, removal, result, promote, atOnce, hasty >>

\* The webhook applies an event of Paddle's.  A subscription that has become ACTIVE
\* is reconciled; a new one, after a CANCELED one, has no deployment item.
Webhook ==
    /\ updatable' \in BOOLEAN
    /\ quantity' \in { quantity } \cup { n \in { 0 } : ~ updatable }
    /\ \/ updatable' /\ Begin("webhook")
       \/ UNCHANGED count
    /\ UNCHANGED << included, faults, dep, report, removal, result, promote, atOnce, hasty >>

\* A Team Admin changes the allowance, which is reconciled likewise.
SetAllowance(n) ==
    /\ n # included
    /\ included' = n
    /\ Begin("webhook") \/ UNCHANGED count
    /\ UNCHANGED << quantity, updatable, faults, dep, report, removal, result, promote, atOnce, hasty >>

-----------------------------------------------------------------------------
(***************************************************************************)
(* Deployments: what bills them, and what stops that.                      *)
(***************************************************************************)

\* A deployment is created, directly or by a checkout, and installed later.
CreateDeployment(d) ==
    /\ dep[d] = NoDeployment
    /\ dep' = [ dep EXCEPT ![d].state = "waiting" ]
    /\ UNCHANGED << subscription, report, removal, result, promote, count, faults, atOnce, hasty >>

BecomeReady(d) ==
    /\ dep[d].state \in { "waiting", "failed" }
    /\ dep' = [ dep EXCEPT ![d].state = "serving" ]
    /\ UNCHANGED << subscription, report, removal, result, promote, count, faults, atOnce, hasty >>

\* A heartbeat, or a job's result, derives READY from what it has just written.
Report(d) ==
    /\ dep[d].state = "serving"
    /\ dep[d].billing = "NOT_STARTED"
    /\ d \notin report
    /\ report' = report \cup { d }
    /\ UNCHANGED << subscription, dep, removal, result, promote, count, faults, atOnce, hasty >>

\* applyBillingWrite updates WHERE billing_state is what was read.
MayStart(billing) == billing = "NOT_STARTED"

Started(d) == [ dep EXCEPT ![d].billing = IF MayStart(@) THEN "ACTIVE" ELSE @ ]
ReconcileIf(changed) == IF changed THEN Reconcile ELSE UNCHANGED << count, faults >>

\* markDeploymentLive, and then the step timings.  What fails is logged, and does not
\* keep the other from being written.
MarkLive(d) ==
    /\ d \in report
    /\ report' = report \ { d }
    /\ \/ /\ dep' = [ Started(d) EXCEPT ![d].timed = TRUE ]
          /\ ReconcileIf(MayStart(dep[d].billing))
       \/ Fault /\ dep' \in { dep, Started(d), [ dep EXCEPT ![d].timed = TRUE ] } /\ UNCHANGED count
    /\ UNCHANGED << subscription, removal, result, promote, atOnce, hasty >>

\* Defect for mutation checks: the safety job takes what the relay reports.
ReportedOnly(d) == d \in report

\* sweepBilling takes what was READY by its timings, and is not being removed.
Missed(d) == dep[d].timed /\ dep[d].state \notin { "DELETING", "DELETED" }

BeginPromote(d) ==
    /\ promote = None
    /\ Missed(d) /\ dep[d].billing = "NOT_STARTED"
    /\ promote' = d
    /\ UNCHANGED << subscription, dep, report, removal, result, count, faults, atOnce, hasty >>

\* What it promotes it reconciles in the same pass.
Promote(d) ==
    /\ promote = d
    /\ promote' = None
    /\ dep' = Started(d)
    /\ ReconcileIf(MayStart(dep[d].billing))
    /\ UNCHANGED << subscription, report, removal, result, atOnce, hasty >>

\* applyBillingWrite again; "STOPPED is terminal".
MayStop(billing, seen) == billing = seen /\ seen # "STOPPED"

\* The destroy route reads a deployment that was never installed ...
ReadAtOnce(d) ==
    /\ dep[d].state = "waiting"
    /\ removal[d] = None
    /\ removal' = [ removal EXCEPT ![d] = dep[d].billing ]
    /\ atOnce' = atOnce \cup { d }
    /\ UNCHANGED << subscription, dep, report, result, promote, count, faults, hasty >>

\* ... and removes it, in one transaction of which the billing write may miss.
RemoveAtOnce(d) ==
    /\ d \in atOnce
    /\ atOnce' = atOnce \ { d }
    /\ removal' = [ removal EXCEPT ![d] = None ]
    /\ \/ /\ dep' = [ dep EXCEPT ![d].state = "DELETED",
                    ![d].billing = IF MayStop(@, removal[d]) THEN "STOPPED" ELSE @ ]
          /\ hasty' = IF MayStop(dep[d].billing, removal[d]) THEN hasty ELSE hasty \cup { d }
          /\ ReconcileIf(MayStop(dep[d].billing, removal[d]))
       \/ Fault /\ UNCHANGED << dep, count, hasty >>
    /\ UNCHANGED << subscription, report, result, promote >>

\* For any other it accepts a DESTROY, also again; it has read the row before.
AcceptRemoval(d) ==
    /\ dep[d].state \in { "waiting", "serving", "failed", "DELETING" }
    /\ removal[d] = None
    /\ removal' = [ removal EXCEPT ![d] = dep[d].billing ]
    /\ dep' = [ dep EXCEPT ![d].state = "DELETING" ]
    /\ UNCHANGED << subscription, report, result, promote, count, faults, atOnce, hasty >>

\* markDeploymentRemoved.
MarkRemoved(d) ==
    /\ removal[d] # None /\ d \notin atOnce
    /\ removal' = [ removal EXCEPT ![d] = None ]
    /\ \/ /\ dep' = [ dep EXCEPT ![d].billing = IF MayStop(@, removal[d]) THEN "STOPPED" ELSE @ ]
          /\ ReconcileIf(MayStop(dep[d].billing, removal[d]))
          /\ UNCHANGED hasty
       \/ Fault /\ hasty' = hasty \cup { d } /\ UNCHANGED << dep, count >>
    /\ UNCHANGED << subscription, report, result, promote, atOnce >>

\* The DESTROY's result, or force-complete, which goes on from a failed DESTROY too,
\* reads the row.  The route has long ended: since, the relay has polled and deleted a
\* stack.
ReadResult(d) ==
    /\ dep[d].state \in { "DELETING", "failed" } /\ removal[d] = None
    /\ result[d] = None
    /\ result' = [ result EXCEPT ![d] = dep[d].billing ]
    /\ UNCHANGED << subscription, dep, report, removal, promote, count, faults, atOnce, hasty >>

\* Defect for mutation checks: no backstop.
NoBackstop(d) == FALSE

\* "Idempotent backstop".
Backstop(d) == MayStop(dep[d].billing, result[d])

\* The stack is deleted; or that fails, and the deployment stays.
EndRemoval(d) ==
    /\ result[d] # None
    /\ result' = [ result EXCEPT ![d] = None ]
    /\ \/ /\ dep' = [ dep EXCEPT ![d].state = "DELETED",
                                 ![d].billing = IF Backstop(d) THEN "STOPPED" ELSE @ ]
          /\ ReconcileIf(Backstop(d))
       \/ dep' = [ dep EXCEPT ![d].state = "failed" ] /\ UNCHANGED << count, faults >>
    /\ UNCHANGED << subscription, report, removal, promote, atOnce, hasty >>

-----------------------------------------------------------------------------
Init ==
    /\ quantity = 0
    /\ updatable = FALSE
    /\ included = 0
    /\ dep = [ d \in Deployments |-> NoDeployment ]
    /\ report = {}
    /\ removal = [ d \in Deployments |-> None ]
    /\ result = [ d \in Deployments |-> None ]
    /\ promote = None
    /\ count = [ q \in Reconcilers |-> Quiet ]
    /\ faults = 0
    /\ atOnce = {}
    /\ hasty = {}

Run(q) == Count(q) \/ Push(q)

Next ==
    \/ Webhook \/ BeginSweep
    \/ \E n \in 0 .. MaxAllowance : SetAllowance(n)
    \/ \E q \in Reconcilers : Run(q)
    \/ \E d \in Deployments :
          \/ CreateDeployment(d) \/ BecomeReady(d) \/ Report(d) \/ MarkLive(d)
          \/ BeginPromote(d) \/ Promote(d)
          \/ ReadAtOnce(d) \/ RemoveAtOnce(d)
          \/ AcceptRemoval(d) \/ MarkRemoved(d)
          \/ ReadResult(d) \/ EndRemoval(d)

Spec == Init /\ [][Next]_vars

\* Handlers end, and the safety job runs every quarter of an hour.  Nothing is
\* assumed of vendors, admins, relays and Paddle.
FairSpec ==
    /\ Spec
    /\ \A d \in Deployments : /\ WF_vars(MarkLive(d)) /\ WF_vars(MarkRemoved(d))
                             /\ WF_vars(RemoveAtOnce(d))
                             /\ WF_vars(EndRemoval(d)) /\ WF_vars(Promote(d))
    /\ WF_vars(BeginSweep) /\ WF_vars(\E d \in Deployments : BeginPromote(d))
    /\ \A q \in Reconcilers : WF_vars(Run(q))

-----------------------------------------------------------------------------
(***************************************************************************)
(* Properties.                                                             *)
(***************************************************************************)

\* A removed deployment is not billed: the destroy route, the DESTROY's result and
\* force-complete stop it, although each goes by what it has read, and a report or the
\* safety job may have started it since.  Where the route was cut off before its
\* write, a report as late as the result can start it for good; and what the route
\* removes at once stays billed when it came up, and was billed, after the route's read.
RemovedIsNotBilled ==
    \A d \in Deployments :
        dep[d].state = "DELETED" /\ d \notin hasty => dep[d].billing = "STOPPED"

\* What keeps it: once a removal has got through, billing has been started or stopped,
\* and what a later reader of the row goes by stays true until it is stopped.
RemovalsInOrder ==
    \A d \in Deployments :
        /\ d \in atOnce => removal[d] # None /\ dep[d].state \in { "waiting", "serving" }
        /\ d \in atOnce \/ dep[d].state \in { "absent", "waiting" } => result[d] = None
        /\ removal[d] \notin { None, "NOT_STARTED" } => dep[d].billing # "NOT_STARTED"
        /\ dep[d].state \in { "DELETING", "failed" } /\ removal[d] = None /\ d \notin hasty =>
              dep[d].billing # "NOT_STARTED"
        /\ result[d] # None /\ d \notin hasty =>
              result[d] # "NOT_STARTED" /\ dep[d].billing \in { result[d], "STOPPED" }

\* The inductive invariant, of which the type invariant is a part.
Consistent == TypeOK /\ RemovalsInOrder /\ RemovedIsNotBilled

\* A deployment that was READY is billed, or removed, also when the write that starts
\* it failed and its relay fell silent: the safety job goes by its step timings.
ReadyIsBilled ==
    \A d \in Deployments :
        dep[d].timed ~> (dep[d].billing # "NOT_STARTED" \/ dep[d].state \in { "DELETING", "DELETED" })

\* In the end Paddle bills for the deployments with an ACTIVE billing beyond the
\* allowance, however reconciliations overlapped, were late, failed or were lost, if
\* only the subscription stays updatable and the allowance as it is.
QuantityConverges ==
    \A n \in 0 .. MaxAllowance :
        <>[](updatable /\ included = n)
            => <>[](quantity = (IF Active > n THEN Active - n ELSE 0))

\* What the code says and does not hold: billing is "stopped the moment removal is
\* accepted" (docs/billing/paddle-billing.md) ...
RemovalStopsBilling ==
    [][ \A d \in Deployments \ hasty' :
          removal[d] # None /\ d \notin atOnce /\ removal'[d] = None =>
             dep'[d].billing = "STOPPED" ]_vars

\* ... and only what is live is billed.
RemovedIsNeverBilled ==
    \A d \in Deployments : dep[d].state = "DELETED" => dep[d].billing = "STOPPED"

=============================================================================
