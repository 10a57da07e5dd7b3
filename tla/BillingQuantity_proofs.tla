----------------------- MODULE BillingQuantity_proofs -----------------------
(***************************************************************************)
(* Proofs about BillingQuantity, for every finite set of deployments, any  *)
(* number of concurrent requests and of faults.  The inductive invariant   *)
(* is Consistent.                                                          *)
(***************************************************************************)
EXTENDS BillingQuantity, FiniteSetTheorems, TLAPS

States == { "absent", "waiting", "serving", "failed", "DELETING", "DELETED" }
Rows == [ state: States, billing: BillingStates, timed: BOOLEAN ]
Counts == [ at: { "idle", "due", "counted" }, expected: Quantities ]

\* What Consistent says of one deployment.
InOrder(d) ==
    /\ d \in atOnce => removal[d] # None /\ dep[d].state \in { "waiting", "serving" }
    /\ d \in atOnce \/ dep[d].state \in { "absent", "waiting" } => result[d] = None
    /\ removal[d] \notin { None, "NOT_STARTED" } => dep[d].billing # "NOT_STARTED"
    /\ dep[d].state \in { "DELETING", "failed" } /\ removal[d] = None /\ d \notin hasty =>
          dep[d].billing # "NOT_STARTED"
    /\ result[d] # None /\ d \notin hasty =>
          result[d] # "NOT_STARTED" /\ dep[d].billing \in { result[d], "STOPPED" }
    /\ dep[d].state = "DELETED" /\ d \notin hasty => dep[d].billing = "STOPPED"

LEMMA ByDeployment == Consistent <=> TypeOK /\ \A d \in Deployments : InOrder(d)
BY DEF Consistent, RemovalsInOrder, RemovedIsNotBilled, InOrder

\* The type invariant in two parts: deployments, and what they are billed by.
RowsOK ==
    /\ dep \in [ Deployments -> Rows ]
    /\ report \subseteq Deployments
    /\ removal \in [ Deployments -> BillingStates \cup { None } ]
    /\ result \in [ Deployments -> BillingStates \cup { None } ]
    /\ promote \in Deployments \cup { None }
    /\ atOnce \subseteq Deployments /\ hasty \subseteq Deployments

MoneyOK ==
    /\ quantity \in Quantities
    /\ updatable \in BOOLEAN
    /\ included \in 0 .. MaxAllowance
    /\ count \in [ Reconcilers -> Counts ]
    /\ faults \in 0 .. MaxFaults

LEMMA InParts == TypeOK <=> RowsOK /\ MoneyOK
BY DEF TypeOK, RowsOK, MoneyOK, Rows, States, Counts

\* The deployments can be counted, and what is billed for is among them.
LEMMA QuantityTypes == Cardinality(Deployments) \in Nat /\ 0 \in Quantities
BY DeploymentsAssumption, FS_CardinalityType DEF Quantities

LEMMA BillableType ==
    ASSUME included \in 0 .. MaxAllowance
    PROVE  Billable(Active, included) \in Quantities
<1> DEFINE A == { d \in Deployments : dep[d].billing = "ACTIVE" }
<1>1. IsFiniteSet(A) /\ Cardinality(A) <= Cardinality(Deployments)
  <2>1. A \subseteq Deployments
    OBVIOUS
  <2> HIDE DEF A
  <2> QED  BY <2>1, DeploymentsAssumption, FS_Subset
<1>2. Cardinality(A) \in Nat
  BY <1>1, FS_CardinalityType
<1>3. Active = Cardinality(A)
  BY DEF Active
<1> HIDE DEF A
<1> QED  BY <1>1, <1>2, <1>3, QuantityTypes, BoundsAssumption DEF Billable, Quantities

\* A step of the reconcilers alone, and a request's part in a step.
LEMMA FaultsBounded == ASSUME MoneyOK, Fault \/ NoFault PROVE faults' \in 0 .. MaxFaults
BY BoundsAssumption DEF MoneyOK, Fault, NoFault

LEMMA CountsBegun ==
    ASSUME count \in [ Reconcilers -> Counts ], NEW q \in Reconcilers, Begin(q)
    PROVE  count' \in [ Reconcilers -> Counts ]
BY DEF Begin, Counts

LEMMA Reconciled ==
    ASSUME MoneyOK, UNCHANGED subscription, Reconcile \/ UNCHANGED << count, faults >> \/ (Fault /\ UNCHANGED count)
    PROVE  MoneyOK'
<1>1. faults' \in 0 .. MaxFaults
  <2>1. UNCHANGED faults => NoFault
    BY DEF NoFault
  <2> QED  BY <2>1, FaultsBounded DEF Reconcile
<1>2. count' \in [ Reconcilers -> Counts ]
  <2>1. ASSUME NEW q \in Requests PROVE q \in Reconcilers
    BY DEF Reconcilers
  <2> QED  BY <2>1, CountsBegun DEF Reconcile, MoneyOK
<1>3. UNCHANGED << quantity, updatable, included >>
  BY DEF subscription
<1> QED  BY <1>1, <1>2, <1>3 DEF MoneyOK

\* A step that leaves the deployments as they are, as reconcilers, Paddle and admins do.
LEMMA RowsKept ==
    ASSUME Consistent, MoneyOK', UNCHANGED << dep, report, removal, result, promote, atOnce, hasty >>
    PROVE  Consistent'
<1>1. RowsOK'
  BY ByDeployment, InParts DEF RowsOK
<1>2. TypeOK'
  BY <1>1, InParts DEF TypeOK, RowsOK, MoneyOK, Rows, States, Counts
<1> QED  BY <1>2 DEF Consistent, RemovalsInOrder, RemovedIsNotBilled

\* A step that changes one deployment.
LEMMA OneChanged ==
    ASSUME Consistent, MoneyOK', RowsOK', hasty \subseteq hasty', NEW d \in Deployments,
           \A e \in Deployments \ { d } :
              /\ dep'[e] = dep[e] /\ removal'[e] = removal[e] /\ result'[e] = result[e]
              /\ e \in atOnce' <=> e \in atOnce,
           InOrder(d)'
    PROVE  Consistent'
<1>1. TypeOK'
  BY DEF TypeOK, RowsOK, MoneyOK, Rows, States, Counts
<1>2. \A e \in Deployments : InOrder(e)'
  BY ByDeployment DEF InOrder
<1> QED  BY <1>1, <1>2 DEF InOrder, Consistent, RemovalsInOrder, RemovedIsNotBilled

\* What a step makes of one deployment's row.
Becomes(f, d, s, b) ==
    /\ f \in [ Deployments -> Rows ]
    /\ f[d].state = s /\ f[d].billing = b
    /\ \A e \in Deployments \ { d } : f[e] = dep[e]

LEMMA RowTypes ==
    ASSUME RowsOK, NEW d \in Deployments
    PROVE  /\ dep[d].state \in States /\ dep[d].billing \in BillingStates
           /\ Becomes(dep, d, dep[d].state, dep[d].billing)
BY DEF RowsOK, Rows, Becomes

LEMMA StateSet ==
    ASSUME RowsOK, NEW d \in Deployments, NEW s \in States
    PROVE  Becomes([ dep EXCEPT ![d].state = s ], d, s, dep[d].billing)
BY DEF RowsOK, Rows, Becomes

LEMMA BillingSet ==
    ASSUME RowsOK, NEW d \in Deployments, NEW b \in BillingStates
    PROVE  Becomes([ dep EXCEPT ![d].billing = b ], d, dep[d].state, b)
BY DEF RowsOK, Rows, Becomes

LEMMA BothSet ==
    ASSUME RowsOK, NEW d \in Deployments, NEW s \in States, NEW b \in BillingStates
    PROVE  Becomes([ dep EXCEPT ![d].state = s, ![d].billing = b ], d, s, b)
BY DEF RowsOK, Rows, Becomes

LEMMA TimedSet ==
    ASSUME RowsOK, NEW d \in Deployments, NEW s, NEW b, NEW f, Becomes(f, d, s, b)
    PROVE  Becomes([ f EXCEPT ![d].timed = TRUE ], d, s, b)
BY DEF RowsOK, Rows, Becomes

LEMMA StartedSet ==
    ASSUME RowsOK, NEW d \in Deployments
    PROVE  Becomes(Started(d), d, dep[d].state,
                   IF dep[d].billing = "NOT_STARTED" THEN "ACTIVE" ELSE dep[d].billing)
<1> DEFINE b == IF MayStart(dep[d].billing) THEN "ACTIVE" ELSE dep[d].billing
<1>1. b \in BillingStates
  BY RowTypes DEF BillingStates
<1>2. Started(d) = [ dep EXCEPT ![d].billing = b ]
  BY DEF Started
<1>3. b = IF dep[d].billing = "NOT_STARTED" THEN "ACTIVE" ELSE dep[d].billing
  BY DEF MayStart
<1> HIDE DEF b
<1> QED  BY <1>1, <1>2, <1>3, BillingSet

\* Billing that starts keeps every deployment in order: it was in order not to have started.
LEMMA StartInOrder ==
    ASSUME RowsOK, NEW d \in Deployments, InOrder(d), NEW b,
           b \in { dep[d].billing, IF dep[d].billing = "NOT_STARTED" THEN "ACTIVE" ELSE dep[d].billing },
           Becomes(dep', d, dep[d].state, b), UNCHANGED << removal, result, atOnce, hasty >>
    PROVE  InOrder(d)'
BY DEF InOrder, Becomes

\* Paddle, admins and reconcilers.
LEMMA MoneyConsistent ==
    ASSUME Consistent,
           \/ Webhook \/ BeginSweep
           \/ \E n \in 0 .. MaxAllowance : SetAllowance(n)
           \/ \E q \in Reconcilers : Run(q)
    PROVE  Consistent'
<1>1. RowsOK /\ MoneyOK
  BY InParts DEF Consistent
<1>2. \A q \in Reconcilers :
          Begin(q) => count' \in [ Reconcilers -> Counts ]
  BY <1>1, CountsBegun DEF MoneyOK
<1>3. { "sweep", "webhook" } \subseteq Reconcilers
  BY DEF Reconcilers
<1>4. UNCHANGED << dep, report, removal, result, promote, atOnce, hasty >>
  BY DEF Webhook, BeginSweep, SetAllowance, Run, Count, Push
<1>5. MoneyOK'
  <2>1. CASE Webhook
    BY <1>1, <1>2, <1>3, <2>1, QuantityTypes DEF Webhook, MoneyOK
  <2>2. CASE BeginSweep
    BY <1>1, <1>2, <1>3, <2>2 DEF BeginSweep, subscription, MoneyOK
  <2>3. ASSUME NEW n \in 0 .. MaxAllowance, SetAllowance(n) PROVE MoneyOK'
    BY <1>1, <1>2, <1>3, <2>3 DEF SetAllowance, MoneyOK
  <2>4. ASSUME NEW q \in Reconcilers, Count(q) PROVE MoneyOK'
    <3>1. Billable(Active, included) \in Quantities /\ Quiet \in Counts
      BY <1>1, BillableType, QuantityTypes DEF MoneyOK, Quiet, Counts
    <3>2. [ at |-> "counted", expected |-> Billable(Active, included) ] \in Counts
      BY <3>1 DEF Counts
    <3>3. count' \in [ Reconcilers -> Counts ]
      BY <1>1, <2>4, <3>1, <3>2 DEF Count, MoneyOK
    <3> QED  BY <1>1, <2>4, <3>3 DEF Count, subscription, MoneyOK
  <2>5. ASSUME NEW q \in Reconcilers, Push(q) PROVE MoneyOK'
    <3>1. Quiet \in Counts /\ count[q].expected \in Quantities
      BY <1>1, QuantityTypes DEF MoneyOK, Quiet, Counts
    <3>2. count' \in [ Reconcilers -> Counts ] /\ quantity' \in Quantities
      BY <1>1, <2>5, <3>1 DEF Push, Pushed, MoneyOK
    <3>3. faults' \in 0 .. MaxFaults
      BY <1>1, <2>5, FaultsBounded DEF Push
    <3> QED  BY <1>1, <2>5, <3>2, <3>3 DEF Push, MoneyOK
  <2> QED  BY <2>1, <2>2, <2>3, <2>4, <2>5 DEF Run
<1> QED  BY <1>4, <1>5, RowsKept

\* A deployment is created and installed, and reported; the safety job finds it.
LEMMA ServingConsistent ==
    ASSUME Consistent, NEW d \in Deployments,
           CreateDeployment(d) \/ BecomeReady(d) \/ Report(d) \/ BeginPromote(d)
    PROVE  Consistent'
<1>1. RowsOK /\ MoneyOK /\ InOrder(d)
  BY ByDeployment, InParts
<1>2. MoneyOK'
  BY <1>1, Reconciled DEF CreateDeployment, BecomeReady, Report, BeginPromote
<1>3. \/ UNCHANGED dep
      \/ \E s \in { "waiting", "serving" } :
            /\ s = "waiting" => dep[d].state = "absent"
            /\ dep' = [ dep EXCEPT ![d].state = s ]
  BY DEF CreateDeployment, BecomeReady, Report, BeginPromote, NoDeployment
<1>4. /\ UNCHANGED << removal, result, atOnce, hasty >>
      /\ report' \subseteq Deployments /\ promote' \in Deployments \cup { None }
  BY <1>1 DEF CreateDeployment, BecomeReady, Report, BeginPromote, RowsOK
<1>5. \E s \in { dep[d].state, "waiting", "serving" } :
         /\ s = "waiting" => dep[d].state \in { "absent", "waiting" }
         /\ Becomes(dep', d, s, dep[d].billing)
  BY <1>1, <1>3, RowTypes, StateSet DEF States
<1>6. RowsOK' /\ InOrder(d)'
  BY <1>1, <1>4, <1>5 DEF RowsOK, Becomes, InOrder
<1> QED  BY <1>2, <1>4, <1>5, <1>6, OneChanged DEF Becomes

\* Billing is started, by a report or by the safety job.
LEMMA StartConsistent ==
    ASSUME Consistent, NEW d \in Deployments, MarkLive(d) \/ Promote(d)
    PROVE  Consistent'
<1>1. RowsOK /\ MoneyOK /\ InOrder(d)
  BY ByDeployment, InParts
<1>2. MoneyOK'
  BY <1>1, Reconciled DEF MarkLive, Promote, ReconcileIf
<1>3. /\ UNCHANGED << removal, result, atOnce, hasty >>
      /\ report' \subseteq Deployments /\ promote' \in Deployments \cup { None }
  BY <1>1 DEF MarkLive, Promote, RowsOK
<1> DEFINE started == IF dep[d].billing = "NOT_STARTED" THEN "ACTIVE" ELSE dep[d].billing
<1>4. \E b \in { dep[d].billing, started } : Becomes(dep', d, dep[d].state, b)
  <2> HIDE DEF started
  <2>1. /\ Becomes(Started(d), d, dep[d].state, started)
        /\ Becomes([ Started(d) EXCEPT ![d].timed = TRUE ], d, dep[d].state, started)
        /\ Becomes(dep, d, dep[d].state, dep[d].billing)
        /\ Becomes([ dep EXCEPT ![d].timed = TRUE ], d, dep[d].state, dep[d].billing)
    BY <1>1, RowTypes, StartedSet, TimedSet DEF started
  <2>2. dep' \in { Started(d), [ Started(d) EXCEPT ![d].timed = TRUE ],
                   dep, [ dep EXCEPT ![d].timed = TRUE ] }
    BY DEF MarkLive, Promote
  <2> QED  BY <2>1, <2>2
<1>5. InOrder(d)'
  BY <1>1, <1>3, <1>4, StartInOrder
<1>6. RowsOK'
  BY <1>1, <1>3, <1>4 DEF RowsOK, Becomes
<1> QED  BY <1>2, <1>3, <1>4, <1>5, <1>6, OneChanged DEF Becomes

\* Removals: at once, or accepted, which reads the row and then stops what it has read.
LEMMA RemovalConsistent ==
    ASSUME Consistent, NEW d \in Deployments,
           ReadAtOnce(d) \/ RemoveAtOnce(d) \/ AcceptRemoval(d) \/ MarkRemoved(d)
    PROVE  Consistent'
<1>1. RowsOK /\ MoneyOK /\ InOrder(d)
  BY ByDeployment, InParts
<1>2. MoneyOK'
  BY <1>1, Reconciled DEF ReadAtOnce, RemoveAtOnce, AcceptRemoval, MarkRemoved, ReconcileIf
<1>3. dep[d].billing \in BillingStates
  BY <1>1, RowTypes
<1>3a. CASE ReadAtOnce(d)
  <2>1. /\ UNCHANGED << dep, report, result, promote, hasty >>
        /\ dep[d].state = "waiting" /\ removal' = [ removal EXCEPT ![d] = dep[d].billing ]
        /\ atOnce' = atOnce \cup { d }
    BY <1>3a DEF ReadAtOnce
  <2>2. RowsOK'
    BY <1>1, <1>3, <2>1 DEF RowsOK
  <2>3. InOrder(d)'
    BY <1>1, <1>3, <2>1, NoneAssumption DEF RowsOK, InOrder
  <2> QED  BY <1>2, <2>1, <2>2, <2>3, OneChanged DEF RowsOK
<1>4. CASE RemoveAtOnce(d)
  <2>1. /\ UNCHANGED << report, result, promote >> /\ d \in atOnce
        /\ atOnce' = atOnce \ { d } /\ removal' = [ removal EXCEPT ![d] = None ]
    BY <1>4 DEF RemoveAtOnce
  <2> DEFINE b == IF MayStop(dep[d].billing, removal[d]) THEN "STOPPED" ELSE dep[d].billing
  <2>2. \/ /\ dep' = [ dep EXCEPT ![d].state = "DELETED", ![d].billing = b ]
           /\ (b = "STOPPED" /\ hasty' = hasty) \/ hasty' = hasty \cup { d }
        \/ dep' = dep /\ hasty' = hasty
    BY <1>4 DEF RemoveAtOnce
  <2>3. b \in BillingStates /\ b \in { dep[d].billing, "STOPPED" }
    BY <1>3 DEF BillingStates
  <2> HIDE DEF b
  <2>4. \/ /\ Becomes(dep', d, "DELETED", b)
           /\ (b = "STOPPED" /\ hasty' = hasty) \/ hasty' = hasty \cup { d }
        \/ Becomes(dep', d, dep[d].state, dep[d].billing) /\ hasty' = hasty
    BY <1>1, <2>2, <2>3, BothSet, RowTypes DEF States
  <2>5. RowsOK'
    BY <1>1, <2>1, <2>4 DEF RowsOK, Becomes
  <2>6. InOrder(d)'
    BY <1>1, <2>1, <2>3, <2>4 DEF RowsOK, Becomes, InOrder
  <2> QED  BY <1>2, <2>1, <2>4, <2>5, <2>6, OneChanged DEF Becomes, RowsOK
<1>5. CASE AcceptRemoval(d)
  <2>1. /\ UNCHANGED << report, result, promote, atOnce, hasty >>
        /\ removal[d] = None /\ removal' = [ removal EXCEPT ![d] = dep[d].billing ]
    BY <1>5 DEF AcceptRemoval
  <2>2. Becomes(dep', d, "DELETING", dep[d].billing)
    BY <1>1, <1>5, StateSet DEF AcceptRemoval, States
  <2>3. RowsOK'
    BY <1>1, <1>3, <2>1, <2>2 DEF RowsOK, Becomes
  <2>4. InOrder(d)'
    BY <1>1, <1>3, <2>1, <2>2, NoneAssumption DEF RowsOK, Becomes, InOrder
  <2> QED  BY <1>2, <2>1, <2>2, <2>3, <2>4, OneChanged DEF Becomes
<1>6. CASE MarkRemoved(d)
  <2>1. /\ UNCHANGED << report, result, promote, atOnce >> /\ removal[d] # None
        /\ d \notin atOnce /\ removal' = [ removal EXCEPT ![d] = None ]
    BY <1>6 DEF MarkRemoved
  <2> DEFINE b == IF MayStop(dep[d].billing, removal[d]) THEN "STOPPED" ELSE dep[d].billing
  <2>2. \/ dep' = [ dep EXCEPT ![d].billing = b ] /\ hasty' = hasty
        \/ dep' = dep /\ hasty' = hasty \cup { d }
    BY <1>6 DEF MarkRemoved
  <2>3. /\ b \in BillingStates /\ b \in { dep[d].billing, "STOPPED" }
        /\ removal[d] = "NOT_STARTED" \/ dep[d].billing # "NOT_STARTED" => b # "NOT_STARTED"
    BY <1>3 DEF MayStop, BillingStates
  <2> HIDE DEF b
  <2>4. \/ Becomes(dep', d, dep[d].state, b) /\ hasty' = hasty
        \/ Becomes(dep', d, dep[d].state, dep[d].billing) /\ hasty' = hasty \cup { d }
    BY <1>1, <2>2, <2>3, BillingSet, RowTypes
  <2>5. RowsOK'
    BY <1>1, <2>1, <2>4 DEF RowsOK, Becomes
  <2>6. InOrder(d)'
    BY <1>1, <2>1, <2>3, <2>4 DEF RowsOK, Becomes, InOrder
  <2> QED  BY <1>2, <2>1, <2>4, <2>5, <2>6, OneChanged DEF Becomes
<1> QED  BY <1>3a, <1>4, <1>5, <1>6

\* The removal's result reads the row, and ends it.
LEMMA ResultConsistent ==
    ASSUME Consistent, NEW d \in Deployments, ReadResult(d) \/ EndRemoval(d)
    PROVE  Consistent'
<1>1. RowsOK /\ MoneyOK /\ InOrder(d)
  BY ByDeployment, InParts
<1>2. MoneyOK'
  BY <1>1, Reconciled DEF ReadResult, EndRemoval, ReconcileIf
<1>3. dep[d].billing \in BillingStates
  BY <1>1, RowTypes
<1>4. CASE ReadResult(d)
  <2>1. /\ UNCHANGED << dep, report, removal, promote, atOnce, hasty >>
        /\ result' = [ result EXCEPT ![d] = dep[d].billing ]
        /\ dep[d].state \in { "DELETING", "failed" } /\ removal[d] = None
    BY <1>4 DEF ReadResult
  <2>2. RowsOK'
    BY <1>1, <1>3, <2>1 DEF RowsOK
  <2>3. InOrder(d)'
    BY <1>1, <2>1 DEF RowsOK, InOrder
  <2> QED  BY <1>2, <2>1, <2>2, <2>3, OneChanged DEF RowsOK
<1>5. CASE EndRemoval(d)
  <2>1. /\ UNCHANGED << report, removal, promote, atOnce, hasty >> /\ result[d] # None
        /\ result' = [ result EXCEPT ![d] = None ]
    BY <1>5 DEF EndRemoval
  <2> DEFINE b == IF Backstop(d) THEN "STOPPED" ELSE dep[d].billing
  <2>2. \/ dep' = [ dep EXCEPT ![d].state = "DELETED", ![d].billing = b ]
        \/ dep' = [ dep EXCEPT ![d].state = "failed" ]
    BY <1>5 DEF EndRemoval
  <2>3. b \in BillingStates /\ b \in { dep[d].billing, "STOPPED" }
        /\ (dep[d].billing \in { result[d], "STOPPED" } => b = "STOPPED")
    BY <1>3 DEF Backstop, MayStop, BillingStates
  <2> HIDE DEF b
  <2>4. \/ Becomes(dep', d, "DELETED", b) \/ Becomes(dep', d, "failed", dep[d].billing)
    BY <1>1, <2>2, <2>3, BothSet, StateSet DEF States
  <2>5. RowsOK'
    BY <1>1, <2>1, <2>4 DEF RowsOK, Becomes
  <2>6. InOrder(d)'
    BY <1>1, <2>1, <2>3, <2>4 DEF RowsOK, Becomes, InOrder
  <2> QED  BY <1>2, <2>1, <2>4, <2>5, <2>6, OneChanged DEF Becomes
<1> QED  BY <1>4, <1>5

LEMMA InitConsistent == Init => Consistent
<1> SUFFICES ASSUME Init
             PROVE  Consistent
  OBVIOUS
<1>1. MoneyOK
  <2>1. Quiet \in Counts /\ faults \in 0 .. MaxFaults /\ included \in 0 .. MaxAllowance
    BY QuantityTypes, BoundsAssumption DEF Quiet, Counts, Init
  <2> QED  BY <2>1, QuantityTypes DEF Init, MoneyOK
<1>2. RowsOK
  <2>1. NoDeployment \in Rows
    BY DEF NoDeployment, Rows, States, BillingStates
  <2> QED  BY <2>1 DEF Init, RowsOK
<1>3. \A d \in Deployments : InOrder(d)
  <2>1. NoDeployment.state = "absent"
    BY DEF NoDeployment
  <2> QED  BY <2>1 DEF Init, InOrder
<1> QED  BY <1>1, <1>2, <1>3, ByDeployment, InParts

\* The invariant holds in every reachable state.
THEOREM Consistency == Spec => []Consistent
<1>1. ASSUME Consistent, [Next]_vars
      PROVE  Consistent'
  <2>1. CASE UNCHANGED vars
    BY <1>1, <2>1 DEF vars, Consistent, TypeOK, RemovalsInOrder, RemovedIsNotBilled
  <2> QED  BY <1>1, <2>1, MoneyConsistent, ServingConsistent, StartConsistent,
              RemovalConsistent, ResultConsistent DEF Next
<1> QED  BY InitConsistent, <1>1, PTL DEF Spec

\* A removed deployment is not billed, although the route, the result and the report
\* each go by a row they have read before, unless the route was cut off before its write,
\* or removed at once what had come up since it read it.
THEOREM RemovedIsNotBilledHolds == Spec => []RemovedIsNotBilled
<1>1. Consistent => RemovedIsNotBilled
  BY DEF Consistent
<1> QED  BY Consistency, <1>1, PTL

=============================================================================
