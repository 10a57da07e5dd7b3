----------------------- MODULE InvocationLease_proofs -----------------------
(***************************************************************************)
(* Proofs about InvocationLease, for every set of invocations, every run   *)
(* time, margin and number of faults, and every clock skew below the       *)
(* margin.  The inductive invariant is LeaseInvariant.                     *)
(***************************************************************************)
EXTENDS InvocationLease, TLAPS

\* The lease invariant holds initially.
LEMMA InitInvariant == Init => LeaseInvariant
<1> SUFFICES ASSUME Init
             PROVE  LeaseInvariant
  OBVIOUS
<1> USE NoneAssumption, TimesAssumption DEF Init, NoLease, Idle
<1>1. TypeOK
  <2>1. lease \in [ owner: Invocations \cup { None }, expires: 0 .. RunTime + Margin + Skew ]
    OBVIOUS
  <2>2. [ at |-> "idle", left |-> 0, ahead |-> 0 ]
          \in [ at: Steps, left: 0 .. RunTime, ahead: 0 .. Skew ]
    BY DEF Steps
  <2>3. invocation \in [ Invocations ->
                           [ at: Steps, left: 0 .. RunTime, ahead: 0 .. Skew ] ]
    BY <2>2
  <2>4. faults \in 0 .. MaxFaults
    OBVIOUS
  <2>5. fresh \subseteq Invocations /\ stolen \subseteq Invocations /\ cutOff \in BOOLEAN
    OBVIOUS
  <2> QED  BY <2>1, <2>3, <2>4, <2>5, Zenon DEF TypeOK
<1>2. HoldersOwn
  BY DEF HoldersOwn, Holding
<1>3. VerdictsStand
  BY DEF VerdictsStand
<1> QED  BY <1>1, <1>2, <1>3 DEF LeaseInvariant

\* Starting an invocation, which touches neither the parameter nor any verdict.
LEMMA StartInvariant ==
    ASSUME LeaseInvariant, NEW p \in Invocations, Start(p)
    PROVE  LeaseInvariant'
<1> USE TimesAssumption DEF LeaseInvariant, Start, At
<1>1. PICK ahead \in 0 .. Skew :
        invocation' = [ invocation EXCEPT ![p] =
            [ at |-> "put", left |-> RunTime, ahead |-> ahead ] ]
  OBVIOUS
<1>2. TypeOK'
  BY <1>1 DEF TypeOK, Steps
<1>3. HoldersOwn'
  BY <1>1 DEF TypeOK, HoldersOwn, Holding, Owns
<1>4. VerdictsStand'
  BY <1>1 DEF TypeOK, VerdictsStand, Owns
<1> QED  BY <1>2, <1>3, <1>4

\* A put: it finds no parameter, so no holder was left with its lease; the new
\* owner runs for at most its run time, and every verdict is void.
LEMMA PutInvariant ==
    ASSUME LeaseInvariant, NEW p \in Invocations, Acquire(p) \/ Retake(p), ~ Exists
    PROVE  LeaseInvariant'
<1> USE TimesAssumption, NoneAssumption DEF LeaseInvariant
<1>1. TypeOK'
  BY DEF TypeOK, Acquire, Retake, GoTo, End, Idle, Steps, Put, Expiry, Fault
<1>2. HoldersOwn'
  <2> SUFFICES ASSUME NEW q \in Invocations, Holding(q)', q \notin stolen'
               PROVE  Owns(q)' /\ lease'.expires >= invocation'[q].left + Margin
    BY DEF HoldersOwn
  <2>1. q = p
    BY DEF TypeOK, HoldersOwn, Holding, Owns, Put, Exists, Acquire, Retake, GoTo, End, Idle
  <2>2. invocation'[p].left \in 0 .. RunTime
    BY <1>1 DEF TypeOK
  <2>3. lease' = [ owner |-> p, expires |-> RunTime + Margin + invocation[p].ahead ]
    BY DEF Acquire, Retake, Put, Expiry
  <2>4. invocation[p].ahead \in 0 .. Skew
    BY DEF TypeOK
  <2> QED  BY <2>1, <2>2, <2>3, <2>4 DEF Owns
<1>3. VerdictsStand'
  BY DEF VerdictsStand, Acquire, Retake, Put
<1> QED  BY <1>1, <1>2, <1>3

\* A deletion: a holder that loses its lease is stolen from.  Its lease cannot
\* have been the one the remover read, for that one had expired on a clock that
\* is ahead by less than the margin, or was the remover's own.
LEMMA DeletionInvariant ==
    ASSUME LeaseInvariant, NEW p \in Invocations,
           RemoveStale(p) \/ Release(p)
    PROVE  LeaseInvariant'
<1> USE TimesAssumption, NoneAssumption DEF LeaseInvariant
<1> DEFINE Stolen == { q \in Invocations \ { p } :
                           Holding(q) /\ Owns(q) /\ p \notin fresh }
<1>1. /\ lease' = NoLease /\ fresh' = {} /\ stolen' = stolen \cup Stolen
      /\ invocation[p].at \in { "remove", "delete" }
      /\ \A q \in Invocations \ { p } : invocation'[q] = invocation[q]
  BY DEF TypeOK, RemoveStale, Release, Delete, GoTo, End, At
<1>2. TypeOK'
  BY DEF TypeOK, RemoveStale, Release, GoTo, End, Idle, Steps, Delete, NoLease, Fault
<1>3. HoldersOwn'
  <2> SUFFICES ASSUME NEW q \in Invocations, Holding(q)', q \notin stolen'
               PROVE  FALSE
    BY DEF HoldersOwn
  <2>1. q # p
    BY DEF TypeOK, Holding, RemoveStale, Release, Delete, GoTo, End, Idle, At
  <2>2. /\ Holding(q) /\ q \notin stolen /\ q \notin Stolen
    BY <1>1, <2>1 DEF Holding
  <2>3. Owns(q) /\ lease.expires >= invocation[q].left + Margin
    BY <2>2 DEF HoldersOwn
  <2>4. p \in fresh
    BY <2>1, <2>2, <2>3
  <2>5. CASE At(p, "remove")
    <3>1. lease.expires <= invocation[p].ahead
      BY <2>4, <2>5 DEF VerdictsStand
    <3>2. /\ invocation[p].ahead \in 0 .. Skew /\ invocation[q].left \in 0 .. RunTime
          /\ lease.expires \in 0 .. RunTime + Margin + Skew
      BY DEF TypeOK
    <3> QED  BY <2>3, <3>1, <3>2
  <2>6. CASE At(p, "delete")
    BY <2>1, <2>3, <2>4, <2>6 DEF VerdictsStand, Owns
  <2> QED  BY <1>1, <2>5, <2>6 DEF At
<1>4. VerdictsStand'
  BY <1>1 DEF VerdictsStand
<1> QED  BY <1>2, <1>3, <1>4

\* A read that is acted upon: the verdict is about the parameter as it stands.
LEMMA ReadInvariant ==
    ASSUME LeaseInvariant, NEW p \in Invocations,
           (Judge(p) /\ ~ Live(p)) \/ (VerifyOwner(p) /\ Owns(p))
    PROVE  LeaseInvariant'
<1> USE TimesAssumption, NoneAssumption DEF LeaseInvariant
<1>1. TypeOK'
  BY DEF TypeOK, Judge, VerifyOwner, GoTo, Steps, Get
<1>2. HoldersOwn'
  BY DEF TypeOK, HoldersOwn, Holding, Owns, Judge, VerifyOwner, GoTo, At
<1>3. VerdictsStand'
  <2> SUFFICES ASSUME NEW q \in fresh'
               PROVE  /\ At(q, "remove")' => lease'.expires <= invocation'[q].ahead
                      /\ At(q, "delete")' => Owns(q)'
    BY DEF VerdictsStand
  <2>1. CASE q # p
    BY <2>1 DEF TypeOK, VerdictsStand, Judge, VerifyOwner, GoTo, Get, At, Owns
  <2>2. CASE q = p /\ Judge(p) /\ ~ Live(p)
    <3>1. Exists
      BY <2>2 DEF Judge, Get
    <3>2. ~ (lease.expires > invocation[p].ahead)
      BY <2>2, <3>1 DEF Judge, Live
    <3>3. invocation[p].ahead \in Int /\ lease.expires \in Int
      BY DEF TypeOK
    <3>4. /\ lease' = lease /\ invocation'[p].ahead = invocation[p].ahead
          /\ invocation'[p].at = "remove"
      BY <2>2 DEF TypeOK, Judge, GoTo
    <3> QED  BY <2>2, <3>2, <3>3, <3>4 DEF At
  <2>3. CASE q = p /\ VerifyOwner(p) /\ Owns(p)
    BY <2>3 DEF TypeOK, VerifyOwner, GoTo, At, Owns
  <2> QED  BY <2>1, <2>2, <2>3
<1> QED  BY <1>1, <1>2, <1>3

\* A step that leaves the parameter alone and ends an invocation, or moves it
\* on to a call that acts on no verdict.
LEMMA QuietInvariant ==
    ASSUME LeaseInvariant, NEW p \in Invocations,
           UNCHANGED << lease, fresh, stolen >>, cutOff' \in BOOLEAN,
           faults' = faults \/ Fault,
           \/ End(p)
           \/ At(p, "put") /\ GoTo(p, "read")
           \/ At(p, "run") /\ GoTo(p, "verify")
    PROVE  LeaseInvariant'
<1> USE TimesAssumption, NoneAssumption DEF LeaseInvariant
<1>1. TypeOK'
  BY DEF TypeOK, End, GoTo, Idle, Steps, Fault
<1>2. HoldersOwn'
  BY DEF TypeOK, HoldersOwn, Holding, Owns, End, GoTo, Idle, At
<1>3. VerdictsStand'
  BY DEF TypeOK, VerdictsStand, Owns, End, GoTo, Idle, At
<1> QED  BY <1>1, <1>2, <1>3

\* Time passes for the lease and its owner alike.
LEMMA TickInvariant ==
    ASSUME LeaseInvariant, Tick
    PROVE  LeaseInvariant'
<1> USE TimesAssumption, NoneAssumption DEF LeaseInvariant, Tick
<1>1. \A p \in Invocations :
        /\ invocation'[p].at = invocation[p].at
        /\ invocation'[p].ahead = invocation[p].ahead
        /\ invocation'[p].left = IF invocation[p].left > 0 THEN invocation[p].left - 1 ELSE 0
  BY DEF TypeOK
<1>2. /\ lease'.owner = lease.owner
      /\ lease'.expires = IF lease.expires > 0 THEN lease.expires - 1 ELSE 0
  BY DEF TypeOK
<1>3. TypeOK'
  <2>1. lease' \in [ owner: Invocations \cup { None }, expires: 0 .. RunTime + Margin + Skew ]
    BY DEF TypeOK
  <2>2. ASSUME NEW p \in Invocations
        PROVE  [ invocation[p] EXCEPT !.left = IF @ > 0 THEN @ - 1 ELSE 0 ]
                 \in [ at: Steps, left: 0 .. RunTime, ahead: 0 .. Skew ]
    BY DEF TypeOK
  <2>3. invocation' \in [ Invocations ->
                            [ at: Steps, left: 0 .. RunTime, ahead: 0 .. Skew ] ]
    BY <2>2
  <2> QED  BY <2>1, <2>3 DEF TypeOK
<1>4. HoldersOwn'
  <2> SUFFICES ASSUME NEW p \in Invocations, Holding(p)', p \notin stolen'
               PROVE  Owns(p)' /\ lease'.expires >= invocation'[p].left + Margin
    BY DEF HoldersOwn
  <2>1. Holding(p) /\ Active(p)
    BY <1>1 DEF Holding, Active, At
  <2>2. Owns(p) /\ lease.expires >= invocation[p].left + Margin
    BY <2>1 DEF HoldersOwn
  <2>3. /\ invocation[p].left \in Nat /\ invocation[p].left > 0 /\ lease.expires \in Nat
    BY <2>1 DEF TypeOK
  <2> QED  BY <1>1, <1>2, <2>2, <2>3 DEF Owns
<1>5. VerdictsStand'
  <2> SUFFICES ASSUME NEW p \in fresh
               PROVE  /\ At(p, "remove")' => lease'.expires <= invocation'[p].ahead
                      /\ At(p, "delete")' => Owns(p)'
    BY DEF VerdictsStand
  <2>1. /\ p \in Invocations /\ lease.expires \in Nat /\ invocation[p].ahead \in Nat
    BY DEF TypeOK
  <2> QED  BY <1>1, <1>2, <2>1 DEF VerdictsStand, At, Owns
<1> QED  BY <1>3, <1>4, <1>5

\* The lease invariant holds in every reachable state.
THEOREM LeaseInvariance == Spec => []LeaseInvariant
<1>1. LeaseInvariant /\ [Next]_vars => LeaseInvariant'
  <2> SUFFICES ASSUME LeaseInvariant, [Next]_vars
               PROVE  LeaseInvariant'
    OBVIOUS
  <2>1. ASSUME NEW p \in Invocations, Start(p)
        PROVE  LeaseInvariant'
    BY <2>1, StartInvariant
  <2>2. ASSUME NEW p \in Invocations, Proceed(p)
        PROVE  LeaseInvariant'
    <3> cutOff \in BOOLEAN
      BY DEF LeaseInvariant, TypeOK
    <3>1. CASE (Acquire(p) \/ Retake(p)) /\ ~ Exists
      BY <3>1, PutInvariant
    <3>2. CASE (Acquire(p) \/ Retake(p)) /\ Exists
      BY <3>2, QuietInvariant DEF Acquire, Retake, Put
    <3>3. CASE (Judge(p) /\ ~ Live(p)) \/ (VerifyOwner(p) /\ Owns(p))
      BY <3>3, ReadInvariant
    <3>4. CASE RemoveStale(p) \/ Release(p)
      BY <3>4, DeletionInvariant
    <3>5. CASE (Judge(p) /\ Live(p)) \/ (VerifyOwner(p) /\ ~ Owns(p)) \/ FinishRun(p)
      BY <3>5, QuietInvariant DEF Judge, VerifyOwner, FinishRun
    <3> QED  BY <2>2, <3>1, <3>2, <3>3, <3>4, <3>5 DEF Proceed
  <2>3. ASSUME NEW p \in Invocations, CallFails(p) \/ CutOff(p)
        PROVE  LeaseInvariant'
    BY <2>3, QuietInvariant DEF CallFails, CutOff, LeaseInvariant, TypeOK
  <2>4. CASE Tick
    BY <2>4, TickInvariant
  <2>5. CASE UNCHANGED vars
    BY <2>5 DEF vars, LeaseInvariant, TypeOK, HoldersOwn, VerdictsStand, Holding, Owns, At
  <2> QED  BY <2>1, <2>2, <2>3, <2>4, <2>5 DEF Next
<1> QED  BY InitInvariant, <1>1, PTL DEF Spec

\* Two invocations run at once only if one lost its lease to a deletion by an
\* invocation that had not read that lease: take-overs of expired leases,
\* releases, time-outs, crashes and repeated calls are otherwise safe.
THEOREM OneRunAtATimeHolds == Spec => []OneRunAtATime
<1>1. LeaseInvariant => OneRunAtATime
  BY NoneAssumption DEF LeaseInvariant, HoldersOwn, OneRunAtATime, Running, Holding, At, Owns
<1> QED  BY LeaseInvariance, <1>1, PTL

=============================================================================
