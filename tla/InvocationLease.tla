-------------------------- MODULE InvocationLease --------------------------
(***************************************************************************)
(* The lease that keeps one invocation of a relay running at a time        *)
(* (packages/relay/src/lease.ts).  A schedule starts an invocation every   *)
(* minute and one may run for five; the lease is one SSM parameter that    *)
(* names its owner and the time it expires.                                *)
(*                                                                         *)
(* Every call to SSM is a step of its own.  A call may fail, an invocation *)
(* may be cut off anywhere, and the response to a call that took effect    *)
(* may be lost, in which case the AWS client sends the call again.         *)
(*                                                                         *)
(* Time is discrete and relative: the lease and each invocation carry the  *)
(* time they have left.  Clocks of two hosts differ by at most Skew.       *)
(***************************************************************************)
EXTENDS Integers

CONSTANTS
    Invocations,  \* Lambda request ids; a retried event keeps its id
    None,         \* no owner: the parameter does not exist
    RunTime,      \* the function timeout
    Margin,       \* LEASE_MARGIN_MS
    Skew,         \* how far a host's clock may be ahead of another's
    MaxFaults     \* failed calls, lost responses and crashes of a behaviour

ASSUME NoneAssumption == None \notin Invocations
ASSUME TimesAssumption ==
    /\ RunTime \in Nat /\ RunTime > 0
    /\ Margin \in Nat /\ Skew \in Nat /\ Skew < Margin
    /\ MaxFaults \in Nat

VARIABLES
    lease,       \* the SSM parameter: its owner and the time until it expires
    invocation,  \* each invocation's next call, time left and clock
    faults,      \* faults so far
    \* The rest only serves the properties.
    fresh,       \* invocations that read the parameter as it still is
    stolen,      \* invocations whose lease another removed without having read it
    cutOff       \* an invocation ended without reaching its release

vars == << lease, invocation, faults, fresh, stolen, cutOff >>

Steps == { "idle", "put", "read", "remove", "retake", "run", "verify", "delete" }

NoLease == [ owner |-> None, expires |-> 0 ]

\* Every variable keeps its type; a lease never outlives the longest run by
\* more than the margin and the skew.
TypeOK ==
    /\ lease \in [ owner: Invocations \cup { None },
                   expires: 0 .. RunTime + Margin + Skew ]
    /\ invocation \in [ Invocations -> [ at: Steps, left: 0 .. RunTime, ahead: 0 .. Skew ] ]
    /\ faults \in 0 .. MaxFaults
    /\ fresh \subseteq Invocations
    /\ stolen \subseteq Invocations
    /\ cutOff \in BOOLEAN

Idle == [ at |-> "idle", left |-> 0, ahead |-> 0 ]

At(p, step) == invocation[p].at = step
Active(p) == ~ At(p, "idle")
Running(p) == At(p, "run")
Holding(p) == invocation[p].at \in { "run", "verify" }

-----------------------------------------------------------------------------
(***************************************************************************)
(* The parameter.                                                          *)
(***************************************************************************)

Exists == lease.owner # None
Owns(p) == lease.owner = p

\* Defects for mutation checks: the margin is forgotten, a lease never judged
\* expired, the put allowed to overwrite.
ExpiryWithoutMargin(p) == RunTime + invocation[p].ahead
LiveForEver(p) == Exists
PutOverwriting(p, created, refused) ==
    /\ lease' = [ owner |-> p, expires |-> RunTime + Margin + invocation[p].ahead ]
    /\ fresh' = {}
    /\ created /\ UNCHANGED faults

\* now() + runMs + LEASE_MARGIN_MS, by the clock of the invocation that puts it.
Expiry(p) == RunTime + Margin + invocation[p].ahead

\* record.expiresAt > now(), by the clock of the invocation that reads it.
Live(p) == Exists /\ lease.expires > invocation[p].ahead

GoTo(p, step) == invocation' = [ invocation EXCEPT ![p].at = step ]
End(p) == invocation' = [ invocation EXCEPT ![p] = Idle ]

Fault == faults < MaxFaults /\ faults' = faults + 1

\* PutParameter without Overwrite creates the parameter or is refused.  When it
\* takes effect and the response is lost, its repetition is refused.
Put(p, created, refused) ==
    \/ Exists /\ refused /\ UNCHANGED << lease, fresh, faults >>
    \/ /\ ~ Exists
       /\ lease' = [ owner |-> p, expires |-> Expiry(p) ]
       /\ fresh' = {}
       /\ \/ created /\ UNCHANGED faults
          \/ refused /\ Fault

\* DeleteParameter removes whatever is there.  When the response is lost, it is
\* sent again.
Delete(p, deleted) ==
    /\ lease' = NoLease
    /\ fresh' = {}
    /\ stolen' = stolen \cup { q \in Invocations \ { p } :
                                 Holding(q) /\ Owns(q) /\ p \notin fresh }
    /\ \/ deleted /\ UNCHANGED faults
       \/ Fault /\ UNCHANGED invocation

\* GetParameter: what p learns stays true until the parameter changes.
Get(p) == fresh' = IF Exists THEN fresh \cup { p } ELSE fresh \ { p }

-----------------------------------------------------------------------------
(***************************************************************************)
(* acquire(): put; if the parameter exists, read it and skip this          *)
(* invocation when it is live; when it expired or is gone, remove it and   *)
(* put again.                                                              *)
(***************************************************************************)

Start(p) ==
    /\ At(p, "idle")
    /\ \E ahead \in 0 .. Skew :
        invocation' = [ invocation EXCEPT ![p] =
            [ at |-> "put", left |-> RunTime, ahead |-> ahead ] ]
    /\ stolen' = stolen \ { p }
    /\ UNCHANGED << lease, faults, fresh, cutOff >>

Acquire(p) ==
    /\ At(p, "put")
    /\ Put(p, GoTo(p, "run"), GoTo(p, "read"))
    /\ UNCHANGED << stolen, cutOff >>

Judge(p) ==
    /\ At(p, "read")
    /\ IF Live(p) THEN End(p) /\ UNCHANGED fresh ELSE GoTo(p, "remove") /\ Get(p)
    /\ UNCHANGED << lease, faults, stolen, cutOff >>

RemoveStale(p) ==
    /\ At(p, "remove")
    /\ Delete(p, GoTo(p, "retake"))
    /\ UNCHANGED cutOff

\* Another invocation was first, or this one does not know it was: not acquired.
Retake(p) ==
    /\ At(p, "retake")
    /\ Put(p, GoTo(p, "run"), End(p))
    /\ UNCHANGED << stolen, cutOff >>

-----------------------------------------------------------------------------
(***************************************************************************)
(* run() ends or throws; then release(): read, and delete only one's own.  *)
(***************************************************************************)

FinishRun(p) ==
    /\ At(p, "run")
    /\ GoTo(p, "verify")
    /\ UNCHANGED << lease, faults, fresh, stolen, cutOff >>

VerifyOwner(p) ==
    /\ At(p, "verify")
    /\ IF Owns(p) THEN GoTo(p, "delete") /\ Get(p) ELSE End(p) /\ UNCHANGED fresh
    /\ UNCHANGED << lease, faults, stolen, cutOff >>

Release(p) ==
    /\ At(p, "delete")
    /\ Delete(p, End(p))
    /\ UNCHANGED cutOff

-----------------------------------------------------------------------------
(***************************************************************************)
(* Faults and time.                                                        *)
(***************************************************************************)

\* A call fails for good: acquire() answers false, release() gives up.
CallFails(p) ==
    /\ Active(p) /\ ~ Running(p)
    /\ Fault
    /\ End(p)
    /\ UNCHANGED << lease, fresh, stolen, cutOff >>

\* The process dies, or its run used up the time Lambda gives it; no finally
\* block runs.
CutOff(p) ==
    /\ Active(p)
    /\ \/ Fault
       \/ /\ invocation[p].at \in { "run", "verify", "delete" }
          /\ invocation[p].left = 0
          /\ UNCHANGED faults
    /\ End(p)
    /\ cutOff' = TRUE
    /\ UNCHANGED << lease, fresh, stolen >>

Tick ==
    /\ \A p \in Invocations : Active(p) => invocation[p].left > 0
    /\ invocation' = [ p \in Invocations |->
            [ invocation[p] EXCEPT !.left = IF @ > 0 THEN @ - 1 ELSE 0 ] ]
    /\ lease' = [ lease EXCEPT !.expires = IF @ > 0 THEN @ - 1 ELSE 0 ]
    /\ UNCHANGED << faults, fresh, stolen, cutOff >>

-----------------------------------------------------------------------------
Init ==
    /\ lease = NoLease
    /\ invocation = [ p \in Invocations |-> Idle ]
    /\ faults = 0
    /\ fresh = {} /\ stolen = {} /\ cutOff = FALSE

Proceed(p) ==
    \/ Acquire(p) \/ Judge(p) \/ RemoveStale(p) \/ Retake(p)
    \/ FinishRun(p) \/ VerifyOwner(p) \/ Release(p)

Next ==
    \/ \E p \in Invocations : Start(p) \/ Proceed(p) \/ CallFails(p) \/ CutOff(p)
    \/ Tick

Spec == Init /\ [][Next]_vars

\* The schedule keeps firing, an active invocation goes on, and time passes.
Fairness ==
    /\ WF_vars(\E p \in Invocations : Start(p))
    /\ \A p \in Invocations : WF_vars(Proceed(p))
    /\ WF_vars(Tick)

FairSpec == Spec /\ Fairness

-----------------------------------------------------------------------------
(***************************************************************************)
(* Properties.                                                             *)
(***************************************************************************)

\* Two invocations run commands at once only if the lease of one of them was
\* deleted by an invocation that had not read that lease: the delete without
\* compare is the only hole.  Puts, expiry, clock skew, the release, crashes
\* and time-outs open no other (acquire and release of lease.ts).
OneRunAtATime ==
    \A p, q \in Invocations :
        Running(p) /\ Running(q) /\ p # q => p \in stolen \/ q \in stolen

\* A crashed or timed-out invocation, or a lease nobody knows they hold, does
\* not stop the relay: invocations go on running again and again.
RelayKeepsRunning == []<>(\E p \in Invocations : Running(p))

\* While every invocation reached its release, no two run at once: "a lease
\* only expires after a crashed or timed-out invocation".
OverlapNeedsCutOff ==
    ~ cutOff => \A p, q \in Invocations : Running(p) /\ Running(q) => p = q

(***************************************************************************)
(* What makes OneRunAtATime inductive: a holder whose lease was not stolen *)
(* owns the parameter, with the margin and its clock still to go after its *)
(* own time; whoever is about to delete a parameter as it read it saw it   *)
(* expired, or its own.                                                    *)
(***************************************************************************)
HoldersOwn ==
    \A p \in Invocations :
        Holding(p) /\ p \notin stolen =>
            Owns(p) /\ lease.expires >= invocation[p].left + Margin

VerdictsStand ==
    \A p \in fresh :
        /\ At(p, "remove") => lease.expires <= invocation[p].ahead
        /\ At(p, "delete") => Owns(p)

LeaseInvariant == TypeOK /\ HoldersOwn /\ VerdictsStand

=============================================================================
