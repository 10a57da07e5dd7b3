--------------------------- MODULE RelayCommands ---------------------------
(***************************************************************************)
(* How a command of the control plane is executed by the relay of one      *)
(* deployment and how its answer gets back: the command routes of          *)
(* apps/api/src/server.ts, the watchdog of the worker, and in              *)
(* packages/relay/src the poll loop, the pending marker and the executor   *)
(* and resumer of every mutating command type.                             *)
(*                                                                         *)
(* One invocation runs at a time (InvocationLease).  Each call it makes to *)
(* the control plane, to AWS or to the marker's SSM parameter is a step;   *)
(* between any two it may be cut off, the vendor may request commands, the *)
(* watchdog may sweep and AWS may finish.                                  *)
(***************************************************************************)
EXTENDS Naturals, Sequences, SequencesExt

CONSTANTS
    Type,         \* the type of each command; its domain names the commands
    None,         \* no command
    MaxCommands,  \* commands requested in all
    MaxRequeues,  \* MAX_RECONCILE_REQUEUES
    MaxFaults     \* lost calls, failed store calls, slow work and cut-offs

Commands == DOMAIN Type

ASSUME TypeAssumption ==
    /\ None \notin Commands
    /\ \A c \in Commands :
           Type[c] \in { "INSTALL", "DEPLOY_RELEASE", "ROLLBACK", "RESTART",
                         "CONFIG_UPDATE", "DESTROY", "PURGE" }
ASSUME LimitsAssumption ==
    MaxCommands \in Nat /\ MaxRequeues \in Nat /\ MaxFaults \in Nat

VARIABLES
    job,     \* the deployment_jobs row of each command
    order,   \* the commands requested so far, by created_at
    work,    \* what happens in AWS on behalf of each command
    marker,  \* the pending-command parameter
    relay,   \* the invocation: its next call and what it has in memory
    cache,   \* the container's IdempotencyStore: the answer of each command
    faults,  \* faults so far
    \* The rest only serves the properties.
    starts,  \* how often work was started for each command, up to 2
    mishap   \* the last thing that went wrong with each command

vars == << job, order, work, marker, relay, cache, faults, starts, mishap >>

InFlight == { "RUNNING", "WAITING" }
Active == InFlight \cup { "REQUESTED" }
Outcomes == { "none", "running", "ok", "failed" }
Unrecorded == { "cut off", "not recorded", "marker taken" }
Mishaps == { "none", "report lost" } \cup Unrecorded

NoMarker == [ command |-> None, phase |-> "absent", started |-> FALSE, ok |-> FALSE ]
Asleep == [ at |-> "idle", resuming |-> FALSE, batch |-> {}, busy |-> FALSE,
            command |-> None, outcome |-> "none" ]

Rows == [ state: Active \cup { "NONE", "SUCCEEDED", "FAILED" },
          requeues: 0 .. MaxRequeues ]
Markers == [ command: Commands \cup { None }, phase: { "absent", "running", "settled" },
             started: BOOLEAN, ok: BOOLEAN ]
Steps == { "idle", "resume", "fetch", "next", "inspect", "authorize", "act", "record",
           "report", "clear" }
Invocations == [ at: Steps, resuming: BOOLEAN, batch: SUBSET Commands, busy: BOOLEAN,
                 command: Commands \cup { None }, outcome: Outcomes ]

TypeOK ==
    /\ job \in [ Commands -> Rows ]
    /\ order \in Seq(Commands) /\ IsInjective(order)
    /\ \A c \in Commands : c \in ToSet(order) <=> job[c].state # "NONE"
    /\ work \in [ Commands -> Outcomes ]
    /\ marker \in Markers
    /\ marker.command = None <=> marker = NoMarker
    /\ relay \in Invocations
    /\ relay.at = "idle" => relay = Asleep
    /\ cache \in [ Commands -> { "none", "ok", "failed" } ]
    /\ faults \in 0 .. MaxFaults
    /\ starts \in [ Commands -> 0 .. 2 ]
    /\ mishap \in [ Commands -> Mishaps ]

-----------------------------------------------------------------------------
(***************************************************************************)
(* What tells the command types apart.                                     *)
(***************************************************************************)

Settled(c) == job[c].state \in { "SUCCEEDED", "FAILED" }
Open(c) == job[c].state \in Active
OfType(c, types) == Type[c] \in types

\* Its executor reads the marker first, asks the control plane whether it may
\* go on, and writes its answer to the marker before it reports it.
Careful(c) == ~ OfType(c, { "DESTROY", "PURGE" })

Own(c) == marker.command = c

\* Defect for mutation checks: a started migration is not carried forward.
OnlyAnswersOnRecord(c) == Own(c) /\ marker.phase = "settled"

\* The marker holds what the command started, so that it is only waited for.
OnRecord(c) == Own(c) /\ marker.started

\* Whether the work of a command is started, or started again, rather than
\* looked at.  A restart cannot tell from AWS that it ran before, a deploy only
\* that it was completed (its migration task is on record or forgotten); a
\* failed deletion is tried again.
InstallMayStart(c) == work[c] = "none"
RestartMayStart(c) == work[c] = "none" \/ ~ OnRecord(c)
DeployMayStart(c) == work[c] = "none" \/ (~ OnRecord(c) /\ work[c] # "ok")
ConfigMayStart(c) == work[c] = "none" \/ (~ OnRecord(c) /\ work[c] = "failed")
DestroyMayStart(c) == work[c] \in { "none", "failed" }
PurgeMayStart(c) == work[c] \in { "none", "failed" }

MayStart(c) ==
    CASE Type[c] = "INSTALL" -> InstallMayStart(c)
      [] Type[c] = "RESTART" -> RestartMayStart(c)
      [] Type[c] \in { "DEPLOY_RELEASE", "ROLLBACK" } -> DeployMayStart(c)
      [] Type[c] = "CONFIG_UPDATE" -> ConfigMayStart(c)
      [] Type[c] = "DESTROY" -> DestroyMayStart(c)
      [] Type[c] = "PURGE" -> PurgeMayStart(c)

\* Where its resumer takes a running command up: an INSTALL, and a deploy that
\* has started nothing yet, ask the control plane first.
InstallResumesAt == "authorize"
DeployResumesAt == IF marker.started THEN "act" ELSE "authorize"
RestartResumesAt == "act"
ConfigResumesAt == "act"
DestroyResumesAt == "act"
PurgeResumesAt == "act"

ResumesAt(c) ==
    CASE Type[c] = "INSTALL" -> InstallResumesAt
      [] Type[c] = "RESTART" -> RestartResumesAt
      [] Type[c] \in { "DEPLOY_RELEASE", "ROLLBACK" } -> DeployResumesAt
      [] Type[c] = "CONFIG_UPDATE" -> ConfigResumesAt
      [] Type[c] = "DESTROY" -> DestroyResumesAt
      [] Type[c] = "PURGE" -> PurgeResumesAt

\* A configuration that every service points at counts as applied already,
\* although the rollout that pointed them there may still be running.
Observed(c) ==
    IF OfType(c, { "CONFIG_UPDATE" }) /\ ~ OnRecord(c) THEN "ok" ELSE work[c]

Before(c, d) == \E i, j \in DOMAIN order : i < j /\ order[i] = c /\ order[j] = d
Oldest(c, commands) == c \in commands /\ \A d \in commands \ { c } : Before(c, d)

\* Which of the offered commands one poll is handed: no mutation while one is
\* RUNNING, and a CONFIG_UPDATE only as the first.
MayClaim(c, running, offered) ==
    ~ running /\ (OfType(c, { "CONFIG_UPDATE" }) => Oldest(c, offered))

\* relayCommandAuthority
TearingDown == \E d \in Commands : OfType(d, { "DESTROY" }) /\ job[d].state # "NONE"
Authorized(c) == Open(c) /\ ~ TearingDown

Fault == faults < MaxFaults /\ faults' = faults + 1
NoFault == UNCHANGED faults
Mishap(c, what) == mishap' = [ mishap EXCEPT ![c] = what ]

-----------------------------------------------------------------------------
(***************************************************************************)
(* The control plane.                                                      *)
(***************************************************************************)

\* A vendor or a follow-up of an install requests a command.  One mutation is
\* active at a time, a CONFIG_UPDATE aside; only the DEPLOY_RELEASE that
\* follows an install is queued behind a CONFIG_UPDATE, and a DESTROY cancels
\* an INSTALL that a lost relay holds.  What was torn down can only be purged.
Request(c) ==
    LET others == { d \in Commands : Open(d) }
        obsolete == IF OfType(c, { "DESTROY" })
                    THEN { d \in others : OfType(d, { "INSTALL" }) } ELSE {} IN
    /\ job[c].state = "NONE" /\ Len(order) < MaxCommands
    /\ TearingDown <=> OfType(c, { "PURGE" })
    /\ \A d \in others \ obsolete :
           \/ OfType(c, { "CONFIG_UPDATE" })
           \/ OfType(d, { "CONFIG_UPDATE" }) /\ OfType(c, { "DEPLOY_RELEASE" })
    /\ job' = [ d \in Commands |->
                  IF d = c THEN [ job[d] EXCEPT !.state = "REQUESTED" ]
                  ELSE IF d \in obsolete THEN [ job[d] EXCEPT !.state = "FAILED" ]
                  ELSE job[d] ]
    /\ order' = Append(order, c)
    /\ UNCHANGED << work, marker, relay, cache, faults, starts, mishap >>

\* The relay works on a command or is about to.
Held(c) == Own(c) \/ relay.command = c \/ c \in relay.batch

\* Defect for mutation checks: a watchdog that only looks for a relay that went
\* quiet.
MayRequeueParked(c) == job[c].state = "WAITING" /\ job[c].requeues < MaxRequeues

MayRequeue(c) == job[c].requeues < MaxRequeues

\* The watchdog re-offers a job that ran too long: nobody works on it, or the
\* work is slow.
Requeue(c) ==
    /\ job[c].state \in InFlight
    /\ MayRequeue(c)
    /\ IF job[c].state = "RUNNING" /\ ~ Held(c) THEN NoFault ELSE Fault
    /\ job' = [ job EXCEPT ![c] = [ state |-> "REQUESTED", requeues |-> @.requeues + 1 ] ]
    /\ UNCHANGED << order, work, marker, relay, cache, starts, mishap >>

\* It parks the job of a relay that went quiet.
Park(c) ==
    /\ job[c].state \in { "REQUESTED", "RUNNING" }
    /\ ~ OfType(c, { "DESTROY" })
    /\ Fault
    /\ job' = [ job EXCEPT ![c].state = "WAITING" ]
    /\ UNCHANGED << order, work, marker, relay, cache, starts, mishap >>

\* It fails a job it may not re-offer any more, never a DESTROY.
GiveUp(c) ==
    /\ job[c].state \in InFlight
    /\ job[c].requeues = MaxRequeues
    /\ ~ OfType(c, { "DESTROY" })
    /\ IF job[c].state = "RUNNING" /\ ~ Held(c) THEN NoFault ELSE Fault
    /\ job' = [ job EXCEPT ![c].state = "FAILED" ]
    /\ UNCHANGED << order, work, marker, relay, cache, starts, mishap >>

\* AWS finishes what it was asked for.
Finish(c) ==
    /\ work[c] = "running"
    /\ \E outcome \in { "ok", "failed" } : work' = [ work EXCEPT ![c] = outcome ]
    /\ UNCHANGED << job, order, marker, relay, cache, faults, starts, mishap >>

-----------------------------------------------------------------------------
(***************************************************************************)
(* An invocation of the relay: finish what the marker holds, then fetch    *)
(* commands and execute one after the other.                               *)
(***************************************************************************)

Goto(step) == relay' = [ relay EXCEPT !.at = step ]
Answer(outcome, step) ==
    relay' = [ relay EXCEPT !.at = step, !.outcome = outcome ]

\* What comes after a command: the fetch, or the rest of the batch.
AfterCommand(busy) ==
    relay' = [ relay EXCEPT !.at = IF relay.resuming THEN "fetch" ELSE "next",
                            !.resuming = FALSE, !.busy = busy,
                            !.command = None, !.outcome = "none" ]
Done == AfterCommand(relay.busy)

\* Defect for mutation checks: what is in flight is forgotten.
DeferredUnnoticed == AfterCommand(relay.busy)
Deferred == AfterCommand(TRUE)

\* dispatchCommand remembers an executor's answer; a resumer's is not.
Remember(c, outcome) ==
    cache' = IF relay.resuming THEN cache ELSE [ cache EXCEPT ![c] = outcome ]

Poll ==
    /\ relay.at = "idle"
    /\ relay' = [ Asleep EXCEPT !.at = "resume", !.resuming = TRUE ]
    /\ UNCHANGED << job, order, work, marker, cache, faults, starts, mishap >>

\* A container is replaced between two invocations.
ColdStart ==
    /\ relay.at = "idle"
    /\ \E c \in Commands : cache[c] # "none"
    /\ cache' = [ c \in Commands |-> "none" ]
    /\ UNCHANGED << job, order, work, marker, relay, faults, starts, mishap >>

\* An invocation ends at its time limit or is killed, its container with it.
CutOff ==
    /\ relay.at # "idle"
    /\ Fault
    /\ relay' = Asleep
    /\ cache' = [ c \in Commands |-> "none" ]
    /\ mishap' = IF relay.at \in { "record", "report" } /\ ~ Own(relay.command)
                 THEN [ mishap EXCEPT ![relay.command] = "cut off" ] ELSE mishap
    /\ UNCHANGED << job, order, work, marker, starts >>

\* The resumer of the marker's type: report a settled answer, or go on with
\* the command.
Resume ==
    /\ relay.at = "resume"
    /\ \/ marker = NoMarker /\ Done /\ NoFault
       \/ Done /\ Fault   \* unreadable
       \/ /\ marker # NoMarker
          /\ NoFault
          /\ relay' = [ relay EXCEPT
                !.command = marker.command,
                !.outcome = IF marker.phase = "running" THEN "none"
                            ELSE IF marker.ok THEN "ok" ELSE "failed",
                !.at = IF marker.phase = "settled" THEN "report"
                       ELSE ResumesAt(marker.command) ]
    /\ UNCHANGED << job, order, work, marker, cache, starts, mishap >>

\* GET /api/relay/commands: the claim takes effect, its response may be lost.
Fetch ==
    /\ relay.at = "fetch"
    /\ LET running == \E c \in Commands : job[c].state = "RUNNING"
           offered == { c \in Commands : job[c].state \in Active \ { "RUNNING" } }
           batch == { c \in offered : MayClaim(c, running, offered) } IN
       /\ job' = [ c \in Commands |-> IF c \in batch
                                      THEN [ job[c] EXCEPT !.state = "RUNNING" ]
                                      ELSE job[c] ]
       /\ \/ NoFault /\ relay' = [ relay EXCEPT !.at = "next", !.batch = batch ]
          \/ Fault /\ relay' = Asleep
    /\ UNCHANGED << order, work, marker, cache, starts, mishap >>

EndPoll ==
    /\ relay.at = "next"
    /\ relay.batch = {}
    /\ relay' = Asleep
    /\ UNCHANGED << job, order, work, marker, cache, faults, starts, mishap >>

\* A command behind a deferred one is handed back; the control plane takes it
\* back unless its payload was redacted by the claim.
Release ==
    /\ relay.at = "next"
    /\ relay.busy
    /\ \E c \in relay.batch :
       /\ Oldest(c, relay.batch)
       /\ relay' = [ relay EXCEPT !.batch = @ \ { c } ]
       /\ \/ /\ NoFault
             /\ job' = IF job[c].state = "RUNNING" /\ ~ OfType(c, { "INSTALL", "CONFIG_UPDATE" })
                       THEN [ job EXCEPT ![c].state = "REQUESTED" ] ELSE job
          \/ Fault /\ UNCHANGED job
    /\ UNCHANGED << order, work, marker, cache, starts, mishap >>

\* dispatchCommand
Dispatch ==
    /\ relay.at = "next"
    /\ ~ relay.busy
    /\ \E c \in relay.batch :
       /\ Oldest(c, relay.batch)
       /\ relay' = [ relay EXCEPT
             !.batch = @ \ { c }, !.command = c, !.outcome = cache[c],
             !.at = IF cache[c] # "none" THEN "report"
                    ELSE IF Careful(c) THEN "inspect" ELSE "act" ]
    /\ UNCHANGED << job, order, work, marker, cache, faults, starts, mishap >>

\* A careful executor reads the marker before it does anything: its own
\* settled answer is reported again, an unreadable one defers.
Inspect ==
    /\ relay.at = "inspect"
    /\ LET c == relay.command
           stored == Own(c) /\ marker.phase = "settled"
           answer == IF marker.ok THEN "ok" ELSE "failed" IN
       \/ /\ NoFault
          /\ IF stored THEN Answer(answer, "report") /\ Remember(c, answer)
             ELSE /\ Goto(IF OnRecord(c) /\ OfType(c, { "RESTART", "CONFIG_UPDATE" })
                          THEN "act" ELSE "authorize")
                  /\ UNCHANGED cache
       \/ Fault /\ Deferred /\ UNCHANGED cache
    /\ UNCHANGED << job, order, work, marker, starts, mishap >>

\* Is this command still mine?  A resumer drops a command that is not, an
\* executor fails it.  While the control plane cannot be asked nothing is
\* done; an INSTALL is noted in the marker, whatever the marker held, or
\* failed when that is not possible.
Authorize ==
    /\ relay.at = "authorize"
    /\ LET c == relay.command IN
       \/ Authorized(c) /\ Goto("act") /\ NoFault /\ UNCHANGED << marker, cache >>
       \/ /\ ~ Authorized(c)
          /\ IF relay.resuming
             THEN /\ Done /\ UNCHANGED cache
                  /\ \/ NoFault /\ marker' = NoMarker
                     \/ Fault /\ UNCHANGED marker
             ELSE /\ Answer("failed", "report") /\ Remember(c, "failed")
                  /\ NoFault /\ UNCHANGED marker
       \/ /\ Fault
          /\ IF relay.resuming THEN Done /\ UNCHANGED << marker, cache >>
             ELSE IF ~ OfType(c, { "INSTALL" }) THEN Deferred /\ UNCHANGED << marker, cache >>
             ELSE \/ /\ marker' = [ NoMarker EXCEPT !.command = c, !.phase = "running" ]
                     /\ Deferred /\ UNCHANGED cache
                  \/ /\ Answer("failed", "report") /\ Remember(c, "failed")
                     /\ UNCHANGED marker
    /\ UNCHANGED << job, order, work, starts, mishap >>

\* The call that starts the work or looks at it; either may fail.  Work that
\* is on record and still running is left alone.
Act ==
    /\ relay.at = "act"
    /\ LET c == relay.command IN
       \/ /\ MayStart(c)
          /\ NoFault
          /\ \E now \in Outcomes \ { "none" } :
                 work' = [ work EXCEPT ![c] = now ] /\ Answer(now, "record")
          /\ starts' = [ starts EXCEPT ![c] = IF @ = 2 THEN 2 ELSE @ + 1 ]
       \/ /\ ~ MayStart(c)
          /\ NoFault
          /\ IF OnRecord(c) /\ Observed(c) = "running"
             THEN IF relay.resuming THEN Done ELSE Deferred
             ELSE Answer(Observed(c), "record")
          /\ UNCHANGED << work, starts >>
       \/ /\ Fault
          /\ IF relay.resuming THEN Done
             ELSE \/ Answer("failed", "record")
                  \/ OfType(c, { "RESTART" }) /\ Deferred
          /\ UNCHANGED << work, starts >>
    /\ UNCHANGED << job, order, marker, cache, mishap >>

\* Work in progress is recorded before the command is deferred; the marker of
\* another command is overwritten.  What cannot be recorded is failed.
RecordRunning ==
    LET c == relay.command IN
    /\ relay.outcome = "running"
    /\ \/ /\ NoFault
          /\ marker' = [ command |-> c, phase |-> "running", started |-> TRUE, ok |-> FALSE ]
          /\ IF relay.resuming THEN Done ELSE Deferred
          /\ mishap' = [ d \in Commands |-> IF d = c THEN "none"
                                            ELSE IF Own(d) THEN "marker taken"
                                            ELSE mishap[d] ]
          /\ UNCHANGED cache
       \/ /\ Fault
          /\ Mishap(c, "not recorded")
          /\ UNCHANGED marker
          /\ IF relay.resuming THEN Done /\ UNCHANGED cache
             ELSE IF OfType(c, { "RESTART" }) THEN Answer("failed", "record") /\ UNCHANGED cache
             ELSE Answer("failed", "report") /\ Remember(c, "failed")

\* Defect for mutation checks: the answer is not written before the report.
SettleNothing(c) == Goto("report") /\ UNCHANGED << marker, mishap >> /\ NoFault

\* settleMarker: the answer of a careful command goes to its own marker, or to
\* a new one if an executor finds none.  An executor reports it in any case, a
\* resumer only what it recorded.
SettleMarker(c) ==
    \/ /\ Own(c) \/ (~ relay.resuming /\ marker = NoMarker)
       /\ NoFault
       /\ marker' = [ command |-> c, phase |-> "settled", started |-> TRUE,
                      ok |-> relay.outcome = "ok" ]
       /\ Goto("report")
       /\ Mishap(c, IF work[c] = "running" THEN mishap[c] ELSE "none")
    \/ /\ ~ relay.resuming /\ ~ Own(c) /\ marker # NoMarker
       /\ NoFault
       /\ Goto("report")
       /\ Mishap(c, "marker taken")
       /\ UNCHANGED marker
    \/ /\ Fault
       /\ IF relay.resuming THEN Done /\ UNCHANGED mishap
          ELSE Goto("report") /\ Mishap(c, "not recorded")
       /\ UNCHANGED marker

\* The resumer of a deletion removes the marker before it reports; its
\* executor never had one.
DropMarker(c) ==
    /\ Goto("report")
    /\ \/ NoFault /\ marker' = IF relay.resuming THEN NoMarker ELSE marker
       \/ relay.resuming /\ Fault /\ UNCHANGED marker
    /\ UNCHANGED mishap

Record ==
    /\ relay.at = "record"
    /\ \/ RecordRunning
       \/ LET c == relay.command IN
          /\ relay.outcome # "running"
          /\ IF Careful(c) THEN SettleMarker(c) ELSE DropMarker(c)
          /\ Remember(c, relay.outcome)
    /\ UNCHANGED << job, order, work, starts >>

\* Defect for mutation checks: a late answer replaces the one that was given.
TakesAny(c) == TRUE

TakesAnswer(c) == Open(c)

\* POST /api/relay/commands/:id/result, which settles an active job.  The
\* request or its response may be lost for good.
Report ==
    /\ relay.at = "report"
    /\ LET c == relay.command
           settled == IF ~ TakesAnswer(c) THEN job
                      ELSE [ job EXCEPT ![c].state = IF relay.outcome = "ok"
                                                     THEN "SUCCEEDED" ELSE "FAILED" ] IN
       \/ NoFault /\ job' = settled /\ Goto("clear") /\ UNCHANGED mishap
       \/ Fault /\ job' = settled /\ Done /\ UNCHANGED mishap
       \/ /\ Fault /\ Done
          /\ mishap' = [ mishap EXCEPT ![c] = IF @ = "none" THEN "report lost" ELSE @ ]
          /\ UNCHANGED job
    /\ UNCHANGED << order, work, marker, cache, starts >>

\* compareAndSet(command, null)
MarkerAfterClear(c) == IF Own(c) THEN NoMarker ELSE marker

\* onResultReported
Clear ==
    /\ relay.at = "clear"
    /\ Done
    /\ \/ NoFault /\ marker' = MarkerAfterClear(relay.command)
       \/ Fault /\ UNCHANGED marker
    /\ UNCHANGED << job, order, work, cache, starts, mishap >>

-----------------------------------------------------------------------------
Init ==
    /\ job = [ c \in Commands |-> [ state |-> "NONE", requeues |-> 0 ] ]
    /\ order = << >>
    /\ work = [ c \in Commands |-> "none" ]
    /\ marker = NoMarker
    /\ relay = Asleep
    /\ cache = [ c \in Commands |-> "none" ]
    /\ faults = 0
    /\ starts = [ c \in Commands |-> 0 ]
    /\ mishap = [ c \in Commands |-> "none" ]

RelayStep ==
    \/ Poll \/ Resume \/ Fetch \/ EndPoll \/ Release \/ Dispatch
    \/ Inspect \/ Authorize \/ Act \/ Record \/ Report \/ Clear

Next ==
    \/ RelayStep \/ ColdStart \/ CutOff
    \/ \E c \in Commands : Request(c) \/ Requeue(c) \/ Park(c) \/ GiveUp(c) \/ Finish(c)

Spec == Init /\ [][Next]_vars

\* The schedule starts an invocation every minute and the watchdog runs every
\* quarter of an hour; AWS ends what it begins, and a deletion that is tried
\* again and again, without the resources that blocked it, succeeds.  Nothing
\* makes an invocation be cut off, a call be lost or a job be re-offered while
\* it is worked on.
Fairness ==
    /\ WF_vars(RelayStep)
    /\ \A c \in Commands :
          /\ WF_vars(Finish(c))
          /\ OfType(c, { "DESTROY", "PURGE" }) => SF_vars(Finish(c) /\ work'[c] = "ok")
          /\ WF_vars(Requeue(c) /\ NoFault)
          /\ WF_vars(GiveUp(c) /\ NoFault)

FairSpec == Spec /\ Fairness

-----------------------------------------------------------------------------
(***************************************************************************)
(* Properties.                                                             *)
(***************************************************************************)

RunsAgain(c) ==
    /\ OfType(c, { "RESTART", "DEPLOY_RELEASE" })
    /\ starts[c] > 0 /\ starts'[c] > starts[c]

\* What the vendor is told of each command.
answer == [ c \in Commands |-> CASE job[c].state \in Active -> "open"
                               [] job[c].state = "SUCCEEDED" -> "succeeded"
                               [] job[c].state = "FAILED" -> "failed"
                               [] OTHER -> "none" ]

\* The relay and the control plane keep the promise of CommandDelivery: one
\* answer, a success only for work that succeeded, nothing started after it.
\* A CONFIG_UPDATE is the exception that SuccessIsEarned is about.
Delivery == INSTANCE CommandDelivery WITH
    Unawaited <- { c \in Commands : OfType(c, { "CONFIG_UPDATE" }) }
DeliveryKept == Delivery!Spec

\* Between two invocations the marker holds every command whose work was
\* started and whose answer is still owed, so that the next one finishes it
\* (pending.ts).  What was cut off before the marker was written, or could not
\* be written, is left to the watchdog.  So is a deletion whose report was
\* lost, and a lost answer whose marker the next command of the batch took.
DebtIsFindable ==
    relay.at = "idle" =>
        \A c \in Commands :
            Open(c) /\ starts[c] > 0 /\ ~ Own(c) =>
                \/ mishap[c] \in Unrecorded
                \/ mishap[c] = "report lost" /\ ~ Careful(c)

\* What carries the properties from step to step.  What the invocation has in
\* memory: the command it is at, and the rest of the batch.
RelayInOrder ==
    /\ relay.command = None <=> relay.at \in { "idle", "resume", "fetch", "next" }
    /\ relay.command \notin relay.batch
    /\ relay.at = "resume" => relay.resuming
    /\ relay.resuming => /\ relay.at \notin { "fetch", "next", "inspect" }
                         /\ relay.batch = {}
    /\ relay.at = "fetch" => relay.batch = {}

\* A marker says that something was started, an INSTALL's aside, and has the
\* answer of careful commands only.
MarkerInOrder ==
    marker.command # None =>
        /\ marker.phase # "absent"
        /\ marker.started \/ OfType(marker.command, { "INSTALL" })
        /\ marker.phase = "settled" => Careful(marker.command)

\* Nobody has a trace of a command that was not requested.
Untouched(c) == starts[c] = 0 /\ ~ Held(c)
TracesHaveRows ==
    \A c \in Commands :
        /\ starts[c] = 0 <=> work[c] = "none"
        /\ job[c].state = "NONE" => Untouched(c) /\ cache[c] = "none"

\* What an executor is about to do has no answer yet, and what a resumer is
\* about to do is on the marker.
Executes(c, steps) == relay.command = c /\ ~ relay.resuming /\ relay.at \in steps
BeforeAnswer == { "inspect", "authorize", "act", "record" }
WorkIsUnanswered ==
    /\ \A c \in Commands :
          /\ c \in relay.batch => job[c].state # "SUCCEEDED"
          /\ Executes(c, BeforeAnswer) => job[c].state # "SUCCEEDED" /\ cache[c] = "none"
    /\ relay.at \in { "authorize", "act", "record" } =>
          /\ Own(relay.command) => marker.phase # "settled"
          /\ relay.resuming => Own(relay.command)
    /\ relay.resuming /\ relay.at = "authorize" => OfType(relay.command, { "INSTALL" })
    /\ relay.at = "clear" => ~ Open(relay.command)

\* A success anywhere, on a row, in the container, on the marker or in the
\* relay's hands, is one of the work.
Earned(c) == work[c] = "ok" \/ (OfType(c, { "CONFIG_UPDATE" }) /\ work[c] # "none")
AnswersAreEarned ==
    /\ \A c \in Commands :
          job[c].state = "SUCCEEDED" \/ cache[c] = "ok" => Earned(c)
    /\ marker.phase = "settled" /\ marker.ok => Earned(marker.command)
    /\ relay.at \in { "record", "report" } /\ relay.outcome = "ok" => Earned(relay.command)

\* Beside an INSTALL only configuration is requested, which waits for it: an
\* executor that takes the marker for its INSTALL takes nobody's record.
Starting(c) == c \in relay.batch \/ Executes(c, { "inspect", "authorize" })
InstallsGoAlone ==
    \A c \in Commands : OfType(c, { "INSTALL" }) =>
        /\ Open(c) => \A d \in Commands \ { c } :
                         Open(d) => OfType(d, { "CONFIG_UPDATE" }) /\ Before(c, d)
        /\ Open(c) \/ Starting(c) => \A d \in Commands \ { c } : Open(d) => Untouched(d)
        /\ Starting(c) => relay.batch \subseteq { c }

TeardownIsLast ==
    TearingDown => \A c \in Commands : Open(c) => OfType(c, { "DESTROY", "PURGE" })

\* What was started and is not on the marker was lost, or is about to be
\* recorded or reported.
Owed(c) == Open(c) \/ c \in relay.batch \/ Executes(c, BeforeAnswer \cup { "report" })
DebtsAreKnown ==
    \A c \in Commands : Owed(c) /\ starts[c] > 0 /\ ~ Own(c) =>
        \/ mishap[c] \in Unrecorded
        \/ ~ Careful(c) /\ mishap[c] = "report lost"
        \/ /\ relay.command = c
           /\ relay.at = "record" \/ (relay.at = "report" /\ ~ Careful(c))

\* The commands at hand come one after the other.  Of two that are open the
\* later one is a CONFIG_UPDATE, or waits as a DEPLOY_RELEASE for one; of two
\* that one poll is handed, only the latter.  A CONFIG_UPDATE that the relay got
\* hold of is the oldest.
AtHand(c, d) == (c \in relay.batch /\ Before(c, d)) \/ relay.command = c
TakenInOrder ==
    /\ \A c, d \in Commands : Open(c) /\ Open(d) /\ Before(c, d) =>
          \/ OfType(d, { "CONFIG_UPDATE" })
          \/ OfType(c, { "CONFIG_UPDATE" }) /\ OfType(d, { "DEPLOY_RELEASE" })
    /\ \A c \in Commands, d \in relay.batch : AtHand(c, d) =>
          OfType(c, { "CONFIG_UPDATE" }) /\ OfType(d, { "DEPLOY_RELEASE" })
    /\ \A c, d \in Commands :
          OfType(d, { "CONFIG_UPDATE" }) /\ ~ Untouched(d) /\ Open(c) => ~ Before(c, d)

\* What is recorded as running was started, by a resumer never a CONFIG_UPDATE.
\* A deletion's marker is removed only once its work has ended: without one it
\* has lost its record.
DeletionsAreKnown ==
    /\ marker.phase = "running" /\ marker.started => work[marker.command] # "none"
    /\ relay.at = "record" =>
          /\ relay.outcome = "running" => work[relay.command] # "none"
          /\ relay.outcome = "running" /\ relay.resuming
                => ~ OfType(relay.command, { "CONFIG_UPDATE" })
          /\ relay.resuming /\ relay.outcome # "running" /\ ~ Careful(relay.command)
                => work[relay.command] # "running"
    /\ \A c \in Commands :
          Open(c) /\ ~ Careful(c) /\ work[c] = "running" /\ ~ Own(c) =>
              \/ mishap[c] \in Unrecorded
              \/ relay.command = c /\ relay.at = "record" /\ relay.outcome = "running"

\* The answer that the container remembers of a CONFIG_UPDATE under way is on
\* the marker as well, or its record was lost.
Remembered(c) == cache[c] # "none" \/ Executes(c, { "report" })
AnswersAreKept ==
    \A c \in Commands :
        OfType(c, { "CONFIG_UPDATE" }) /\ Open(c) /\ work[c] = "running" /\ Remembered(c) =>
            (Own(c) /\ marker.phase = "settled") \/ mishap[c] \in Unrecorded

\* What the relay is about to start finds nothing of another command running
\* on the marker, or it is handed back, or that command comes first.
Recorded(d) == Open(d) /\ work[d] = "running" /\ Own(d) /\ marker.phase = "running"
GivesWay(c, d) == c \in relay.batch /\ (relay.busy \/ (d \in relay.batch /\ Before(d, c))
                                                   \/ relay.command = d)
StartsApart ==
    \A d \in Commands : Recorded(d) =>
        \A c \in Commands \ { d } :
            c \in relay.batch \/ Executes(c, { "inspect", "authorize", "act" })
            => \/ mishap[d] \in Unrecorded
               \/ OfType(c, { "CONFIG_UPDATE" }) /\ Before(c, d)
               \/ GivesWay(c, d)

\* Everything that keeps two mutations apart.
Apart == TakenInOrder /\ DeletionsAreKnown /\ AnswersAreKept /\ StartsApart

\* The rows, the marker and the relay fit together: every variable has its type,
\* and what is owed can be found.
Orderly ==
    /\ TypeOK /\ RelayInOrder /\ MarkerInOrder /\ TracesHaveRows
    /\ WorkIsUnanswered /\ AnswersAreEarned
    /\ InstallsGoAlone /\ TeardownIsLast /\ DebtsAreKnown

\* And what is about to be started stands apart from what is under way.
Consistent == Orderly /\ Apart /\ DebtIsFindable

\* Work that AWS cannot recognise as done, a forced restart or a migration, is
\* started again only if its record was lost, never because an answer was.
NotRunTwice ==
    [][ \A c \in Commands :
          RunsAgain(c) => mishap[c] \in Unrecorded ]_vars

\* No mutation starts while the work of another one is under way whose command
\* is still open and not answered on its own marker, unless the record of that
\* work was lost (SERVICE_MUTATING_COMMANDS of poll.ts, the claim of
\* server.ts).  A CONFIG_UPDATE that waits from before it does start when that
\* one is re-offered and the batch is taken in order.
MutationsDoNotOverlap ==
    [][ \A c, d \in Commands :
          /\ starts'[c] > starts[c]
          /\ d # c /\ work[d] = "running" /\ Open(d)
          /\ ~ (Own(d) /\ marker.phase = "settled")
          /\ ~ (OfType(c, { "CONFIG_UPDATE" }) /\ Before(c, d))
          => mishap[d] \in Unrecorded ]_vars

\* Every command is answered in the end, whatever is lost on the way; only a
\* DESTROY may stay open for the vendor to force, once the watchdog has
\* re-offered it as often as it may.
CommandsAreAnswered ==
    \A c \in Commands :
        Open(c) ~> \/ Settled(c)
                   \/ OfType(c, { "DESTROY" }) /\ job[c].requeues = MaxRequeues

\* An answer is in the marker until the control plane has it
\* (docs/deployment-resilience.md: "The marker is cleared only after the
\* result report succeeds").  A deletion and a batch of two break it.
AnswerKept ==
    [][ \A c \in Commands :
          Own(c) /\ marker.phase = "settled" /\ Open(c) =>
              marker' = marker ]_vars

\* Only a marker that was never written lets such work run again: a failed
\* report "never reruns provisioning, a migration or a forced deployment"
\* (docs/deployment-resilience.md).  It does when the marker is another's.
LostAnswerNeverReruns ==
    [][ \A c \in Commands :
          RunsAgain(c) => mishap[c] \in { "cut off", "not recorded" } ]_vars

\* A command succeeds only when its work did: a re-offered command "converges
\* on what actually happened" (worker.ts).  A CONFIG_UPDATE does not.
SuccessIsEarned ==
    [][ \A c \in Commands :
          Open(c) /\ job'[c].state = "SUCCEEDED" => work[c] = "ok" ]_vars

=============================================================================
