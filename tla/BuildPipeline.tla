--------------------------- MODULE BuildPipeline ---------------------------
(***************************************************************************)
(* How a release gets its image: createReleaseRecord of apps/api, and of   *)
(* packages/cdk/src/lambda/worker.ts the BUILD_RELEASE handler, the        *)
(* recording of CodeBuild's results and the sweep for results that were    *)
(* lost.                                                                   *)
(*                                                                         *)
(* One release.  Its message is received at most MaxReceives times before  *)
(* it is dead, and every reception starts at most one build, which is      *)
(* named after it.                                                         *)
(***************************************************************************)
EXTENDS Naturals

CONSTANTS
    MaxReceives, \* the queue's maxReceiveCount
    MaxFaults    \* bounds failing calls, cut-offs, lost and repeated messages

ASSUME BoundsAssumption == MaxReceives \in Nat \ { 0 } /\ MaxFaults \in Nat

VARIABLES
    release,   \* the release's row
    message,   \* its BUILD_RELEASE message
    receives,
    worker,    \* the handler that holds the message, and the build it started
    build,     \* CodeBuild's builds
    forgotten, \* those CodeBuild has no record of any more
    events,    \* ended builds whose event is not handled yet
    recorder,  \* the handler of events and the sweep
    faults,
    \* The rest only serves the properties.
    orphans,   \* builds that no row ever named
    overtaken  \* a handler wrote over a result recorded since it read the row

vars == << release, message, receives, worker, build, forgotten, events, recorder,
           faults, orphans, overtaken >>

Builds == 1 .. MaxReceives
Recorders == { "event", "sweep" }
Idle == [ at |-> "idle", build |-> 0 ]

NewRelease == [ status |-> "BUILDING", started |-> FALSE, pinned |-> 0, digest |-> 0,
                reason |-> FALSE ]
NoRelease == [ NewRelease EXCEPT !.status = "absent" ]

Settled == release.status \in { "READY", "FAILED" }
Ended(b) == build[b] \in { "succeeded", "failed" }

Releases == [ status: { "absent", "BUILDING", "READY", "FAILED" }, started: BOOLEAN,
              pinned: 0 .. MaxReceives, digest: 0 .. MaxReceives, reason: BOOLEAN ]
Handlers == [ at: { "idle", "fetching", "started", "asking", "read" }, build: 0 .. MaxReceives ]

TypeOK ==
    /\ release \in Releases
    /\ message \in { "none", "queued", "held", "done", "dead" }
    /\ receives \in 0 .. MaxReceives
    /\ worker \in Handlers /\ worker.at \in { "idle", "fetching", "started" }
    /\ worker.at # "idle" <=> message = "held"
    /\ build \in [ Builds -> { "none", "running", "succeeded", "failed" } ]
    /\ forgotten \subseteq { b \in Builds : Ended(b) }
    /\ events \subseteq { b \in Builds : Ended(b) }
    /\ recorder \in [ Recorders -> Handlers ]
    /\ faults \in 0 .. MaxFaults
    /\ orphans \subseteq Builds
    /\ overtaken \in BOOLEAN

Fault == faults < MaxFaults /\ faults' = faults + 1
NoFault == UNCHANGED faults

-----------------------------------------------------------------------------
(***************************************************************************)
(* Requesting and starting a build.                                        *)
(***************************************************************************)

\* createReleaseRecord commits the row, then sends the message.
CreateRelease ==
    /\ release = NoRelease
    /\ release' = NewRelease
    /\ \/ NoFault /\ message' = "queued"
       \/ Fault /\ UNCHANGED message
    /\ UNCHANGED << receives, worker, build, forgotten, events, recorder, orphans, overtaken >>

\* Defects for mutation checks: a redelivery is not recognised, and only a READY
\* release is.
AnyMayStart(r) == TRUE
UnlessReady(r) == r.status # "READY"

\* Only a failure before any build started retries.
MayStart(r) == ~ (r.status = "READY" \/ r.started \/ r.pinned # 0)

\* failRelease writes by id alone.
FailRelease(r) == [ r EXCEPT !.status = "FAILED", !.started = FALSE, !.reason = TRUE ]

\* Defect for mutation checks: a message without a dead-letter queue.
ReturnedAlways == "queued"

\* A message that its handler did not finish comes back, or is dead at last.
Returned == IF receives = MaxReceives THEN "dead" ELSE "queued"

\* buildRelease reads the row.  Without a linked repository it fails for good.
Receive ==
    /\ message = "queued"
    /\ receives' = receives + 1
    /\ \/ /\ MayStart(release) /\ NoFault
          /\ message' = "held"
          /\ worker' = [ at |-> "fetching", build |-> 0 ]
          /\ UNCHANGED release
       \/ /\ ~ MayStart(release) /\ NoFault
          /\ message' = "done"
          /\ UNCHANGED << release, worker >>
       \/ /\ MayStart(release) /\ Fault
          /\ release' = FailRelease(release)
          /\ message' = "done"
          /\ UNCHANGED worker
    /\ UNCHANGED << build, forgotten, events, recorder, orphans, overtaken >>

Overtaken == release.status = "READY" \/ \E r \in Recorders : recorder[r].at = "read"

\* The source is fetched and the build is started.  Either may fail, and a build
\* may have been started although the call failed.
StartBuild ==
    /\ worker.at = "fetching"
    /\ \/ /\ NoFault
          /\ build' = [ build EXCEPT ![receives] = "running" ]
          /\ worker' = [ at |-> "started", build |-> receives ]
          /\ UNCHANGED << release, message, orphans, overtaken >>
       \/ /\ Fault
          /\ overtaken' = (overtaken \/ Overtaken)
          /\ worker' = Idle
          /\ release' = FailRelease(release)
          /\ message' = Returned
          /\ \/ UNCHANGED << build, orphans >>
             \/ /\ build' = [ build EXCEPT ![receives] = "running" ]
                /\ orphans' = orphans \cup { receives }
    /\ UNCHANGED << receives, forgotten, events, recorder >>

\* The row is pinned to the build, whatever it holds by then.
Pin ==
    /\ worker.at = "started"
    /\ worker' = Idle
    /\ overtaken' = (overtaken \/ Overtaken)
    /\ \/ /\ NoFault
          /\ release' = [ release EXCEPT !.status = "BUILDING", !.started = TRUE,
                                         !.pinned = worker.build ]
          /\ message' = "done"
          /\ UNCHANGED orphans
       \/ /\ Fault
          /\ release' = FailRelease(release)
          /\ message' = Returned
          /\ orphans' = orphans \cup { worker.build }
    /\ UNCHANGED << receives, build, forgotten, events, recorder >>

\* The handler ends at once: a timeout, or a database that is away.
CutOff ==
    /\ worker.at # "idle"
    /\ Fault
    /\ worker' = Idle
    /\ message' = Returned
    /\ orphans' = IF worker.at = "started" THEN orphans \cup { worker.build } ELSE orphans
    /\ UNCHANGED << release, receives, build, forgotten, events, recorder, overtaken >>

\* The queue delivers at least once.
Redeliver ==
    /\ message = "done"
    /\ Fault
    /\ message' = Returned
    /\ UNCHANGED << release, receives, worker, build, forgotten, events, recorder, orphans, overtaken >>

-----------------------------------------------------------------------------
(***************************************************************************)
(* CodeBuild: a build ends, with an event, and is forgotten a year later.  *)
(***************************************************************************)

BuildEnds(b) ==
    /\ build[b] = "running"
    /\ \E outcome \in { "succeeded", "failed" } : build' = [ build EXCEPT ![b] = outcome ]
    /\ events' = events \cup { b }
    /\ UNCHANGED << release, message, receives, worker, forgotten, recorder, faults, orphans, overtaken >>

LoseEvent(b) ==
    /\ b \in events
    /\ Fault
    /\ events' = events \ { b }
    /\ UNCHANGED << release, message, receives, worker, build, forgotten, recorder, orphans, overtaken >>

Forget(b) ==
    /\ Ended(b)
    /\ b \notin forgotten \cup events
    /\ \A r \in Recorders : recorder[r].build # b
    /\ Fault
    /\ forgotten' = forgotten \cup { b }
    /\ UNCHANGED << release, message, receives, worker, build, events, recorder, orphans, overtaken >>

-----------------------------------------------------------------------------
(***************************************************************************)
(* recordBuildResult: it reads the row, and then settles it by id alone.   *)
(***************************************************************************)

\* Defect for mutation checks: events are not correlated with the attempt.
AnyAttempt(b) == release.status = "BUILDING"

\* The event of another build than the pinned one is stale, and one for a
\* release that is not building any more is a duplicate.
Accepts(b) == release.pinned \in { 0, b } /\ release.status = "BUILDING"

\* An event is handled until a handler got through; it may be delivered again.
ReadEvent(b) ==
    /\ b \in events
    /\ recorder["event"] = Idle
    /\ recorder' = IF Accepts(b)
                   THEN [ recorder EXCEPT !["event"] = [ at |-> "read", build |-> b ] ]
                   ELSE recorder
    /\ events' = IF Accepts(b) THEN events ELSE events \ { b }
    /\ UNCHANGED << release, message, receives, worker, build, forgotten, faults, orphans, overtaken >>

\* Defect for mutation checks: only releases with a pending build are swept.
SweepsPending == release.status = "BUILDING" /\ release.pinned # 0 /\ ~ release.started

\* sweepStuckBuilds takes the releases that are building for half an hour.
Sweeps == release.status = "BUILDING" /\ release.pinned # 0

BeginSweep ==
    /\ recorder["sweep"] = Idle
    /\ Sweeps
    /\ recorder' = [ recorder EXCEPT !["sweep"] = [ at |-> "asking", build |-> release.pinned ] ]
    /\ UNCHANGED << release, message, receives, worker, build, forgotten, events, faults, orphans, overtaken >>

\* It asks CodeBuild, fails what CodeBuild has no record of, leaves a running
\* build alone, and records the result of any other.
AskBuild ==
    /\ recorder["sweep"].at = "asking"
    /\ LET b == recorder["sweep"].build IN
       /\ release' = IF b \in forgotten THEN FailRelease(release) ELSE release
       /\ recorder' = [ recorder EXCEPT !["sweep"] =
             IF b \notin forgotten /\ Ended(b) /\ Accepts(b)
             THEN [ at |-> "read", build |-> b ] ELSE Idle ]
    /\ UNCHANGED << message, receives, worker, build, forgotten, events, faults, orphans, overtaken >>

\* A build without a digest counts as failed.
Outcome(b) ==
    IF build[b] = "succeeded"
    THEN [ release EXCEPT !.status = "READY", !.started = FALSE, !.digest = b ]
    ELSE FailRelease(release)

\* The event's handler may be cut off, or its delivery be repeated.
Record(r) ==
    /\ recorder[r].at = "read"
    /\ recorder' = [ recorder EXCEPT ![r] = Idle ]
    /\ \/ /\ NoFault
          /\ release' = Outcome(recorder[r].build)
          /\ events' = IF r = "event" THEN events \ { recorder[r].build } ELSE events
       \/ /\ Fault
          /\ release' \in { release, Outcome(recorder[r].build) }
          /\ UNCHANGED events
    /\ UNCHANGED << message, receives, worker, build, forgotten, orphans, overtaken >>

-----------------------------------------------------------------------------
Init ==
    /\ release = NoRelease
    /\ message = "none"
    /\ receives = 0
    /\ worker = Idle
    /\ build = [ b \in Builds |-> "none" ]
    /\ forgotten = {}
    /\ events = {}
    /\ recorder = [ r \in Recorders |-> Idle ]
    /\ faults = 0
    /\ orphans = {}
    /\ overtaken = FALSE

Work == Receive \/ StartBuild \/ Pin
Sweep == BeginSweep \/ AskBuild \/ Record("sweep")

Next ==
    \/ CreateRelease \/ Work \/ CutOff \/ Redeliver
    \/ \E b \in Builds : BuildEnds(b) \/ LoseEvent(b) \/ Forget(b) \/ ReadEvent(b)
    \/ BeginSweep \/ AskBuild
    \/ \E r \in Recorders : Record(r)

Spec == Init /\ [][Next]_vars

\* The queue invokes the worker, every build ends, and the sweep runs every
\* quarter of an hour.  Nothing is assumed of the events.
FairSpec ==
    /\ Spec
    /\ WF_vars(Work)
    /\ WF_vars(Sweep)
    /\ \A b \in Builds : WF_vars(BuildEnds(b))

-----------------------------------------------------------------------------
(***************************************************************************)
(* Properties.                                                             *)
(***************************************************************************)

\* "A redelivered message must never rebuild a release": apart from builds
\* whose start was not recorded, a release has one build.
OneBuildPerRelease ==
    \A b, c \in Builds \ orphans : build[b] # "none" /\ build[c] # "none" => b = c

\* A release that is pinned to a build is settled by that build: READY with its
\* image if it succeeded, FAILED if it failed or CodeBuild lost its record, also
\* when results of builds come in that no row names.  A redelivery's handler may
\* write over such a result, though, when it had read the row before.
SettledAsBuilt ==
    Settled /\ release.pinned # 0 /\ ~ overtaken =>
        /\ Ended(release.pinned)
        /\ release.status = "READY" =>
              build[release.pinned] = "succeeded" /\ release.digest = release.pinned
        /\ release.status = "FAILED" =>
              build[release.pinned] = "failed" \/ release.pinned \in forgotten

\* What keeps them.  A message that comes back has receptions left; a handler that
\* holds it is the only one, and no build is pinned yet.
Receptions ==
    /\ release.status = "absent" => message = "none" /\ receives = 0
    /\ message = "queued" => receives < MaxReceives
    /\ worker.at # "idle" => receives # 0 /\ release.pinned = 0

\* Builds are named after receptions; one that is no orphan is pinned, or its handler
\* is about to pin it.
StartedBuilds ==
    /\ \A b \in Builds : build[b] # "none" => b <= receives
    /\ worker.at = "fetching" => build[receives] = "none"
    /\ worker.at = "started" => worker.build = receives /\ build[receives] # "none"
    /\ release.pinned # 0 => build[release.pinned] # "none"
    /\ \A b \in Builds \ orphans :
          build[b] # "none" => b = release.pinned \/ worker = [ at |-> "started", build |-> b ]

\* What is about to be recorded has ended and is known to CodeBuild; the sweep asks
\* for the pinned build, and if that is forgotten nothing else makes it READY.
Recordings ==
    /\ events \cap forgotten = {}
    /\ recorder["event"].at \in { "idle", "read" }
    /\ recorder["sweep"].at \in { "idle", "asking", "read" }
    /\ \A r \in Recorders : recorder[r].at = "read" =>
          recorder[r].build \in Builds \ forgotten /\ Ended(recorder[r].build)
    /\ recorder["sweep"].at # "idle" =>
          recorder["sweep"].build = release.pinned /\ release.pinned # 0

\* Unless it was overtaken, what is recorded is the pinned build's, or the row has no
\* pinned build and is still to be settled.
NotOvertaken ==
    ~ overtaken =>
        /\ \A r \in Recorders : recorder[r].at = "read" =>
              \/ recorder[r].build = release.pinned
              \/ release.pinned = 0 /\ release.status # "READY"
        /\ release.status = "READY" /\ release.pinned \in forgotten =>
              recorder["sweep"].at # "asking"

\* The inductive invariant, of which the type invariant is a part.
Consistent ==
    /\ TypeOK /\ Receptions /\ StartedBuilds /\ Recordings
    /\ NotOvertaken /\ SettledAsBuilt

\* "A READY release is immutable (customers run its digest)" (worker.ts),
\* whatever is redelivered, repeated, late, stale or swept, but for that case.
ReadyIsFinal ==
    [][ release.status = "READY" /\ ~ overtaken' =>
          release'.status = "READY" /\ release'.digest = release.digest ]_vars

\* "Nothing else ever moves it on" but the sweep: a release does not stay
\* BUILDING when events are lost.  One whose message is dead or was never sent,
\* without a build on record, does.
ReleaseSettles ==
    (release.status = "BUILDING" /\ message # "none") ~>
        (Settled \/ (message = "dead" /\ release.pinned = 0))

\* What the code says of the row and does not hold: a READY release is
\* immutable, after a cut-off too ...
ReadyIsImmutable ==
    [][ release.status = "READY" => release'.status = "READY" ]_vars

\* ... "Null unless FAILED" (schema/core.ts) of failureReason ...
ReasonOnlyIfFailed == release.reason => release.status = "FAILED"

\* ... and every release leaves BUILDING.
EveryReleaseSettles == (release.status = "BUILDING") ~> Settled

=============================================================================
