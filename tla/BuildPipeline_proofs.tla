------------------------ MODULE BuildPipeline_proofs ------------------------
(***************************************************************************)
(* Proofs about BuildPipeline, for every number of receptions and faults.  *)
(* The inductive invariant is Consistent.                                  *)
(***************************************************************************)
EXTENDS BuildPipeline, TLAPS

\* The rows that handlers write, and what they leave of the row.
LEMMA NewTypes ==
    /\ NoRelease \in Releases /\ NoRelease.status = "absent" /\ NoRelease.pinned = 0
    /\ NewRelease \in Releases /\ NewRelease.status = "BUILDING" /\ NewRelease.pinned = 0
    /\ Idle \in Handlers /\ Idle.at = "idle"
<1>1. NewRelease \in Releases
  BY BoundsAssumption DEF Releases, NewRelease
<1>2. NoRelease \in Releases
  BY <1>1 DEF NoRelease, Releases
<1>3. Idle \in Handlers /\ Idle.at = "idle"
  BY BoundsAssumption DEF Idle, Handlers
<1> QED  BY <1>1, <1>2, <1>3 DEF NoRelease, NewRelease

LEMMA FailedRow ==
    ASSUME NEW r \in Releases
    PROVE  /\ FailRelease(r) \in Releases
           /\ FailRelease(r).status = "FAILED"
           /\ FailRelease(r).pinned = r.pinned
BY DEF FailRelease, Releases

LEMMA PinnedRow ==
    ASSUME NEW r \in Releases, NEW b \in 0 .. MaxReceives
    PROVE  LET q == [ r EXCEPT !.status = "BUILDING", !.started = TRUE, !.pinned = b ]
           IN  q \in Releases /\ q.status = "BUILDING" /\ q.pinned = b
BY DEF Releases

LEMMA ReadyRow ==
    ASSUME NEW r \in Releases, NEW b \in 0 .. MaxReceives
    PROVE  LET q == [ r EXCEPT !.status = "READY", !.started = FALSE, !.digest = b ]
           IN  q \in Releases /\ q.status = "READY" /\ q.digest = b /\ q.pinned = r.pinned
BY DEF Releases

\* What is recorded of a build: its image, or its failure.
LEMMA OutcomeRow ==
    ASSUME release \in Releases, NEW b \in 0 .. MaxReceives
    PROVE  /\ Outcome(b) \in Releases /\ Outcome(b).pinned = release.pinned
           /\ build[b] = "succeeded" => Outcome(b).status = "READY" /\ Outcome(b).digest = b
           /\ build[b] # "succeeded" => Outcome(b).status = "FAILED"
<1>1. CASE build[b] = "succeeded"
  BY <1>1, ReadyRow DEF Outcome
<1>2. CASE build[b] # "succeeded"
  BY <1>2, FailedRow DEF Outcome
<1> QED  BY <1>1, <1>2

\* The parts of the type invariant that no record is part of.
LEMMA Pieces ==
    ASSUME Consistent
    PROVE  /\ release \in Releases /\ release.pinned \in 0 .. MaxReceives
           /\ worker \in Handlers /\ worker.build \in 0 .. MaxReceives
           /\ receives \in 0 .. MaxReceives
           /\ build \in [ Builds -> { "none", "running", "succeeded", "failed" } ]
BY DEF Consistent, TypeOK, Releases, Handlers

LEMMA FaultsBounded == ASSUME TypeOK, Fault \/ NoFault PROVE faults' \in 0 .. MaxFaults
BY BoundsAssumption DEF TypeOK, Fault, NoFault

\* The initial state is consistent.
LEMMA InitConsistent == Init => Consistent
<1> SUFFICES ASSUME Init
             PROVE  Consistent
  OBVIOUS
<1> USE BoundsAssumption, NewTypes DEF Init
<1>1. release \in Releases /\ worker \in Handlers /\ recorder \in [ Recorders -> Handlers ]
  OBVIOUS
<1>2. TypeOK
  <2>1. /\ receives \in 0 .. MaxReceives /\ faults \in 0 .. MaxFaults
        /\ build \in [ Builds -> { "none", "running", "succeeded", "failed" } ]
        /\ message = "none" /\ worker.at = "idle"
    OBVIOUS
  <2>2. forgotten = {} /\ events = {} /\ orphans = {} /\ overtaken = FALSE
    OBVIOUS
  <2> QED  BY <1>1, <2>1, <2>2, Zenon DEF TypeOK
<1>3. Receptions /\ StartedBuilds
  BY DEF Receptions, StartedBuilds
<1>4. Recordings /\ NotOvertaken /\ SettledAsBuilt
  BY DEF Recordings, NotOvertaken, SettledAsBuilt, Settled, Recorders
<1> QED  BY <1>2, <1>3, <1>4 DEF Consistent

\* The row is created before any handler, build or sweep has to do with it.
LEMMA CreateConsistent == ASSUME Consistent, CreateRelease PROVE Consistent'
<1> USE BoundsAssumption, NewTypes DEF Consistent, CreateRelease
<1>1. /\ release' \in Releases /\ release'.status = "BUILDING" /\ release'.pinned = 0
      /\ release.status = "absent" /\ release.pinned = 0
      /\ message = "none" /\ receives = 0 /\ worker.at = "idle"
  BY DEF TypeOK, Receptions
<1>2. TypeOK'
  BY <1>1 DEF TypeOK, Fault, NoFault, Ended
<1>3. Receptions'
  BY <1>1 DEF Receptions
<1>4. StartedBuilds'
  BY <1>1 DEF StartedBuilds
<1>5. Recordings'
  BY <1>1 DEF Recordings, Ended
<1>6. NotOvertaken' /\ SettledAsBuilt'
  BY <1>1 DEF NotOvertaken, SettledAsBuilt, Settled
<1> QED  BY <1>2, <1>3, <1>4, <1>5, <1>6

\* A reception: the message had one left, and the handler starts without a build.
LEMMA ReceiveConsistent == ASSUME Consistent, Receive PROVE Consistent'
<1> USE BoundsAssumption DEF Consistent
<1>1. /\ message = "queued" /\ receives' = receives + 1 /\ receives' \in Builds
      /\ message' \in { "held", "done" } /\ worker.at = "idle"
      /\ UNCHANGED << build, forgotten, events, recorder, orphans, overtaken >>
  BY DEF Receive, TypeOK, Receptions, Builds
<1>2. \/ /\ release' = release /\ release.pinned = 0 /\ message' = "held"
         /\ worker' \in Handlers /\ worker'.at = "fetching"
      \/ /\ release' \in Releases /\ release'.pinned = release.pinned
         /\ release' # release => release.pinned = 0 /\ release'.status = "FAILED"
         /\ message' = "done" /\ worker' = worker
  <2>1. [ at |-> "fetching", build |-> 0 ] \in Handlers
    BY DEF Handlers
  <2>2. FailRelease(release) \in Releases /\ FailRelease(release).status = "FAILED"
        /\ FailRelease(release).pinned = release.pinned
    BY Pieces, FailedRow
  <2>3. MayStart(release) => release.pinned = 0
    BY Zenon DEF MayStart
  <2> QED  BY <2>1, <2>2, <2>3, Pieces DEF Receive
<1>3. release' \in Releases /\ faults' \in 0 .. MaxFaults
  BY <1>2 DEF TypeOK, Receive, Fault, NoFault
<1>4. TypeOK'
  BY <1>1, <1>2, <1>3 DEF TypeOK, Ended, Builds
<1>5. Receptions'
  BY <1>1, <1>2 DEF TypeOK, Receptions, Builds
<1>6. StartedBuilds'
  BY <1>1, <1>2 DEF TypeOK, Receptions, StartedBuilds, Builds
<1>7. Recordings'
  BY <1>1, <1>2 DEF TypeOK, Recordings, Ended
<1>8. NotOvertaken' /\ SettledAsBuilt'
  BY <1>1, <1>2 DEF TypeOK, Recordings, NotOvertaken, SettledAsBuilt, Settled, Ended
<1> QED  BY <1>4, <1>5, <1>6, <1>7, <1>8

\* A build is started, named after the reception, which has started none before; or
\* its handler fails, and what it may have started is an orphan.
LEMMA StartConsistent == ASSUME Consistent, StartBuild PROVE Consistent'
<1> USE BoundsAssumption DEF Consistent
<1>1. /\ receives \in Builds /\ build[receives] = "none" /\ release.pinned = 0
      /\ worker.at = "fetching" /\ message = "held"
      /\ UNCHANGED << receives, forgotten, events, recorder >>
  BY DEF StartBuild, TypeOK, Receptions, StartedBuilds, Builds
<1>2. /\ build' \in { build, [ build EXCEPT ![receives] = "running" ] }
      /\ build' \in [ Builds -> { "none", "running", "succeeded", "failed" } ]
      /\ \A b \in Builds \ { receives } : build'[b] = build[b]
      /\ \A b \in Builds : Ended(b)' <=> Ended(b)
  BY <1>1, Pieces DEF StartBuild, Ended
<1>3. \/ /\ release' = release /\ message' = message /\ UNCHANGED << orphans, overtaken >>
         /\ worker' = [ at |-> "started", build |-> receives ] /\ build'[receives] = "running"
         /\ faults' = faults
      \/ /\ release' \in Releases /\ release'.status = "FAILED" /\ release'.pinned = 0
         /\ message' = Returned /\ worker' = Idle
         /\ \/ build' = build /\ orphans' = orphans
            \/ orphans' = orphans \cup { receives }
         /\ overtaken' = (overtaken \/ Overtaken) /\ Fault
  BY <1>1, Pieces, FailedRow DEF StartBuild, NoFault
<1>4. /\ worker' \in Handlers /\ worker'.at \in { "idle", "started" }
      /\ worker'.at = "idle" => message' = Returned
      /\ worker'.at # "idle" => message' = "held" /\ worker'.build = receives
  BY <1>1, <1>3, NewTypes DEF Handlers, Builds
<1>5. TypeOK'
  <2>1. release' \in Releases
    BY <1>3, Pieces
  <2>2. /\ message' \in { "none", "queued", "held", "done", "dead" }
        /\ worker'.at # "idle" <=> message' = "held"
    BY <1>4 DEF Returned
  <2>3. faults' \in 0 .. MaxFaults
    BY FaultsBounded DEF StartBuild
  <2>5. orphans' \subseteq Builds
    BY <1>1 DEF TypeOK, StartBuild
  <2>4. overtaken' \in BOOLEAN
    BY <1>3, Zenon DEF TypeOK
  <2> QED  BY <1>1, <1>2, <1>4, <2>1, <2>2, <2>3, <2>4, <2>5 DEF TypeOK
<1>6. Receptions'
  BY <1>1, <1>3, <1>4 DEF TypeOK, Receptions, Returned, Builds
<1>7. StartedBuilds'
  BY <1>1, <1>2, <1>3, <1>4, NewTypes DEF TypeOK, StartedBuilds, Builds
<1>8. Recordings'
  BY <1>1, <1>2, <1>3 DEF TypeOK, Recordings, Recorders
<1>9. NotOvertaken'
  BY <1>1, <1>3 DEF TypeOK, NotOvertaken, Overtaken, Recordings, Recorders
<1>10. SettledAsBuilt'
  BY <1>1, <1>3 DEF SettledAsBuilt
<1> QED  BY <1>5, <1>6, <1>7, <1>8, <1>9, <1>10

\* The row is pinned to the build: nothing is being recorded, unless it is overtaken.
LEMMA PinConsistent == ASSUME Consistent, Pin PROVE Consistent'
<1> USE BoundsAssumption DEF Consistent
<1>1. /\ receives \in Builds /\ worker.build = receives /\ build[receives] # "none"
      /\ worker.at = "started" /\ release.pinned = 0 /\ worker' = Idle
      /\ UNCHANGED << receives, build, forgotten, events, recorder >>
      /\ overtaken' = (overtaken \/ Overtaken)
  BY DEF Pin, TypeOK, Receptions, StartedBuilds, Builds
<1>2. \/ /\ release' \in Releases /\ release'.status = "BUILDING" /\ release'.pinned = receives
         /\ message' = "done" /\ orphans' = orphans /\ faults' = faults
      \/ /\ release' \in Releases /\ release'.status = "FAILED" /\ release'.pinned = 0
         /\ message' = Returned /\ orphans' = orphans \cup { receives } /\ Fault
  <2>1. /\ FailRelease(release) \in Releases /\ FailRelease(release).status = "FAILED"
        /\ FailRelease(release).pinned = release.pinned
    BY Pieces, FailedRow
  <2>2. receives \in 0 .. MaxReceives
    BY Pieces
  <2> DEFINE pinned == [ release EXCEPT !.status = "BUILDING", !.started = TRUE,
                                        !.pinned = receives ]
  <2>3. pinned \in Releases /\ pinned.status = "BUILDING" /\ pinned.pinned = receives
    BY <2>2, Pieces, PinnedRow
  <2>4. ~ (NoFault /\ Fault)
    BY DEF NoFault, Fault, TypeOK
  <2> HIDE DEF pinned
  <2>5. CASE NoFault
    <3>1. /\ release' = pinned /\ message' = "done" /\ UNCHANGED orphans
      BY <1>1, <2>5, <2>4, Zenon DEF Pin, pinned
    <3> QED  BY <2>5, <2>3, <3>1 DEF NoFault
  <2>6. CASE Fault
    BY <1>1, <2>1, <2>6 DEF Pin, NoFault, Fault, TypeOK
  <2> QED  BY <2>5, <2>6 DEF Pin
<1>3. TypeOK'
  <2>1. release' \in Releases
    BY <1>2
  <2>2. /\ message' \in { "queued", "done", "dead" }
        /\ orphans' \subseteq Builds
    BY <1>1, <1>2 DEF TypeOK, Returned
  <2>4. faults' \in 0 .. MaxFaults
    BY FaultsBounded DEF Pin
  <2>3. overtaken' \in BOOLEAN
    BY <1>1, Zenon DEF TypeOK
  <2> QED  BY <1>1, <2>1, <2>2, <2>3, <2>4, NewTypes DEF TypeOK, Ended
<1>4. Receptions'
  BY <1>1, <1>2, NewTypes DEF TypeOK, Receptions, Returned
<1>5. StartedBuilds'
  BY <1>1, <1>2, NewTypes DEF TypeOK, StartedBuilds, Builds
<1>6. Recordings'
  BY <1>1, <1>2 DEF TypeOK, Recordings, Ended, Recorders
<1>7. NotOvertaken'
  BY <1>1, <1>2 DEF NotOvertaken, Overtaken, Recordings, Recorders
<1>8. SettledAsBuilt'
  BY <1>1, <1>2 DEF SettledAsBuilt, Settled
<1> QED  BY <1>3, <1>4, <1>5, <1>6, <1>7, <1>8

\* The queue: a handler is cut off, a message is delivered again.
LEMMA QueueConsistent == ASSUME Consistent, CutOff \/ Redeliver PROVE Consistent'
<1> USE BoundsAssumption DEF Consistent
<1>1. /\ message' = Returned /\ worker'.at = "idle" /\ worker' \in Handlers /\ Fault
      /\ UNCHANGED << release, receives, build, forgotten, events, recorder, overtaken >>
      /\ message # "none"
  BY NewTypes DEF CutOff, Redeliver, TypeOK
<1>2. /\ orphans' \subseteq Builds /\ orphans \subseteq orphans'
      /\ worker.at = "started" => worker.build \in orphans'
  <2>1. worker.at = "started" => worker.build \in Builds
    BY DEF TypeOK, Receptions, StartedBuilds, Builds
  <2>2. message = "done" => worker.at = "idle"
    BY DEF TypeOK
  <2> QED  BY <2>1, <2>2 DEF CutOff, Redeliver, TypeOK
<1>3. TypeOK'
  BY <1>1, <1>2 DEF TypeOK, Fault, Ended, Returned
<1>4. Receptions'
  BY <1>1 DEF TypeOK, Receptions, Returned
<1>5. StartedBuilds'
  BY <1>1, <1>2 DEF TypeOK, StartedBuilds, Builds
<1>6. Recordings' /\ NotOvertaken' /\ SettledAsBuilt'
  BY <1>1 DEF Recordings, NotOvertaken, SettledAsBuilt, Settled, Ended
<1> QED  BY <1>3, <1>4, <1>5, <1>6

\* CodeBuild: what has ended stays as it ended, and nothing that is being recorded is
\* forgotten.
LEMMA CodeBuildConsistent ==
    ASSUME Consistent, NEW b \in Builds, BuildEnds(b) \/ LoseEvent(b) \/ Forget(b)
    PROVE  Consistent'
<1> USE DEF Consistent
<1>1. /\ build' \in [ Builds -> { "none", "running", "succeeded", "failed" } ]
      /\ \A c \in Builds : /\ Ended(c) => Ended(c)' /\ build'[c] = build[c]
                           /\ build'[c] = "none" <=> build[c] = "none"
      /\ UNCHANGED << release, message, receives, worker, recorder, orphans, overtaken >>
  BY Pieces DEF BuildEnds, LoseEvent, Forget, Ended
<1>2. /\ \/ events' = events \cup { b } /\ forgotten' = forgotten /\ ~ Ended(b) /\ Ended(b)'
         \/ events' = events \ { b } /\ forgotten' = forgotten
         \/ /\ events' = events /\ forgotten' = forgotten \cup { b } /\ Ended(b)
            /\ b \notin events /\ \A r \in Recorders : recorder[r].build # b
  <2>1. CASE BuildEnds(b)
    BY <2>1, Pieces DEF BuildEnds, Ended
  <2>2. CASE LoseEvent(b)
    BY <2>2 DEF LoseEvent
  <2>3. CASE Forget(b)
    BY <2>3 DEF Forget
  <2> QED  BY <2>1, <2>2, <2>3
<1>3. faults' \in 0 .. MaxFaults
  <2> UNCHANGED faults => NoFault
    BY DEF NoFault
  <2> QED  BY FaultsBounded DEF BuildEnds, LoseEvent, Forget
<1>4. TypeOK'
  BY <1>1, <1>2, <1>3 DEF TypeOK
<1>5. Receptions'
  BY <1>1 DEF Receptions
<1>6. StartedBuilds'
  <2>1. /\ release.pinned # 0 => release.pinned \in Builds
        /\ worker.at # "idle" => receives \in Builds
    BY DEF TypeOK, Releases, Receptions, Builds
  <2> QED  BY <1>1, <2>1 DEF StartedBuilds
<1>7. Recordings'
  BY <1>1, <1>2 DEF TypeOK, Recordings, Recorders
<1>8. NotOvertaken'
  BY <1>1, <1>2 DEF TypeOK, NotOvertaken, Recordings, Recorders
<1>9. SettledAsBuilt'
  <2>1. release.pinned # 0 => release.pinned \in Builds
    BY DEF TypeOK, Releases, Builds
  <2> QED  BY <1>1, <1>2, <2>1 DEF SettledAsBuilt, Settled
<1> QED  BY <1>4, <1>5, <1>6, <1>7, <1>8, <1>9

\* Reading: of an event, whose build has ended, and by the sweep.
LEMMA ReadConsistent ==
    ASSUME Consistent, BeginSweep \/ \E b \in Builds : ReadEvent(b)
    PROVE  Consistent'
<1> USE DEF Consistent
<1>1. /\ events' \subseteq events
      /\ UNCHANGED << release, message, receives, worker, build, forgotten, faults, orphans,
                      overtaken >>
  BY DEF BeginSweep, ReadEvent
<1>2. \/ recorder' = recorder
      \/ \E b \in events : /\ recorder' = [ recorder EXCEPT !["event"] = [ at |-> "read", build |-> b ] ]
                           /\ release.pinned \in { 0, b } /\ release.status = "BUILDING"
      \/ /\ recorder' = [ recorder EXCEPT !["sweep"] = [ at |-> "asking", build |-> release.pinned ] ]
         /\ release.pinned # 0 /\ release.status = "BUILDING"
  BY DEF BeginSweep, ReadEvent, Accepts, Sweeps
<1>3. recorder' \in [ Recorders -> Handlers ]
  <2>1. /\ \A b \in events : [ at |-> "read", build |-> b ] \in Handlers
        /\ [ at |-> "asking", build |-> release.pinned ] \in Handlers
    BY Pieces DEF TypeOK, Handlers, Builds
  <2> QED  BY <1>2, <2>1 DEF TypeOK
<1>4. TypeOK'
  BY <1>1, <1>3 DEF TypeOK, Ended
<1>5. Receptions' /\ StartedBuilds'
  BY <1>1 DEF Receptions, StartedBuilds
<1>6. Recordings'
  BY <1>1, <1>2 DEF TypeOK, Recordings, Ended, Recorders
<1>7. NotOvertaken'
  BY <1>1, <1>2 DEF TypeOK, NotOvertaken, Recorders
<1>8. SettledAsBuilt'
  BY <1>1 DEF SettledAsBuilt, Settled, Ended
<1> QED  BY <1>4, <1>5, <1>6, <1>7, <1>8

\* The sweep asks about the pinned build.
LEMMA AskConsistent == ASSUME Consistent, AskBuild PROVE Consistent'
<1> USE BoundsAssumption DEF Consistent
<1>1. /\ recorder["sweep"].at = "asking"
      /\ recorder["sweep"].build = release.pinned /\ release.pinned \in Builds
      /\ UNCHANGED << message, receives, worker, build, forgotten, events, faults, orphans,
                      overtaken >>
  BY Pieces DEF AskBuild, Recordings, Builds
<1>2. /\ release' \in Releases /\ release'.pinned = release.pinned
      /\ \/ release' = release
         \/ release'.status = "FAILED" /\ release.pinned \in forgotten
  BY <1>1, Pieces, FailedRow DEF AskBuild
<1>3. \/ recorder' = [ recorder EXCEPT !["sweep"] = Idle ]
      \/ /\ recorder' = [ recorder EXCEPT !["sweep"] = [ at |-> "read", build |-> release.pinned ] ]
         /\ release.pinned \notin forgotten /\ Ended(release.pinned)
  BY <1>1 DEF AskBuild
<1>4. recorder' \in [ Recorders -> Handlers ]
  BY <1>3, Pieces, NewTypes DEF TypeOK, Handlers
<1>5. TypeOK'
  BY <1>1, <1>2, <1>4 DEF TypeOK, Ended
<1>6. Receptions' /\ StartedBuilds'
  BY <1>1, <1>2 DEF TypeOK, Receptions, StartedBuilds
<1>7. Recordings'
  BY <1>1, <1>2, <1>3, NewTypes DEF TypeOK, Recordings, Ended, Recorders
<1>8. NotOvertaken'
  BY <1>1, <1>2, <1>3, NewTypes DEF TypeOK, NotOvertaken, Recorders
<1>9. SettledAsBuilt'
  BY <1>1, <1>2 DEF TypeOK, SettledAsBuilt, Settled, Ended
<1> QED  BY <1>5, <1>6, <1>7, <1>8, <1>9

\* A result is recorded: the pinned build's, unless there is none or it was overtaken.
LEMMA RecordConsistent ==
    ASSUME Consistent, NEW r \in Recorders, Record(r)
    PROVE  Consistent'
<1> USE BoundsAssumption DEF Consistent
<1> DEFINE b == recorder[r].build
<1>1. /\ recorder[r].at = "read" /\ b \in Builds \ forgotten /\ Ended(b)
      /\ recorder' = [ recorder EXCEPT ![r] = Idle ]
      /\ events' \subseteq events
      /\ UNCHANGED << message, receives, worker, build, forgotten, orphans, overtaken >>
  BY DEF Record, Recordings
<1>2. release' \in { release, Outcome(b) } /\ faults' \in 0 .. MaxFaults
  BY DEF Record, TypeOK, Fault, NoFault
<1>3. /\ release' \in Releases /\ release'.pinned = release.pinned
      /\ \/ release' = release
         \/ build[b] = "succeeded" /\ release'.status = "READY" /\ release'.digest = b
         \/ build[b] = "failed" /\ release'.status = "FAILED"
  <2> b \in 0 .. MaxReceives
    BY <1>1 DEF Builds
  <2> QED  BY <1>1, <1>2, Pieces, OutcomeRow DEF Ended
<1>4. recorder' \in [ Recorders -> Handlers ]
  BY <1>1, NewTypes DEF TypeOK
<1>5. TypeOK'
  BY <1>1, <1>2, <1>3, <1>4 DEF TypeOK, Ended
<1>6. Receptions' /\ StartedBuilds'
  BY <1>1, <1>3 DEF TypeOK, Receptions, StartedBuilds
<1>7. Recordings'
  BY <1>1, <1>3, NewTypes DEF TypeOK, Recordings, Ended, Recorders
<1>8. NotOvertaken'
  BY <1>1, <1>3, NewTypes DEF TypeOK, NotOvertaken, Recordings, Recorders
<1>9. SettledAsBuilt'
  BY <1>1, <1>3 DEF TypeOK, NotOvertaken, SettledAsBuilt, Settled, Ended
<1> QED  BY <1>5, <1>6, <1>7, <1>8, <1>9

\* The invariant holds in every reachable state.
THEOREM Consistency == Spec => []Consistent
<1>1. ASSUME Consistent, [Next]_vars
      PROVE  Consistent'
  <2>1. CASE UNCHANGED vars
    BY <1>1, <2>1 DEF vars, Consistent, TypeOK, Receptions, StartedBuilds, Recordings,
          NotOvertaken, SettledAsBuilt, Settled, Ended
  <2> QED  BY <1>1, <2>1, CreateConsistent, ReceiveConsistent, StartConsistent, PinConsistent,
              QueueConsistent, CodeBuildConsistent, ReadConsistent, AskConsistent,
              RecordConsistent DEF Next, Work
<1> QED  BY InitConsistent, <1>1, PTL DEF Spec

\* "A redelivered message must never rebuild a release": of the builds that a row was
\* told of, there is one.
THEOREM OneBuildPerReleaseHolds == Spec => []OneBuildPerRelease
<1>1. Consistent => OneBuildPerRelease
  BY DEF Consistent, TypeOK, Receptions, StartedBuilds, OneBuildPerRelease, Builds
<1> QED  BY Consistency, <1>1, PTL

\* A release that is pinned to a build is settled as that build ended.
THEOREM SettledAsBuiltHolds == Spec => []SettledAsBuilt
<1>1. Consistent => SettledAsBuilt
  BY DEF Consistent
<1> QED  BY Consistency, <1>1, PTL

\* What customers run stays what it is: no event, sweep or redelivery changes a READY
\* release, but for a handler that overtakes a result.
THEOREM ReadyIsFinalHolds == Spec => ReadyIsFinal
<1> DEFINE Final == release.status = "READY" /\ ~ overtaken' =>
                      release'.status = "READY" /\ release'.digest = release.digest
<1>1. ASSUME Consistent, [Next]_vars
      PROVE  Final
  <2> SUFFICES ASSUME release.status = "READY", ~ overtaken'
               PROVE  release'.status = "READY" /\ release'.digest = release.digest
    OBVIOUS
  <2> USE <1>1 DEF Consistent
  <2>1. CASE UNCHANGED release
    BY <2>1
  <2>2. CASE Receive
    BY <2>2 DEF Receive, MayStart
  <2>3. CASE StartBuild \/ Pin
    BY <2>3 DEF StartBuild, Pin, Overtaken
  <2>4. CASE AskBuild
    BY <2>4 DEF AskBuild, NotOvertaken, Recordings
  <2>5. ASSUME NEW r \in Recorders, Record(r)
        PROVE  release'.status = "READY" /\ release'.digest = release.digest
    <3> DEFINE b == recorder[r].build
    <3>1. /\ b = release.pinned /\ b \in Builds \ forgotten
          /\ release' \in { release, Outcome(b) } /\ ~ overtaken
      BY <2>5 DEF Record, NotOvertaken, Recordings
    <3>2. build[b] = "succeeded" /\ release.digest = b
      BY <3>1 DEF SettledAsBuilt, Settled, Builds
    <3> QED  BY <3>1, <3>2, Pieces, OutcomeRow
  <2>6. CASE CreateRelease
    BY <2>6 DEF CreateRelease, NoRelease
  <2> QED  BY <2>1, <2>2, <2>3, <2>4, <2>5, <2>6
           DEF Next, Work, CutOff, Redeliver, BuildEnds, LoseEvent, Forget, ReadEvent, BeginSweep, vars
<1> QED  BY Consistency, <1>1, PTL DEF Spec, ReadyIsFinal

=============================================================================
