------------------------ MODULE RelayCommands_proofs ------------------------
(***************************************************************************)
(* Proofs about RelayCommands, for every set of commands of any types and  *)
(* every number of requests, re-offers and faults.                         *)
(***************************************************************************)
EXTENDS RelayCommands, TLAPS

\* The types of the records and of what they are put together from.
LEMMA Pieces ==
    ASSUME Orderly
    PROVE  /\ relay \in Invocations /\ marker \in Markers
           /\ relay.at \in Steps /\ relay.resuming \in BOOLEAN /\ relay.busy \in BOOLEAN
           /\ relay.batch \subseteq Commands /\ relay.command \in Commands \cup { None }
           /\ relay.outcome \in Outcomes
           /\ marker.command \in Commands \cup { None }
           /\ relay.at \notin { "idle", "resume", "fetch", "next" } =>
                 relay.command \in Commands
           /\ marker.phase # "absent" => marker.command \in Commands
           /\ None \notin Commands
BY TypeAssumption DEF Orderly, TypeOK, RelayInOrder, Invocations, Markers, NoMarker

LEMMA AsleepFields ==
    /\ Asleep \in Invocations
    /\ Asleep.at = "idle" /\ ~ Asleep.resuming /\ Asleep.batch = {}
    /\ Asleep.command = None /\ Asleep.outcome = "none"
BY DEF Asleep, Invocations, Steps, Outcomes

LEMMA NoMarkerFields ==
    /\ NoMarker \in Markers
    /\ NoMarker.command = None /\ NoMarker.phase = "absent"
BY DEF NoMarker, Markers

\* How the relay goes on: to its next call, with an answer, or after a command.
LEMMA GotoFields ==
    ASSUME TypeOK, NEW step \in Steps, Goto(step)
    PROVE  /\ relay' \in Invocations /\ relay'.at = step
           /\ relay'.resuming = relay.resuming /\ relay'.batch = relay.batch
           /\ relay'.command = relay.command /\ relay'.outcome = relay.outcome
BY DEF TypeOK, Goto, Invocations

LEMMA AnswerFields ==
    ASSUME TypeOK, NEW outcome \in Outcomes, NEW step \in Steps, Answer(outcome, step)
    PROVE  /\ relay' \in Invocations /\ relay'.at = step
           /\ relay'.resuming = relay.resuming /\ relay'.batch = relay.batch
           /\ relay'.command = relay.command /\ relay'.outcome = outcome
BY DEF TypeOK, Answer, Invocations

LEMMA AfterFields ==
    ASSUME TypeOK, Done \/ Deferred
    PROVE  /\ relay' \in Invocations
           /\ relay'.at = IF relay.resuming THEN "fetch" ELSE "next"
           /\ ~ relay'.resuming /\ relay'.batch = relay.batch
           /\ relay'.command = None
BY DEF TypeOK, Done, Deferred, AfterCommand, Invocations, Steps, Outcomes

LEMMA FaultsBounded == ASSUME TypeOK, Fault \/ NoFault PROVE faults' \in 0 .. MaxFaults
BY LimitsAssumption DEF TypeOK, Fault, NoFault

\* The initial state.
LEMMA InitOrderly == Init => Orderly
<1> SUFFICES ASSUME Init
             PROVE  Orderly
  OBVIOUS
<1> USE AsleepFields, NoMarkerFields, TypeAssumption DEF Init
<1>1. TypeOK
  BY LimitsAssumption DEF TypeOK, Rows, Active, InFlight, Outcomes, Mishaps, ToSet, IsInjective
<1>2. RelayInOrder /\ MarkerInOrder
  BY DEF RelayInOrder, MarkerInOrder
<1>3. TracesHaveRows
  BY DEF TracesHaveRows, Untouched, Held, Own
<1>4. WorkIsUnanswered /\ AnswersAreEarned
  BY DEF WorkIsUnanswered, AnswersAreEarned, Executes
<1>5. InstallsGoAlone /\ TeardownIsLast
  BY DEF InstallsGoAlone, TeardownIsLast, TearingDown, Open, Active, InFlight, Starting, Executes
<1>6. DebtsAreKnown
  BY DEF DebtsAreKnown
<1> QED  BY <1>1, <1>2, <1>3, <1>4, <1>5, <1>6 DEF Orderly

\* Steps of the relay alone.
LEMMA PollOrderly == ASSUME Orderly, Poll PROVE Orderly'
<1> USE DEF Orderly, Poll
<1>1. /\ relay.at = "idle" /\ relay = Asleep
      /\ relay' \in Invocations /\ relay'.at = "resume" /\ relay'.resuming
      /\ relay'.batch = {} /\ relay'.command = None
      /\ UNCHANGED << job, order, work, marker, cache, faults, starts, mishap >>
  BY AsleepFields DEF TypeOK, Invocations, Steps
<1> HIDE DEF Poll
<1> USE <1>1, AsleepFields, Pieces
<1>2. TypeOK'
  BY DEF TypeOK
<1>3. RelayInOrder' /\ MarkerInOrder'
  BY DEF RelayInOrder, MarkerInOrder, Careful, OfType
<1>4. TracesHaveRows'
  BY DEF TracesHaveRows, Untouched, Held, Own
<1>5. WorkIsUnanswered' /\ AnswersAreEarned'
  BY DEF WorkIsUnanswered, AnswersAreEarned, Executes, Own, Open, Earned, OfType
<1>6. InstallsGoAlone'
  BY DEF InstallsGoAlone, Open, Starting, Executes, OfType, Before, Untouched, Held, Own
<1>7. TeardownIsLast'
  BY DEF TeardownIsLast, TearingDown, Open, OfType
<1>8. DebtsAreKnown'
  BY DEF DebtsAreKnown, Owed, Open, Own, Careful, OfType, Executes
<1> QED  BY <1>2, <1>3, <1>4, <1>5, <1>6, <1>7, <1>8

LEMMA EndPollOrderly == ASSUME Orderly, EndPoll PROVE Orderly'
<1> USE DEF Orderly
<1>1. /\ relay.at = "next" /\ relay.batch = {} /\ relay' = Asleep
      /\ UNCHANGED << job, order, work, marker, cache, faults, starts, mishap >>
  BY DEF EndPoll
<1> USE <1>1, AsleepFields, Pieces
<1>2. TypeOK'
  BY DEF TypeOK
<1>3. RelayInOrder' /\ MarkerInOrder'
  BY DEF RelayInOrder, MarkerInOrder, Careful, OfType
<1>4. TracesHaveRows'
  BY DEF TracesHaveRows, Untouched, Held, Own
<1>5. WorkIsUnanswered'
  BY DEF WorkIsUnanswered, Executes, BeforeAnswer, Own, Open, OfType
<1>6. AnswersAreEarned'
  BY DEF AnswersAreEarned, Earned, OfType
<1>7. InstallsGoAlone'
  BY DEF InstallsGoAlone, Open, Starting, Executes, OfType, Before, Untouched, Held, Own
<1>8. TeardownIsLast'
  BY DEF TeardownIsLast, TearingDown, Open, OfType
<1>9. DebtsAreKnown'
  BY DEF DebtsAreKnown, Owed, Open, Own, Careful, OfType, Executes, BeforeAnswer
<1> QED  BY <1>2, <1>3, <1>4, <1>5, <1>6, <1>7, <1>8, <1>9

LEMMA DispatchOrderly == ASSUME Orderly, Dispatch PROVE Orderly'
<1> USE DEF Orderly
<1>1. PICK c \in relay.batch :
        /\ relay.at = "next" /\ relay' \in Invocations
        /\ relay'.batch = relay.batch \ { c } /\ relay'.command = c
        /\ relay'.resuming = relay.resuming /\ relay'.outcome = cache[c]
        /\ relay'.at = IF cache[c] # "none" THEN "report"
                       ELSE IF Careful(c) THEN "inspect" ELSE "act"
        /\ UNCHANGED << job, order, work, marker, cache, faults, starts, mishap >>
  <2>1. PICK c \in relay.batch :
           /\ relay.at = "next"
           /\ relay' = [ relay EXCEPT
                 !.batch = @ \ { c }, !.command = c, !.outcome = cache[c],
                 !.at = IF cache[c] # "none" THEN "report"
                        ELSE IF Careful(c) THEN "inspect" ELSE "act" ]
           /\ UNCHANGED << job, order, work, marker, cache, faults, starts, mishap >>
    BY DEF Dispatch
  <2>2. c \in Commands /\ cache[c] \in Outcomes
    BY Pieces DEF TypeOK, Outcomes
  <2> QED  BY <2>1, <2>2 DEF TypeOK, Invocations, Steps
<1> USE <1>1, Pieces
<1>2. TypeOK'
  BY DEF TypeOK
<1>3. RelayInOrder' /\ MarkerInOrder'
  BY DEF RelayInOrder, MarkerInOrder, Careful, OfType
<1>4. TracesHaveRows'
  BY DEF TracesHaveRows, Untouched, Held, Own
<1>5. WorkIsUnanswered'
  BY DEF WorkIsUnanswered, Executes, BeforeAnswer, Own, Open, OfType,
         RelayInOrder, MarkerInOrder, Careful
<1>6. AnswersAreEarned'
  BY DEF AnswersAreEarned, Earned, OfType
<1>7. InstallsGoAlone'
  BY DEF InstallsGoAlone, Open, Starting, Executes, OfType, Before, Untouched, Held, Own
<1>8. TeardownIsLast'
  BY DEF TeardownIsLast, TearingDown, Open, OfType
<1>9. DebtsAreKnown'
  BY DEF DebtsAreKnown, Owed, Open, Own, Careful, OfType, Executes, BeforeAnswer
<1> QED  BY <1>2, <1>3, <1>4, <1>5, <1>6, <1>7, <1>8, <1>9

LEMMA ColdStartOrderly == ASSUME Orderly, ColdStart PROVE Orderly'
<1> USE DEF Orderly
<1>1. /\ relay.at = "idle" /\ cache' = [ c \in Commands |-> "none" ]
      /\ UNCHANGED << job, order, work, marker, relay, faults, starts, mishap >>
  BY DEF ColdStart
<1> USE <1>1, Pieces
<1>2. TypeOK'
  BY DEF TypeOK
<1>3. RelayInOrder' /\ MarkerInOrder'
  BY DEF RelayInOrder, MarkerInOrder, Careful, OfType
<1>4. TracesHaveRows'
  BY DEF TracesHaveRows, Untouched, Held, Own
<1>5. WorkIsUnanswered'
  BY DEF WorkIsUnanswered, Executes, BeforeAnswer, Own, Open, OfType
<1>6. AnswersAreEarned'
  BY DEF AnswersAreEarned, Earned, OfType
<1>7. InstallsGoAlone'
  BY DEF InstallsGoAlone, Open, Starting, Executes, OfType, Before, Untouched, Held, Own
<1>8. TeardownIsLast'
  BY DEF TeardownIsLast, TearingDown, Open, OfType
<1>9. DebtsAreKnown'
  BY DEF DebtsAreKnown, Owed, Open, Own, Careful, OfType, Executes, BeforeAnswer
<1> QED  BY <1>2, <1>3, <1>4, <1>5, <1>6, <1>7, <1>8, <1>9

LEMMA CutOffOrderly == ASSUME Orderly, CutOff PROVE Orderly'
<1> USE DEF Orderly
<1>1. /\ relay.at # "idle" /\ relay' = Asleep /\ cache' = [ c \in Commands |-> "none" ]
      /\ mishap' = IF relay.at \in { "record", "report" } /\ ~ Own(relay.command)
                   THEN [ mishap EXCEPT ![relay.command] = "cut off" ] ELSE mishap
      /\ faults' \in 0 .. MaxFaults
      /\ UNCHANGED << job, order, work, marker, starts >>
  BY FaultsBounded DEF CutOff
<1> USE <1>1, AsleepFields, Pieces
<1>2. TypeOK'
  BY DEF TypeOK, Mishaps, Unrecorded
<1>3. RelayInOrder' /\ MarkerInOrder'
  BY DEF RelayInOrder, MarkerInOrder, Careful, OfType
<1>4. TracesHaveRows'
  BY DEF TracesHaveRows, Untouched, Held, Own
<1>5. WorkIsUnanswered'
  BY DEF WorkIsUnanswered, Executes, BeforeAnswer, Own, Open, OfType
<1>6. AnswersAreEarned'
  BY DEF AnswersAreEarned, Earned, OfType
<1>7. InstallsGoAlone'
  <2>1. /\ relay'.batch = {} /\ relay'.command \notin Commands
        /\ UNCHANGED << job, order, marker, starts >>
    OBVIOUS
  <2> QED  BY ONLY <2>1, InstallsGoAlone
           DEF InstallsGoAlone, Open, Starting, Executes, OfType, Before, Untouched, Held, Own
<1>8. TeardownIsLast'
  BY DEF TeardownIsLast, TearingDown, Open, OfType
<1>9. DebtsAreKnown'
  BY DEF DebtsAreKnown, Owed, Open, Own, Careful, OfType, Executes, BeforeAnswer,
         TypeOK, RelayInOrder, Unrecorded
<1> QED  BY <1>2, <1>3, <1>4, <1>5, <1>6, <1>7, <1>8, <1>9

LEMMA ResumeOrderly == ASSUME Orderly, Resume PROVE Orderly'
<1> USE DEF Orderly
<1>1. /\ relay.at = "resume" /\ relay.resuming /\ relay.batch = {} /\ relay.command = None
      /\ faults' \in 0 .. MaxFaults
      /\ UNCHANGED << job, order, work, marker, cache, starts, mishap >>
      /\ \/ Done
         \/ /\ marker # NoMarker /\ marker.command \in Commands
            /\ relay' \in Invocations /\ relay'.resuming /\ relay'.batch = {}
            /\ relay'.command = marker.command
            /\ relay'.outcome = IF marker.phase = "running" THEN "none"
                                ELSE IF marker.ok THEN "ok" ELSE "failed"
            /\ relay'.at = IF marker.phase = "settled" THEN "report"
                           ELSE ResumesAt(marker.command)
            /\ ResumesAt(marker.command) \in { "authorize", "act" }
            /\ ResumesAt(marker.command) = "authorize" =>
                  OfType(marker.command, { "INSTALL" })
  <2>1. /\ relay.at = "resume" /\ relay.resuming /\ relay.batch = {} /\ relay.command = None
        /\ faults' \in 0 .. MaxFaults
        /\ UNCHANGED << job, order, work, marker, cache, starts, mishap >>
    BY FaultsBounded DEF Resume, RelayInOrder
  <2>2. CASE Done
    BY <2>1, <2>2
  <2>3. CASE /\ marker # NoMarker
             /\ relay' = [ relay EXCEPT
                   !.command = marker.command,
                   !.outcome = IF marker.phase = "running" THEN "none"
                               ELSE IF marker.ok THEN "ok" ELSE "failed",
                   !.at = IF marker.phase = "settled" THEN "report"
                          ELSE ResumesAt(marker.command) ]
    <3>1. marker.command \in Commands
      BY <2>3, Pieces DEF TypeOK
    <3>2. marker.started \/ OfType(marker.command, { "INSTALL" })
      BY <3>1, Pieces DEF MarkerInOrder
    <3>3. /\ ResumesAt(marker.command) \in { "authorize", "act" }
          /\ ResumesAt(marker.command) = "authorize" => OfType(marker.command, { "INSTALL" })
      BY <3>1, <3>2, TypeAssumption
         DEF ResumesAt, OfType, InstallResumesAt, DeployResumesAt, RestartResumesAt,
             ConfigResumesAt, DestroyResumesAt, PurgeResumesAt
    <3> QED  BY <2>1, <2>3, <3>1, <3>3, Pieces DEF Invocations, Steps, Outcomes
  <2> QED  BY <2>1, <2>2, <2>3 DEF Resume
<1> USE <1>1, AfterFields, Pieces
<1>2. TypeOK'
  BY DEF TypeOK
<1>3. RelayInOrder' /\ MarkerInOrder'
  BY DEF RelayInOrder, MarkerInOrder, Careful, OfType
<1>4. TracesHaveRows'
  BY DEF TracesHaveRows, Untouched, Held, Own
<1>5. WorkIsUnanswered'
  BY DEF WorkIsUnanswered, Executes, BeforeAnswer, Own, Open, OfType
<1>6. AnswersAreEarned'
  BY DEF AnswersAreEarned, Earned, OfType
<1>7. InstallsGoAlone'
  BY DEF InstallsGoAlone, Open, Starting, Executes, OfType, Before, Untouched, Held, Own
<1>8. TeardownIsLast'
  BY DEF TeardownIsLast, TearingDown, Open, OfType
<1>9. DebtsAreKnown'
  BY DEF DebtsAreKnown, Owed, Open, Own, Careful, OfType, Executes, BeforeAnswer
<1> QED  BY <1>2, <1>3, <1>4, <1>5, <1>6, <1>7, <1>8, <1>9

\* The watchdog moves a row among the states of a job; it opens none and
\* answers none.
LEMMA RowsMove ==
    ASSUME Orderly, job' \in [ Commands -> Rows ], faults' \in 0 .. MaxFaults,
           \A c \in Commands :
              /\ job'[c].state = "NONE" <=> job[c].state = "NONE"
              /\ job'[c].state = "SUCCEEDED" => job[c].state = "SUCCEEDED"
              /\ job'[c].state \in Active => job[c].state \in Active,
           UNCHANGED << order, work, marker, relay, cache, starts, mishap >>
    PROVE  Orderly'
<1> USE Pieces DEF Orderly
<1>2. TypeOK'
  BY DEF TypeOK
<1>3. RelayInOrder' /\ MarkerInOrder'
  BY DEF RelayInOrder, MarkerInOrder, Careful, OfType
<1>4. TracesHaveRows'
  BY DEF TracesHaveRows, Untouched, Held, Own
<1>5. WorkIsUnanswered'
  BY DEF WorkIsUnanswered, Executes, BeforeAnswer, Own, Open, OfType
<1>6. AnswersAreEarned'
  BY DEF AnswersAreEarned, Earned, OfType
<1>7. InstallsGoAlone'
  BY DEF InstallsGoAlone, Open, Starting, Executes, OfType, Before, Untouched, Held, Own
<1>8. TeardownIsLast'
  BY DEF TeardownIsLast, TearingDown, Open, OfType
<1>9. DebtsAreKnown'
  BY DEF DebtsAreKnown, Owed, Open, Own, Careful, OfType, Executes, BeforeAnswer
<1> QED  BY <1>2, <1>3, <1>4, <1>5, <1>6, <1>7, <1>8, <1>9

LEMMA WatchdogOrderly ==
    ASSUME Orderly, NEW c \in Commands, Requeue(c) \/ Park(c) \/ GiveUp(c)
    PROVE  Orderly'
<1>1. /\ job[c].state \in Active
      /\ UNCHANGED << order, work, marker, relay, cache, starts, mishap >>
      /\ faults' \in 0 .. MaxFaults
  BY FaultsBounded DEF Orderly, Requeue, Park, GiveUp, Active, InFlight
<1>2. /\ job' \in [ Commands -> Rows ]
      /\ \A d \in Commands \ { c } : job'[d] = job[d]
      /\ job'[c].state \in { "REQUESTED", "WAITING", "FAILED" }
  <2>1. CASE Requeue(c)
    BY <2>1, LimitsAssumption DEF Orderly, TypeOK, Requeue, MayRequeue, Rows, Active
  <2>2. CASE Park(c)
    BY <2>2 DEF Orderly, TypeOK, Park, Rows, Active, InFlight
  <2>3. CASE GiveUp(c)
    BY <2>3 DEF Orderly, TypeOK, GiveUp, Rows
  <2> QED  BY <2>1, <2>2, <2>3
<1> QED  BY <1>1, <1>2, RowsMove DEF Active, InFlight

LEMMA FinishOrderly == ASSUME Orderly, NEW f \in Commands, Finish(f) PROVE Orderly'
<1> USE DEF Orderly
<1>1. /\ work[f] = "running" /\ work' \in [ Commands -> Outcomes ]
      /\ \A d \in Commands \ { f } : work'[d] = work[d]
      /\ work'[f] \in { "ok", "failed" }
      /\ UNCHANGED << job, order, marker, relay, cache, faults, starts, mishap >>
  BY DEF Finish, TypeOK, Outcomes
<1> USE <1>1, Pieces
<1>2. TypeOK'
  BY DEF TypeOK
<1>3. RelayInOrder' /\ MarkerInOrder'
  BY DEF RelayInOrder, MarkerInOrder, Careful, OfType
<1>4. TracesHaveRows'
  BY DEF TracesHaveRows, Untouched, Held, Own
<1>5. WorkIsUnanswered'
  BY DEF WorkIsUnanswered, Executes, BeforeAnswer, Own, Open, OfType
<1>6. AnswersAreEarned'
  BY DEF AnswersAreEarned, Earned, OfType
<1>7. InstallsGoAlone'
  BY DEF InstallsGoAlone, Open, Starting, Executes, OfType, Before, Untouched, Held, Own
<1>8. TeardownIsLast'
  BY DEF TeardownIsLast, TearingDown, Open, OfType
<1>9. DebtsAreKnown'
  BY DEF DebtsAreKnown, Owed, Open, Own, Careful, OfType, Executes, BeforeAnswer
<1> QED  BY <1>2, <1>3, <1>4, <1>5, <1>6, <1>7, <1>8, <1>9

LEMMA OrderGrows ==
    ASSUME TypeOK, NEW r \in Commands, job[r].state = "NONE", order' = Append(order, r)
    PROVE  /\ order' \in Seq(Commands) /\ IsInjective(order')
           /\ ToSet(order') = ToSet(order) \cup { r }
           /\ \A c, d \in Commands : Before(c, d) => Before(c, d)'
           /\ \A c \in Commands : job[c].state # "NONE" => Before(c, r)'
<1>1. order \in Seq(Commands) /\ r \notin ToSet(order) /\ IsInjective(order)
  BY DEF TypeOK
<1>2. /\ order' \in Seq(Commands) /\ Len(order') = Len(order) + 1
      /\ order'[Len(order) + 1] = r /\ \A i \in 1 .. Len(order) : order'[i] = order[i]
  BY <1>1
<1>3. IsInjective(order')
  BY <1>1, <1>2 DEF IsInjective, ToSet
<1>4. ToSet(order') = ToSet(order) \cup { r }
  <2>1. ToSet(order') \subseteq ToSet(order) \cup { r }
    BY <1>1, <1>2 DEF ToSet
  <2>2. ToSet(order) \subseteq ToSet(order')
    BY <1>1, <1>2 DEF ToSet
  <2>3. r \in ToSet(order')
    BY <1>1, <1>2 DEF ToSet
  <2> QED  BY <2>1, <2>2, <2>3
<1>5. \A c, d \in Commands : Before(c, d) => Before(c, d)'
  BY <1>1, <1>2 DEF Before
<1>6. ASSUME NEW c \in Commands, job[c].state # "NONE" PROVE Before(c, r)'
  <2>1. PICK i \in 1 .. Len(order) : order[i] = c
    BY <1>1, <1>6 DEF TypeOK, ToSet
  <2> QED  BY <1>1, <1>2, <2>1 DEF Before
<1> QED  BY <1>2, <1>3, <1>4, <1>5, <1>6

LEMMA RequestOrderly == ASSUME Orderly, NEW r \in Commands, Request(r) PROVE Orderly'
<1> USE DEF Orderly
<1>1. /\ job[r].state = "NONE" /\ ~ Open(r)
      /\ job' \in [ Commands -> Rows ] /\ job'[r].state = "REQUESTED"
      /\ \A d \in Commands \ { r } :
            \/ job'[d] = job[d]
            \/ Open(d) /\ OfType(d, { "INSTALL" }) /\ job'[d].state = "FAILED"
      /\ order' = Append(order, r)
      /\ UNCHANGED << work, marker, relay, cache, faults, starts, mishap >>
  BY DEF Request, TypeOK, Rows, Open, Active, InFlight
<1>10. /\ TearingDown <=> OfType(r, { "PURGE" })
       /\ \A d \in Commands \ { r } : Open(d)' =>
             /\ Open(d)
             /\ ~ OfType(r, { "INSTALL", "DESTROY", "PURGE" })
             /\ OfType(d, { "INSTALL" }) => OfType(r, { "CONFIG_UPDATE" })
  BY DEF Request, TypeOK, Open, OfType, Active, InFlight
<1>12. Untouched(r) /\ relay.command # r /\ r \notin relay.batch
  BY <1>1 DEF TracesHaveRows, Untouched, Held
<1> USE <1>1, Pieces
<1>2. TypeOK'
  <2>1. \A c \in Commands : c \in ToSet(order') <=> job'[c].state # "NONE"
    BY OrderGrows DEF TypeOK, Open, Active, InFlight
  <2> QED  BY <2>1, OrderGrows DEF TypeOK
<1>3. RelayInOrder' /\ MarkerInOrder'
  BY DEF RelayInOrder, MarkerInOrder, Careful, OfType
<1>4. TracesHaveRows'
  BY DEF TracesHaveRows, Untouched, Held, Own
<1>5. WorkIsUnanswered'
  <2>1. \A c \in Commands \ { r } : /\ Open(c)' => Open(c)
                                   /\ job'[c].state = "SUCCEEDED" => job[c].state = "SUCCEEDED"
    BY <1>10
  <2>2. relay.at = "clear" => ~ Open(relay.command)'
    BY <1>12, <2>1 DEF WorkIsUnanswered, Open
  <2>3. \A c \in Commands : c \in relay.batch \/ Executes(c, BeforeAnswer) => c # r
    BY <1>12 DEF Executes
  <2> QED  BY <2>1, <2>2, <2>3 DEF WorkIsUnanswered, Executes, Own, Open, OfType
<1>6. AnswersAreEarned'
  BY DEF AnswersAreEarned, Earned, OfType
<1>11. ASSUME NEW c \in Commands, OfType(c, { "INSTALL" })
       PROVE  /\ Open(c)' => \A d \in Commands \ { c } :
                                Open(d)' => OfType(d, { "CONFIG_UPDATE" }) /\ Before(c, d)'
              /\ Open(c)' \/ Starting(c)' =>
                    \A d \in Commands \ { c } : Open(d)' => Untouched(d)'
              /\ Starting(c)' => relay.batch \subseteq { c }
  <2>1. \A d \in Commands : (Open(d)' /\ d # r) => Open(d)
    BY <1>10
  <2>2. Untouched(r) /\ \A d \in Commands : Untouched(d) <=> Untouched(d)'
    BY DEF TracesHaveRows, Untouched, Held, Own
  <2>3. Starting(c)' <=> Starting(c)
    BY DEF Starting, Executes
  <2>4. CASE c = r
    BY <1>10, <1>11, <2>1, <2>2, <2>3, <2>4, OrderGrows DEF InstallsGoAlone, OfType
  <2>5. CASE c # r
    BY <1>10, <1>11, <2>1, <2>2, <2>3, <2>5, OrderGrows DEF InstallsGoAlone, OfType, Open, Active, InFlight
  <2> QED  BY <2>4, <2>5
<1>7. InstallsGoAlone'
  BY <1>11 DEF InstallsGoAlone, OfType
<1>8. TeardownIsLast'
  <2>1. ASSUME NEW c \in Commands, Open(c)', TearingDown'
        PROVE  OfType(c, { "DESTROY", "PURGE" })
    <3>1. TearingDown \/ OfType(r, { "DESTROY" })
      BY <2>1 DEF TearingDown, OfType
    <3>2. CASE c = r
      BY <1>10, <3>1, <3>2 DEF OfType
    <3>3. CASE c # r
      BY <1>10, <2>1, <3>1, <3>3 DEF OfType
    <3> QED  BY <3>2, <3>3
  <2> QED  BY <2>1 DEF TeardownIsLast, OfType
<1>9. DebtsAreKnown'
  <2>1. \A c \in Commands \ { r } : Open(c)' => Open(c)
    BY <1>10
  <2>2. starts[r] = 0
    BY <1>12 DEF Untouched
  <2>3. ASSUME NEW c \in Commands, Owed(c)', starts[c] > 0
        PROVE  Owed(c)
    BY <2>1, <2>2, <2>3 DEF Owed, Executes
  <2> QED  BY ONLY <1>1, <2>3, DebtsAreKnown DEF DebtsAreKnown, Own, Careful, OfType
<1> QED  BY <1>2, <1>3, <1>4, <1>5, <1>6, <1>7, <1>8, <1>9

\* A command is left as it is, with nothing to record.
LEMMA LeaveOrderly ==
    ASSUME Orderly, Done \/ Deferred, faults' \in 0 .. MaxFaults,
           relay.at \notin { "idle", "resume", "fetch", "next" },
           relay.at \in { "record", "report" } => Own(relay.command),
           UNCHANGED << job, order, work, marker, cache, starts, mishap >>
    PROVE  Orderly'
<1> USE DEF Orderly
<1>1. /\ relay' \in Invocations
      /\ relay'.at \in { "fetch", "next" } /\ ~ relay'.resuming /\ relay'.command = None
      /\ relay'.batch = relay.batch
      /\ relay'.at = "fetch" => relay.batch = {}
  BY AfterFields DEF RelayInOrder
<1> USE <1>1, Pieces
<1>2. TypeOK'
  BY DEF TypeOK
<1>3. RelayInOrder' /\ MarkerInOrder'
  BY DEF RelayInOrder, MarkerInOrder, Careful, OfType
<1>4. TracesHaveRows'
  BY DEF TracesHaveRows, Untouched, Held, Own
<1>5. WorkIsUnanswered'
  BY DEF WorkIsUnanswered, Executes, BeforeAnswer, Own, Open, OfType
<1>6. AnswersAreEarned'
  BY DEF AnswersAreEarned, Earned, OfType
<1>7. InstallsGoAlone'
  BY DEF InstallsGoAlone, Open, Starting, Executes, OfType, Before, Untouched, Held, Own
<1>8. TeardownIsLast'
  BY DEF TeardownIsLast, TearingDown, Open, OfType
<1>9. DebtsAreKnown'
  BY DEF DebtsAreKnown, Owed, Open, Own, Careful, OfType, Executes, BeforeAnswer
<1> QED  BY <1>2, <1>3, <1>4, <1>5, <1>6, <1>7, <1>8, <1>9

LEMMA BeforeOnce ==
    ASSUME TypeOK, NEW c \in Commands, NEW d \in Commands, Before(c, d)
    PROVE  ~ Before(d, c)
BY DEF TypeOK, Before, IsInjective

LEMMA FetchOrderly == ASSUME Orderly, Fetch PROVE Orderly'
<1> USE DEF Orderly
<1>1. PICK batch \in SUBSET Commands :
        /\ relay.at = "fetch"
        /\ \A c \in batch : job[c].state \in Active \ { "RUNNING" }
        /\ batch # {} => \A c \in Commands : job[c].state # "RUNNING"
        /\ \A c \in batch : OfType(c, { "CONFIG_UPDATE" }) =>
              \A d \in Commands \ { c } : job[d].state \in Active \ { "RUNNING" } => Before(c, d)
        /\ job' = [ c \in Commands |-> IF c \in batch
                                       THEN [ job[c] EXCEPT !.state = "RUNNING" ] ELSE job[c] ]
        /\ \/ relay' = [ relay EXCEPT !.at = "next", !.batch = batch ]
           \/ relay' = Asleep
        /\ faults' \in 0 .. MaxFaults
        /\ UNCHANGED << order, work, marker, cache, starts, mishap >>
  <2> DEFINE running == \E c \in Commands : job[c].state = "RUNNING"
             offered == { c \in Commands : job[c].state \in Active \ { "RUNNING" } }
             taken == { c \in offered : MayClaim(c, running, offered) }
  <2>1. WITNESS taken \in SUBSET Commands
  <2> QED  BY FaultsBounded DEF Fetch, MayClaim, Oldest
<1>a. /\ relay' \in Invocations /\ relay'.at \in { "next", "idle" } /\ ~ relay'.resuming
      /\ relay'.at = "idle" => relay' = Asleep
      /\ relay'.batch \in { batch, {} } /\ relay'.command = None
  <2>1. ~ relay.resuming /\ relay.command = None
    BY <1>1 DEF RelayInOrder
  <2>2. CASE relay' = [ relay EXCEPT !.at = "next", !.batch = batch ]
    BY <2>1, <2>2, Pieces DEF Invocations, Steps
  <2>3. CASE relay' = Asleep
    BY <2>3, AsleepFields
  <2> QED  BY <1>1, <2>2, <2>3
<1>b. /\ job' \in [ Commands -> Rows ]
      /\ \A c \in Commands : /\ Open(c)' <=> Open(c)
                             /\ job'[c].state = "NONE" <=> job[c].state = "NONE"
                             /\ job'[c].state = "SUCCEEDED" <=> job[c].state = "SUCCEEDED"
      /\ \A c \in batch : Open(c) /\ job[c].state \notin { "NONE", "SUCCEEDED" }
  <2>1. \A c \in Commands : job[c] \in Rows
    BY DEF TypeOK
  <2>2. \A c \in Commands \ batch : job'[c] = job[c]
    BY <1>1
  <2>3. \A c \in batch :
           /\ job'[c] \in Rows /\ job'[c].state = "RUNNING"
           /\ job[c].state \in { "REQUESTED", "WAITING" }
    BY <1>1, <2>1 DEF Rows, Active, InFlight
  <2>4. job' \in [ Commands -> Rows ]
    BY <1>1, <2>1, <2>2, <2>3
  <2> QED  BY <2>2, <2>3, <2>4 DEF Open, Active, InFlight
<1> USE <1>a, <1>b, Pieces
<1>10. UNCHANGED << order, work, marker, cache, starts, mishap >> /\ faults' \in 0 .. MaxFaults
  BY <1>1
<1> USE <1>10
<1>2. TypeOK'
  BY DEF TypeOK
<1>3. RelayInOrder' /\ MarkerInOrder'
  BY DEF RelayInOrder, MarkerInOrder, Careful, OfType
<1>4. TracesHaveRows'
  BY DEF TracesHaveRows, Untouched, Held, Own
<1>5. WorkIsUnanswered'
  BY DEF WorkIsUnanswered, Executes, BeforeAnswer, Own, Open, OfType
<1>6. AnswersAreEarned'
  BY DEF AnswersAreEarned, Earned, OfType
<1>7. InstallsGoAlone'
  <2>1. ASSUME NEW c \in Commands, NEW d \in Commands \ { c }, OfType(c, { "INSTALL" }),
               Open(c), Open(d)
        PROVE  Untouched(d) /\ d \notin batch
    <3>1. Untouched(d) /\ OfType(d, { "CONFIG_UPDATE" }) /\ Before(c, d)
      BY <2>1 DEF InstallsGoAlone
    <3>2. d \notin batch
      <4>1. SUFFICES ASSUME d \in batch PROVE FALSE
        OBVIOUS
      <4>2. job[c].state \in Active \ { "RUNNING" }
        BY <1>1, <2>1, <4>1 DEF Open
      <4> QED  BY <1>1, <2>1, <3>1, <4>1, <4>2, BeforeOnce
    <3> QED  BY <3>1, <3>2
  <2>2. \A d \in Commands : Untouched(d) /\ d \notin batch => Untouched(d)'
    BY DEF Untouched, Held, Own
  <2>3. \A c \in Commands : Starting(c)' => c \in relay'.batch
    BY DEF Starting, Executes
  <2>4. \A c, d \in Commands : Before(c, d) => Before(c, d)'
    BY DEF Before
  <2> QED  BY <2>1, <2>2, <2>3, <2>4 DEF InstallsGoAlone, OfType
<1>8. TeardownIsLast'
  BY DEF TeardownIsLast, TearingDown, Open, OfType
<1>9. DebtsAreKnown'
  <2>1. \A c \in Commands : Owed(c)' => Open(c)
    BY DEF Owed, Executes
  <2>2. ASSUME NEW c \in Commands, Open(c), starts[c] > 0, ~ Own(c)
        PROVE  mishap[c] \in Unrecorded \/ (~ Careful(c) /\ mishap[c] = "report lost")
    BY <1>1, <2>2 DEF DebtsAreKnown, Owed, RelayInOrder
  <2> QED  BY <2>1, <2>2 DEF DebtsAreKnown, Own, Careful, OfType
<1> QED  BY <1>2, <1>3, <1>4, <1>5, <1>6, <1>7, <1>8, <1>9

LEMMA ReleaseOrderly == ASSUME Orderly, Release PROVE Orderly'
<1> USE DEF Orderly
<1>1. PICK c \in relay.batch :
        /\ relay.at = "next" /\ relay' = [ relay EXCEPT !.batch = @ \ { c } ]
        /\ \/ job[c].state = "RUNNING" /\ job' = [ job EXCEPT ![c].state = "REQUESTED" ]
           \/ UNCHANGED job
        /\ faults' \in 0 .. MaxFaults
        /\ UNCHANGED << order, work, marker, cache, starts, mishap >>
  BY FaultsBounded DEF Release
<1>a. /\ relay' \in Invocations /\ relay'.at = "next" /\ ~ relay'.resuming
      /\ relay'.batch \subseteq relay.batch /\ relay'.command = None /\ relay.command = None
  BY <1>1, Pieces DEF Invocations, RelayInOrder
<1>b. /\ job' \in [ Commands -> Rows ]
      /\ \A d \in Commands : /\ Open(d)' <=> Open(d)
                             /\ job'[d].state = "NONE" <=> job[d].state = "NONE"
                             /\ job'[d].state = "SUCCEEDED" <=> job[d].state = "SUCCEEDED"
  <2>1. CASE UNCHANGED job
    BY <2>1 DEF TypeOK, Open
  <2>2. CASE job[c].state = "RUNNING" /\ job' = [ job EXCEPT ![c].state = "REQUESTED" ]
    <3>1. /\ job' \in [ Commands -> Rows ] /\ job'[c].state = "REQUESTED"
          /\ \A d \in Commands \ { c } : job'[d] = job[d]
      BY <2>2, Pieces DEF TypeOK, Rows, Active
    <3> QED  BY <2>2, <3>1 DEF Open, Active, InFlight
  <2> QED  BY <1>1, <2>1, <2>2
<1>10. UNCHANGED << order, work, marker, cache, starts, mishap >> /\ faults' \in 0 .. MaxFaults
  BY <1>1
<1> USE <1>a, <1>b, <1>10, Pieces
<1>2. TypeOK'
  BY DEF TypeOK
<1>3. RelayInOrder' /\ MarkerInOrder'
  BY DEF RelayInOrder, MarkerInOrder, Careful, OfType
<1>4. TracesHaveRows'
  BY DEF TracesHaveRows, Untouched, Held, Own
<1>5. WorkIsUnanswered'
  BY DEF WorkIsUnanswered, Executes, BeforeAnswer, Own, Open, OfType
<1>6. AnswersAreEarned'
  BY DEF AnswersAreEarned, Earned, OfType
<1>7. InstallsGoAlone'
  BY DEF InstallsGoAlone, Open, Starting, Executes, OfType, Before, Untouched, Held, Own
<1>8. TeardownIsLast'
  BY DEF TeardownIsLast, TearingDown, Open, OfType
<1>9. DebtsAreKnown'
  BY DEF DebtsAreKnown, Owed, Open, Own, Careful, OfType, Executes, BeforeAnswer
<1> QED  BY <1>2, <1>3, <1>4, <1>5, <1>6, <1>7, <1>8, <1>9

\* A command gets past its checks: nothing settled is on its marker.
LEMMA GoOnOrderly ==
    ASSUME Orderly, relay.at \in { "inspect", "authorize" }, faults' \in 0 .. MaxFaults,
           NEW step \in { "authorize", "act" }, Goto(step),
           step = "authorize" => relay.at = "inspect",
           ~ (Own(relay.command) /\ marker.phase = "settled"),
           UNCHANGED << job, order, work, marker, cache, starts, mishap >>
    PROVE  Orderly'
<1> USE DEF Orderly
<1>1. /\ relay' \in Invocations /\ relay'.at = step /\ relay'.resuming = relay.resuming
      /\ relay'.command = relay.command /\ relay'.batch = relay.batch
      /\ relay.command \in Commands
  BY GotoFields, Pieces DEF Steps
<1> USE <1>1, Pieces
<1>2. TypeOK'
  BY DEF TypeOK
<1>3. RelayInOrder' /\ MarkerInOrder'
  BY DEF RelayInOrder, MarkerInOrder, Careful, OfType
<1>4. TracesHaveRows'
  BY DEF TracesHaveRows, Untouched, Held, Own
<1>5. WorkIsUnanswered'
  BY DEF WorkIsUnanswered, Executes, BeforeAnswer, Own, Open, OfType, RelayInOrder
<1>6. AnswersAreEarned'
  BY DEF AnswersAreEarned, Earned, OfType
<1>7. InstallsGoAlone'
  BY DEF InstallsGoAlone, Open, Starting, Executes, OfType, Before, Untouched, Held, Own
<1>8. TeardownIsLast'
  BY DEF TeardownIsLast, TearingDown, Open, OfType
<1>9. DebtsAreKnown'
  BY DEF DebtsAreKnown, Owed, Open, Own, Careful, OfType, Executes, BeforeAnswer
<1> QED  BY <1>2, <1>3, <1>4, <1>5, <1>6, <1>7, <1>8, <1>9

\* An executor answers at once: what it stored before, or that it may not run.
LEMMA AnswerOrderly ==
    ASSUME Orderly, relay.at \in { "inspect", "authorize" }, ~ relay.resuming,
           faults' \in 0 .. MaxFaults,
           NEW outcome \in { "ok", "failed" }, Answer(outcome, "report"),
           Remember(relay.command, outcome), outcome = "ok" => Earned(relay.command),
           UNCHANGED << job, order, work, marker, starts, mishap >>
    PROVE  Orderly'
<1> USE DEF Orderly
<1>1. /\ relay' \in Invocations /\ relay'.at = "report" /\ ~ relay'.resuming
      /\ relay'.command = relay.command /\ relay'.batch = relay.batch
      /\ relay'.outcome = outcome
      /\ relay.command \in Commands
  BY AnswerFields, Pieces DEF Steps, Outcomes
<1>10. /\ cache' \in [ Commands -> { "none", "ok", "failed" } ]
       /\ cache'[relay.command] = outcome
       /\ \A c \in Commands \ { relay.command } : cache'[c] = cache[c]
  BY <1>1 DEF Remember, TypeOK
<1> USE <1>1, <1>10, Pieces
<1>2. TypeOK'
  BY DEF TypeOK
<1>3. RelayInOrder' /\ MarkerInOrder'
  BY DEF RelayInOrder, MarkerInOrder, Careful, OfType
<1>4. TracesHaveRows'
  BY DEF TracesHaveRows, Untouched, Held, Own
<1>5. WorkIsUnanswered'
  BY DEF WorkIsUnanswered, Executes, BeforeAnswer, Own, Open, OfType
<1>6. AnswersAreEarned'
  BY DEF AnswersAreEarned, Earned, OfType
<1>7. InstallsGoAlone'
  BY DEF InstallsGoAlone, Open, Starting, Executes, OfType, Before, Untouched, Held, Own
<1>8. TeardownIsLast'
  BY DEF TeardownIsLast, TearingDown, Open, OfType
<1>9. DebtsAreKnown'
  BY DEF DebtsAreKnown, Owed, Open, Own, Careful, OfType, Executes, BeforeAnswer
<1> QED  BY <1>2, <1>3, <1>4, <1>5, <1>6, <1>7, <1>8, <1>9

LEMMA InspectOrderly == ASSUME Orderly, Inspect PROVE Orderly'
<1>1. /\ relay.at = "inspect" /\ ~ relay.resuming /\ relay.command \in Commands
      /\ faults' \in 0 .. MaxFaults
      /\ UNCHANGED << job, order, work, marker, starts, mishap >>
  BY FaultsBounded, Pieces DEF Inspect, Orderly, RelayInOrder
<1>2. CASE Deferred /\ UNCHANGED cache
  BY <1>1, <1>2, LeaveOrderly
<1>3. CASE /\ ~ (Own(relay.command) /\ marker.phase = "settled") /\ UNCHANGED cache
           /\ Goto("act") \/ Goto("authorize")
  BY <1>1, <1>3, GoOnOrderly
<1>4. CASE /\ Own(relay.command) /\ marker.phase = "settled"
           /\ LET recorded == IF marker.ok THEN "ok" ELSE "failed" IN
              Answer(recorded, "report") /\ Remember(relay.command, recorded)
  <2>1. marker.ok => Earned(relay.command)
    BY <1>4 DEF Orderly, AnswersAreEarned, Own
  <2> QED  BY <1>1, <1>4, <2>1, AnswerOrderly
<1> QED  BY <1>2, <1>3, <1>4 DEF Inspect

\* A resumer gives up an INSTALL that is closed or superseded, and its marker.
LEMMA DropOrderly ==
    ASSUME Orderly, relay.at = "authorize", relay.resuming, ~ Authorized(relay.command),
           Done, marker' = NoMarker, faults' \in 0 .. MaxFaults,
           UNCHANGED << job, order, work, cache, starts, mishap >>
    PROVE  Orderly'
<1> USE DEF Orderly
<1>1. /\ relay' \in Invocations /\ relay'.at = "fetch" /\ ~ relay'.resuming
      /\ relay'.command = None /\ relay'.batch = {} /\ relay.batch = {}
      /\ Own(relay.command) /\ OfType(relay.command, { "INSTALL" })
      /\ relay.command \in Commands
  BY AfterFields, Pieces DEF RelayInOrder, WorkIsUnanswered
<1>10. ~ Open(relay.command)
  BY <1>1 DEF Authorized, TeardownIsLast, OfType
<1> USE <1>1, NoMarkerFields, Pieces
<1>2. TypeOK'
  BY DEF TypeOK
<1>3. RelayInOrder' /\ MarkerInOrder'
  BY DEF RelayInOrder, MarkerInOrder, Careful, OfType
<1>4. TracesHaveRows'
  BY DEF TracesHaveRows, Untouched, Held, Own
<1>5. WorkIsUnanswered'
  BY DEF WorkIsUnanswered, Executes, BeforeAnswer, Own, Open, OfType
<1>6. AnswersAreEarned'
  BY DEF AnswersAreEarned, Earned, OfType
<1>7. InstallsGoAlone'
  BY DEF InstallsGoAlone, Open, Starting, Executes, OfType, Before, Untouched, Held, Own
<1>8. TeardownIsLast'
  BY DEF TeardownIsLast, TearingDown, Open, OfType
<1>9. DebtsAreKnown'
  <2>1. \A c \in Commands : Owed(c)' => Open(c) /\ c # relay.command
    BY <1>10 DEF Owed, Executes, Open
  <2>2. ASSUME NEW c \in Commands, Open(c), c # relay.command, starts[c] > 0
        PROVE  mishap[c] \in Unrecorded \/ (~ Careful(c) /\ mishap[c] = "report lost")
    BY <2>2 DEF DebtsAreKnown, Owed, Own
  <2> QED  BY <2>1, <2>2 DEF DebtsAreKnown, Careful, OfType
<1> QED  BY <1>2, <1>3, <1>4, <1>5, <1>6, <1>7, <1>8, <1>9

\* An executor that cannot ask notes its INSTALL on the marker; no other command
\* has a record there that is still needed.
LEMMA NoteOrderly ==
    ASSUME Orderly, relay.at = "authorize", ~ relay.resuming,
           OfType(relay.command, { "INSTALL" }), Deferred, faults' \in 0 .. MaxFaults,
           marker' = [ NoMarker EXCEPT !.command = relay.command, !.phase = "running" ],
           UNCHANGED << job, order, work, cache, starts, mishap >>
    PROVE  Orderly'
<1> USE DEF Orderly
<1>1. /\ relay' \in Invocations /\ relay'.at = "next" /\ ~ relay'.resuming
      /\ relay'.command = None /\ relay'.batch = relay.batch
      /\ relay.command \in Commands /\ relay.command \notin relay.batch
  BY AfterFields, Pieces DEF RelayInOrder
<1>10. /\ marker' \in Markers /\ marker'.command = relay.command
       /\ marker'.phase = "running" /\ marker' # NoMarker
  BY <1>1, Pieces DEF NoMarker, Markers
<1>11. \A d \in Commands \ { relay.command } :
         (Open(d) => Untouched(d)) /\ d \notin relay.batch
  BY <1>1 DEF InstallsGoAlone, Starting, Executes
<1> USE <1>1, <1>10, Pieces
<1>2. TypeOK'
  BY DEF TypeOK
<1>3. RelayInOrder' /\ MarkerInOrder'
  BY DEF RelayInOrder, MarkerInOrder, Careful, OfType
<1>4. TracesHaveRows'
  BY DEF TracesHaveRows, Untouched, Held, Own
<1>5. WorkIsUnanswered'
  BY DEF WorkIsUnanswered, Executes, BeforeAnswer, Own, Open, OfType
<1>6. AnswersAreEarned'
  BY DEF AnswersAreEarned, Earned, OfType
<1>7. InstallsGoAlone'
  BY <1>11 DEF InstallsGoAlone, Open, Starting, Executes, OfType, Before, Untouched, Held, Own
<1>8. TeardownIsLast'
  BY DEF TeardownIsLast, TearingDown, Open, OfType
<1>9. DebtsAreKnown'
  <2>1. \A d \in Commands : Owed(d)' => Open(d) \/ d \in relay.batch
    BY DEF Owed, Executes, Open
  <2>2. ASSUME NEW d \in Commands, Owed(d)', starts[d] > 0, ~ Own(d)'
        PROVE  FALSE
    BY <1>11, <2>1, <2>2 DEF Untouched, Own
  <2> QED  BY ONLY <1>1, <2>2, DebtsAreKnown, UNCHANGED starts DEF DebtsAreKnown
<1> QED  BY <1>2, <1>3, <1>4, <1>5, <1>6, <1>7, <1>8, <1>9

LEMMA AuthorizeOrderly == ASSUME Orderly, Authorize PROVE Orderly'
<1> DEFINE c == relay.command
<1>1. /\ relay.at = "authorize" /\ c \in Commands /\ c \notin relay.batch
      /\ relay.resuming => Own(c) /\ OfType(c, { "INSTALL" })
      /\ ~ (Own(c) /\ marker.phase = "settled")
      /\ faults' \in 0 .. MaxFaults
      /\ UNCHANGED << job, order, work, starts, mishap >>
  BY FaultsBounded, Pieces DEF Authorize, Orderly, RelayInOrder, WorkIsUnanswered
<1>2. CASE Goto("act") /\ UNCHANGED << marker, cache >>
  BY <1>1, <1>2, GoOnOrderly
<1>3. CASE /\ ~ relay.resuming /\ Answer("failed", "report") /\ Remember(c, "failed")
           /\ UNCHANGED marker
  BY <1>1, <1>3, AnswerOrderly
<1>4. CASE (Done \/ Deferred) /\ UNCHANGED << marker, cache >>
  BY <1>1, <1>4, LeaveOrderly
<1>5. CASE /\ relay.resuming /\ ~ Authorized(c) /\ Done /\ marker' = NoMarker
           /\ UNCHANGED cache
  BY <1>1, <1>5, DropOrderly
<1>6. CASE /\ ~ relay.resuming /\ OfType(c, { "INSTALL" }) /\ Deferred
           /\ marker' = [ NoMarker EXCEPT !.command = c, !.phase = "running" ]
           /\ UNCHANGED cache
  BY <1>1, <1>6, NoteOrderly
<1> QED  BY <1>2, <1>3, <1>4, <1>5, <1>6 DEF Authorize

\* A deletion is tried again only if it failed, and an answer that was earned is
\* not put at risk by starting anew.
LEMMA StartsUnearned ==
    ASSUME Orderly, relay.at = "act", MayStart(relay.command)
    PROVE  job[relay.command].state \notin { "NONE", "SUCCEEDED" }
           /\ (Earned(relay.command) =>
                  \/ OfType(relay.command, { "CONFIG_UPDATE" })
                  \/ ~ relay.resuming)
<1> DEFINE c == relay.command
<1>1. c \in Commands /\ Held(c) /\ job[c].state # "NONE"
  BY Pieces DEF Orderly, TracesHaveRows, Untouched, Held
<1>2. CASE ~ relay.resuming
  BY <1>1, <1>2 DEF Orderly, WorkIsUnanswered, Executes, BeforeAnswer
<1>3. CASE relay.resuming
  <2>1. Own(c) /\ (OnRecord(c) \/ OfType(c, { "INSTALL" }))
    BY <1>1, <1>3, Pieces DEF Orderly, WorkIsUnanswered, MarkerInOrder, OnRecord, Own
  <2>2. work[c] \in { "none", "failed" } /\ (work[c] = "none" \/ OfType(c, { "DESTROY", "PURGE" }))
    BY <1>1, <2>1, TypeAssumption
       DEF MayStart, OfType, InstallMayStart, RestartMayStart, DeployMayStart,
           ConfigMayStart, DestroyMayStart, PurgeMayStart
  <2>3. ~ Earned(c)
    BY <2>2 DEF Earned, OfType
  <2> QED  BY <1>1, <2>3 DEF Orderly, AnswersAreEarned
<1> QED  BY <1>2, <1>3

\* Work is started: its outcome goes to the record.
LEMMA StartOrderly ==
    ASSUME Orderly, relay.at = "act", MayStart(relay.command), faults' \in 0 .. MaxFaults,
           NEW now \in Outcomes \ { "none" }, Answer(now, "record"),
           work' = [ work EXCEPT ![relay.command] = now ],
           starts' = [ starts EXCEPT ![relay.command] = IF @ = 2 THEN 2 ELSE @ + 1 ],
           UNCHANGED << job, order, marker, cache, mishap >>
    PROVE  Orderly'
<1> USE DEF Orderly
<1>1. /\ relay' \in Invocations /\ relay'.at = "record" /\ relay'.resuming = relay.resuming
      /\ relay'.command = relay.command /\ relay'.batch = relay.batch
      /\ relay'.outcome = now
      /\ relay.command \in Commands /\ relay.command \notin relay.batch
  BY AnswerFields, Pieces DEF Steps, RelayInOrder
<1>10. /\ work' \in [ Commands -> Outcomes ] /\ work'[relay.command] = now
       /\ starts' \in [ Commands -> 0 .. 2 ] /\ starts'[relay.command] > 0
       /\ \A d \in Commands \ { relay.command } : work'[d] = work[d] /\ starts'[d] = starts[d]
  BY <1>1 DEF TypeOK
<1>11. ~ Untouched(relay.command)
  BY <1>1 DEF Untouched, Held
<1> USE <1>1, <1>10, Pieces
<1>2. TypeOK'
  BY DEF TypeOK
<1>3. RelayInOrder' /\ MarkerInOrder'
  BY DEF RelayInOrder, MarkerInOrder, Careful, OfType
<1>4. TracesHaveRows'
  BY DEF TracesHaveRows, Untouched, Held, Own
<1>5. WorkIsUnanswered'
  BY DEF WorkIsUnanswered, Executes, BeforeAnswer, Own, Open, OfType
<1>6. AnswersAreEarned'
  <2>1. \A d \in Commands \ { relay.command } : Earned(d) <=> Earned(d)'
    BY DEF Earned, OfType
  <2>2. /\ job[relay.command].state # "SUCCEEDED"
        /\ cache[relay.command] = "ok" => Earned(relay.command)'
        /\ ~ (marker.phase = "settled" /\ Own(relay.command))
    <3>1. cache[relay.command] = "ok" => relay.resuming /\ Earned(relay.command)
      BY DEF WorkIsUnanswered, Executes, BeforeAnswer, AnswersAreEarned
    <3> QED  BY <3>1, StartsUnearned DEF WorkIsUnanswered, Earned, OfType
  <2>3. now = "ok" => Earned(relay.command)'
    BY DEF Earned
  <2> QED  BY <2>1, <2>2, <2>3 DEF AnswersAreEarned, Own
<1>7. InstallsGoAlone'
  BY DEF InstallsGoAlone, Open, Starting, Executes, OfType, Before, Untouched, Held, Own
<1>8. TeardownIsLast'
  BY DEF TeardownIsLast, TearingDown, Open, OfType
<1>9. DebtsAreKnown'
  BY DEF DebtsAreKnown, Owed, Open, Own, Careful, OfType, Executes, BeforeAnswer
<1> QED  BY <1>2, <1>3, <1>4, <1>5, <1>6, <1>7, <1>8, <1>9

\* Nothing is started: what AWS shows, or a failed call, goes to the record.
LEMMA LookOrderly ==
    ASSUME Orderly, relay.at = "act", faults' \in 0 .. MaxFaults,
           NEW outcome \in Outcomes, Answer(outcome, "record"),
           outcome = "ok" => Earned(relay.command),
           UNCHANGED << job, order, work, marker, cache, starts, mishap >>
    PROVE  Orderly'
<1> USE DEF Orderly
<1>1. /\ relay' \in Invocations /\ relay'.at = "record" /\ relay'.resuming = relay.resuming
      /\ relay'.command = relay.command /\ relay'.batch = relay.batch
      /\ relay'.outcome = outcome
      /\ relay.command \in Commands
  BY AnswerFields, Pieces DEF Steps
<1> USE <1>1, Pieces
<1>2. TypeOK'
  BY DEF TypeOK
<1>3. RelayInOrder' /\ MarkerInOrder'
  BY DEF RelayInOrder, MarkerInOrder, Careful, OfType
<1>4. TracesHaveRows'
  BY DEF TracesHaveRows, Untouched, Held, Own
<1>5. WorkIsUnanswered'
  BY DEF WorkIsUnanswered, Executes, BeforeAnswer, Own, Open, OfType
<1>6. AnswersAreEarned'
  BY DEF AnswersAreEarned, Earned, OfType
<1>7. InstallsGoAlone'
  BY DEF InstallsGoAlone, Open, Starting, Executes, OfType, Before, Untouched, Held, Own
<1>8. TeardownIsLast'
  BY DEF TeardownIsLast, TearingDown, Open, OfType
<1>9. DebtsAreKnown'
  BY DEF DebtsAreKnown, Owed, Open, Own, Careful, OfType, Executes, BeforeAnswer
<1> QED  BY <1>2, <1>3, <1>4, <1>5, <1>6, <1>7, <1>8, <1>9

LEMMA ActOrderly == ASSUME Orderly, Act PROVE Orderly'
<1> DEFINE c == relay.command
<1>1. /\ relay.at = "act" /\ c \in Commands
      /\ faults' \in 0 .. MaxFaults
      /\ UNCHANGED << job, order, marker, cache, mishap >>
  BY FaultsBounded, Pieces DEF Act, Orderly
<1>2. CASE /\ MayStart(c)
           /\ \E now \in Outcomes \ { "none" } :
                 work' = [ work EXCEPT ![c] = now ] /\ Answer(now, "record")
           /\ starts' = [ starts EXCEPT ![c] = IF @ = 2 THEN 2 ELSE @ + 1 ]
  BY <1>1, <1>2, StartOrderly
<1>3. CASE (Done \/ Deferred) /\ UNCHANGED << work, starts >>
  BY <1>1, <1>3, LeaveOrderly
<1>4. CASE ~ MayStart(c) /\ Answer(Observed(c), "record") /\ UNCHANGED << work, starts >>
  <2>1. work[c] \in Outcomes /\ work[c] # "none"
    BY <1>1, <1>4, TypeAssumption
       DEF Orderly, TypeOK, MayStart, InstallMayStart, RestartMayStart, DeployMayStart,
           ConfigMayStart, DestroyMayStart, PurgeMayStart
  <2>2. Observed(c) \in Outcomes /\ (Observed(c) = "ok" => Earned(c))
    BY <2>1 DEF Observed, Earned, Outcomes
  <2> QED  BY <1>1, <1>4, <2>2, LookOrderly
<1>5. CASE Answer("failed", "record") /\ UNCHANGED << work, starts >>
  BY <1>1, <1>5, LookOrderly DEF Outcomes
<1> QED  BY <1>2, <1>3, <1>4, <1>5 DEF Act

\* Work in progress takes the marker: who had it loses its record, and that is noted.
LEMMA TakeMarkerOrderly ==
    ASSUME Orderly, relay.at = "record", faults' \in 0 .. MaxFaults, Done \/ Deferred,
           marker' = [ command |-> relay.command, phase |-> "running",
                       started |-> TRUE, ok |-> FALSE ],
           mishap' = [ d \in Commands |-> IF d = relay.command THEN "none"
                                         ELSE IF Own(d) THEN "marker taken"
                                         ELSE mishap[d] ],
           UNCHANGED << job, order, work, cache, starts >>
    PROVE  Orderly'
<1> USE DEF Orderly
<1>1. /\ relay' \in Invocations /\ relay'.at \in { "fetch", "next" } /\ ~ relay'.resuming
      /\ relay'.command = None /\ relay'.batch = relay.batch
      /\ relay.command \in Commands /\ relay.command \notin relay.batch
  BY AfterFields, Pieces DEF RelayInOrder
<1>a. relay'.at = "fetch" => relay.batch = {}
  BY AfterFields DEF RelayInOrder
<1>10. /\ marker' \in Markers /\ marker'.command = relay.command
       /\ marker'.phase = "running" /\ marker'.started /\ marker' # NoMarker
  <2>1. relay.command \in Commands \cup { None } /\ relay.command # None
    BY <1>1, Pieces
  <2>2. marker' \in Markers
    BY <2>1 DEF Markers
  <2>3. marker'.command = relay.command /\ marker'.phase = "running" /\ marker'.started
    OBVIOUS
  <2> QED  BY <2>1, <2>2, <2>3, NoMarkerFields
<1> HIDE DEF Done, Deferred
<1> USE <1>1, <1>a, <1>10, Pieces
<1>2. TypeOK'
  <2>1. mishap' \in [ Commands -> Mishaps ]
    BY DEF TypeOK, Mishaps, Unrecorded
  <2> QED  BY <2>1 DEF TypeOK
<1>3. RelayInOrder' /\ MarkerInOrder'
  BY DEF RelayInOrder, MarkerInOrder, Careful, OfType
<1>4. TracesHaveRows'
  BY DEF TracesHaveRows, Untouched, Held, Own
<1>5. WorkIsUnanswered'
  BY DEF WorkIsUnanswered, Executes, BeforeAnswer, Own, Open, OfType
<1>6. AnswersAreEarned'
  BY DEF AnswersAreEarned, Earned, OfType
<1>7. InstallsGoAlone'
  <2>1. \A d \in Commands : Starting(d)' => Starting(d)
    BY DEF Starting, Executes
  <2>2. \A c, d \in Commands : Before(c, d) => Before(c, d)'
    BY DEF Before
  <2>3. \A d \in Commands : Untouched(d) => Untouched(d)'
    BY DEF Untouched, Held, Own
  <2> QED  BY <2>1, <2>2, <2>3 DEF InstallsGoAlone, Open, OfType
<1>8. TeardownIsLast'
  BY DEF TeardownIsLast, TearingDown, Open, OfType
<1>9. DebtsAreKnown'
  <2>1. ASSUME NEW d \in Commands, Owed(d)', starts[d] > 0, ~ Own(d)'
        PROVE  mishap'[d] \in Unrecorded \/ (~ Careful(d) /\ mishap'[d] = "report lost")
    <3>1. d # relay.command /\ Owed(d)
      BY <2>1 DEF Owed, Open, Own, Executes
    <3>2. CASE Own(d)
      BY <3>1, <3>2 DEF Unrecorded
    <3>3. CASE ~ Own(d)
      BY <2>1, <3>1, <3>3 DEF DebtsAreKnown
    <3> QED  BY <3>2, <3>3
  <2> QED  BY <2>1 DEF DebtsAreKnown, Careful, OfType
<1> QED  BY <1>2, <1>3, <1>4, <1>5, <1>6, <1>7, <1>8, <1>9

\* Work in progress cannot be recorded, which is noted: it is left, or failed.
LEMMA UnrecordedOrderly ==
    ASSUME Orderly, relay.at = "record", faults' \in 0 .. MaxFaults,
           Mishap(relay.command, "not recorded"),
           UNCHANGED << job, order, work, marker, starts >>,
           \/ Done /\ UNCHANGED cache
           \/ Answer("failed", "record") /\ UNCHANGED cache
           \/ /\ ~ relay.resuming /\ Answer("failed", "report")
              /\ Remember(relay.command, "failed")
    PROVE  Orderly'
<1> USE DEF Orderly
<1>1. relay.command \in Commands /\ relay.command \notin relay.batch
  BY Pieces DEF RelayInOrder
<1>10. /\ mishap' \in [ Commands -> Mishaps ] /\ mishap'[relay.command] = "not recorded"
       /\ \A d \in Commands \ { relay.command } : mishap'[d] = mishap[d]
  BY <1>1 DEF Mishap, TypeOK, Mishaps, Unrecorded
<1>11. /\ cache' \in [ Commands -> { "none", "ok", "failed" } ]
       /\ \A d \in Commands : cache'[d] # cache[d] =>
             d = relay.command /\ cache'[d] = "failed" /\ relay'.at = "report"
  BY <1>1, AnswerFields DEF Remember, TypeOK, Steps, Outcomes
<1>12. /\ relay' \in Invocations /\ relay'.batch = relay.batch
       /\ \/ /\ relay'.at \in { "fetch", "next" } /\ ~ relay'.resuming
             /\ relay'.command = None
             /\ relay'.at = "fetch" => relay.batch = {}
          \/ /\ relay'.at \in { "record", "report" } /\ relay'.resuming = relay.resuming
             /\ relay'.command = relay.command /\ relay'.outcome = "failed"
  BY AfterFields, AnswerFields DEF RelayInOrder, Steps, Outcomes
<1> HIDE DEF Done, Mishap
<1> USE <1>1, <1>10, <1>11, <1>12, Pieces
<1>13. \A d \in Commands :
         /\ Held(d)' => Held(d)
         /\ Starting(d)' => Starting(d)
         /\ Owed(d)' => Owed(d)
  BY DEF Held, Own, Starting, Owed, Open, Executes, BeforeAnswer
<1>2. TypeOK'
  BY DEF TypeOK
<1>3. RelayInOrder' /\ MarkerInOrder'
  BY DEF RelayInOrder, MarkerInOrder, Careful, OfType
<1>4. TracesHaveRows'
  <2>1. job[relay.command].state # "NONE"
    BY DEF TracesHaveRows, Untouched, Held
  <2>2. \A d \in Commands : Untouched(d) => Untouched(d)'
    BY <1>13 DEF Untouched
  <2>3. ASSUME NEW d \in Commands, job[d].state = "NONE" PROVE cache'[d] = "none"
    <3>1. d # relay.command
      BY <2>1, <2>3
    <3>2. cache[d] = "none"
      BY <2>3 DEF TracesHaveRows
    <3> QED  BY <3>1, <3>2, <1>11
  <2> QED  BY <2>2, <2>3 DEF TracesHaveRows
<1>5. WorkIsUnanswered'
  <2>1. \A d \in Commands : Executes(d, BeforeAnswer)' =>
              Executes(d, BeforeAnswer) /\ relay'.at = "record"
    BY DEF Executes, BeforeAnswer
  <2>2. ASSUME NEW d \in Commands, Executes(d, BeforeAnswer)'
        PROVE  job[d].state # "SUCCEEDED" /\ cache'[d] = "none"
    <3>1. Executes(d, BeforeAnswer) /\ relay'.at # "report"
      BY <2>1, <2>2
    <3>2. cache'[d] = cache[d]
      BY <1>11, <3>1
    <3>3. job[d].state # "SUCCEEDED" /\ cache[d] = "none"
      BY <3>1 DEF WorkIsUnanswered
    <3> QED  BY <3>2, <3>3
  <2>3. relay'.at \in { "authorize", "act", "record" } =>
           /\ relay'.at = "record" /\ relay'.command = relay.command
           /\ relay'.resuming = relay.resuming
    BY <1>12
  <2>4. relay'.at # "clear" /\ relay'.batch = relay.batch
    BY <1>12
  <2> QED  BY <2>2, <2>3, <2>4 DEF WorkIsUnanswered, Own, Open, OfType
<1>6. AnswersAreEarned'
  BY DEF AnswersAreEarned, Earned, OfType
<1>7. InstallsGoAlone'
  <2>1. \A c, d \in Commands : Before(c, d) => Before(c, d)'
    BY DEF Before
  <2> QED  BY <1>13, <2>1 DEF InstallsGoAlone, Open, OfType, Untouched
<1>8. TeardownIsLast'
  BY DEF TeardownIsLast, TearingDown, Open, OfType
<1>9. DebtsAreKnown'
  <2>1. \A d \in Commands \ { relay.command } : Own(d)' <=> Own(d)
    BY DEF Own
  <2>2. ASSUME NEW d \in Commands, Owed(d)', starts[d] > 0, ~ Own(d)'
        PROVE  mishap'[d] \in Unrecorded \/ (~ Careful(d) /\ mishap'[d] = "report lost")
    BY <1>13, <2>1, <2>2 DEF DebtsAreKnown, Unrecorded
  <2> QED  BY <2>2 DEF DebtsAreKnown, Careful, OfType
<1> QED  BY <1>2, <1>3, <1>4, <1>5, <1>6, <1>7, <1>8, <1>9

\* An answer goes on to its report, a careful command's after it was written to
\* the marker, or after it was noted that it was not.
LEMMA ReportNextOrderly ==
    ASSUME Orderly, relay.at = "record", relay.outcome # "running",
           faults' \in 0 .. MaxFaults, Goto("report"),
           Remember(relay.command, relay.outcome),
           UNCHANGED << job, order, work, starts >>,
           mishap' \in [ Commands -> Mishaps ],
           \A d \in Commands \ { relay.command } : mishap'[d] = mishap[d],
           \/ UNCHANGED marker
           \/ /\ marker' = NoMarker /\ Own(relay.command)
              /\ ~ Careful(relay.command)
           \/ /\ marker' = [ command |-> relay.command, phase |-> "settled",
                             started |-> TRUE, ok |-> relay.outcome = "ok" ]
              /\ Careful(relay.command)
              /\ Own(relay.command) \/ marker = NoMarker,
           marker'.command = relay.command \/ ~ Careful(relay.command)
              \/ mishap'[relay.command] \in Unrecorded
    PROVE  Orderly'
<1> USE DEF Orderly
<1>1. /\ relay' \in Invocations /\ relay'.at = "report" /\ relay'.resuming = relay.resuming
      /\ relay'.command = relay.command /\ relay'.batch = relay.batch
      /\ relay'.outcome = relay.outcome
      /\ relay.command \in Commands /\ relay.command \notin relay.batch
  BY GotoFields, Pieces DEF Steps, RelayInOrder
<1>10. /\ cache' \in [ Commands -> { "none", "ok", "failed" } ]
       /\ cache'[relay.command] \in { cache[relay.command], relay.outcome }
       /\ \A d \in Commands \ { relay.command } : cache'[d] = cache[d]
  BY <1>1, Pieces DEF Remember, TypeOK, Outcomes
<1>11. /\ marker' \in Markers /\ (marker'.command = None <=> marker' = NoMarker)
       /\ marker' = marker \/ marker' = NoMarker
          \/ /\ marker'.command = relay.command /\ marker'.phase = "settled"
             /\ marker'.started /\ (marker'.ok => relay.outcome = "ok")
             /\ Careful(relay.command)
  <2>1. relay.command \in Commands \cup { None } /\ relay.command # None
    BY <1>1, Pieces
  <2>2. CASE UNCHANGED marker \/ marker' = NoMarker
    BY <2>2, NoMarkerFields, Pieces DEF TypeOK
  <2>3. CASE /\ marker' = [ command |-> relay.command, phase |-> "settled",
                           started |-> TRUE, ok |-> relay.outcome = "ok" ]
             /\ Careful(relay.command)
    <3>1. marker' \in Markers
      BY <2>1, <2>3 DEF Markers
    <3> QED  BY <2>1, <2>3, <3>1, NoMarkerFields
  <2> QED  BY <2>2, <2>3
<1>12. \A d \in Commands \ { relay.command } : Own(d)' <=> Own(d)
  BY <1>1, <1>11, Pieces, NoMarkerFields DEF Own
<1> USE <1>1, <1>10, <1>11, <1>12, NoMarkerFields, Pieces
<1>2. TypeOK'
  BY DEF TypeOK
<1>3. RelayInOrder' /\ MarkerInOrder'
  BY DEF RelayInOrder, MarkerInOrder, Careful, OfType
<1>4. TracesHaveRows'
  BY DEF TracesHaveRows, Untouched, Held, Own
<1>5. WorkIsUnanswered'
  BY DEF WorkIsUnanswered, Executes, BeforeAnswer, Own, Open, OfType
<1>6. AnswersAreEarned'
  BY DEF AnswersAreEarned, Earned, OfType
<1>7. InstallsGoAlone'
  BY DEF InstallsGoAlone, Open, Starting, Executes, OfType, Before, Untouched, Held, Own
<1>8. TeardownIsLast'
  BY DEF TeardownIsLast, TearingDown, Open, OfType
<1>9. DebtsAreKnown'
  BY DEF DebtsAreKnown, Owed, Open, Own, Careful, OfType, Executes, BeforeAnswer
<1> QED  BY <1>2, <1>3, <1>4, <1>5, <1>6, <1>7, <1>8, <1>9

LEMMA RecordOrderly == ASSUME Orderly, Record PROVE Orderly'
<1> DEFINE c == relay.command
<1>1. /\ relay.at = "record" /\ c \in Commands /\ TypeOK
      /\ relay.resuming => Own(c)
      /\ UNCHANGED << job, order, work, starts >>
  BY Pieces DEF Record, Orderly, WorkIsUnanswered
<1>2. CASE RecordRunning
  <2>1. faults' \in 0 .. MaxFaults
    BY <1>1, <1>2, FaultsBounded DEF RecordRunning
  <2> QED  BY <1>1, <1>2, <2>1, TakeMarkerOrderly, UnrecordedOrderly DEF RecordRunning
<1>3. CASE relay.outcome # "running" /\ Careful(c) /\ SettleMarker(c) /\ Remember(c, relay.outcome)
  <2>1. faults' \in 0 .. MaxFaults
    BY <1>1, <1>3, FaultsBounded DEF SettleMarker
  <2>2. CASE relay.resuming /\ Done /\ UNCHANGED << marker, mishap >>
    BY <1>1, <1>3, <2>1, <2>2, LeaveOrderly DEF Remember
  <2>3. CASE /\ Goto("report")
             /\ marker' = [ command |-> c, phase |-> "settled", started |-> TRUE,
                            ok |-> relay.outcome = "ok" ]
             /\ Own(c) \/ marker = NoMarker
             /\ Mishap(c, IF work[c] = "running" THEN mishap[c] ELSE "none")
    <3>1. /\ mishap' \in [ Commands -> Mishaps ] /\ marker'.command = c
          /\ \A d \in Commands \ { c } : mishap'[d] = mishap[d]
      BY <1>1, <2>3 DEF TypeOK, Mishap, Mishaps
    <3> QED  BY <1>1, <1>3, <2>1, <2>3, <3>1, ReportNextOrderly
  <2>4. CASE /\ Goto("report") /\ UNCHANGED marker
             /\ Mishap(c, "marker taken") \/ Mishap(c, "not recorded")
    <3>1. /\ mishap' \in [ Commands -> Mishaps ] /\ mishap'[c] \in Unrecorded
          /\ \A d \in Commands \ { c } : mishap'[d] = mishap[d]
      BY <1>1, <2>4 DEF TypeOK, Mishap, Mishaps, Unrecorded
    <3> QED  BY <1>1, <1>3, <2>1, <2>4, <3>1, ReportNextOrderly
  <2> QED  BY <1>3, <2>2, <2>3, <2>4 DEF SettleMarker
<1>4. CASE relay.outcome # "running" /\ ~ Careful(c) /\ DropMarker(c) /\ Remember(c, relay.outcome)
  <2>1. faults' \in 0 .. MaxFaults
    BY <1>1, <1>4, FaultsBounded DEF DropMarker
  <2>2. /\ mishap' \in [ Commands -> Mishaps ] /\ UNCHANGED mishap /\ Goto("report")
        /\ UNCHANGED marker \/ (marker' = NoMarker /\ Own(c))
    BY <1>1, <1>4 DEF DropMarker, TypeOK
  <2> QED  BY <1>1, <1>4, <2>1, <2>2, ReportNextOrderly
<1> QED  BY <1>2, <1>3, <1>4 DEF Record

\* The report settles the job of its command if it is open, or is lost.
LEMMA ReportOrderly == ASSUME Orderly, Report PROVE Orderly'
<1> USE DEF Orderly
<1>1. /\ relay.at = "report" /\ faults' \in 0 .. MaxFaults
      /\ relay.command \in Commands /\ relay.command \notin relay.batch
      /\ UNCHANGED << order, work, marker, cache, starts >>
  BY FaultsBounded, Pieces DEF Report, RelayInOrder
<1>2. /\ relay' \in Invocations /\ relay'.batch = relay.batch
      /\ relay'.at \in { "clear", "fetch", "next" }
      /\ relay'.at = "clear" => relay'.resuming = relay.resuming /\ relay'.command = relay.command
      /\ relay'.at # "clear" => ~ relay'.resuming /\ relay'.command = None
      /\ relay'.at = "fetch" => relay.batch = {}
  BY AfterFields, GotoFields DEF Report, RelayInOrder, Steps
<1> DEFINE c == relay.command
           lost == /\ UNCHANGED job /\ relay'.at # "clear"
                   /\ mishap' = [ mishap EXCEPT ![c] = IF @ = "none" THEN "report lost" ELSE @ ]
           settled == [ job EXCEPT ![c].state = IF relay.outcome = "ok"
                                               THEN "SUCCEEDED" ELSE "FAILED" ]
<1>3. \/ Open(c) /\ job' = settled /\ UNCHANGED mishap
      \/ ~ Open(c) /\ UNCHANGED << job, mishap >>
      \/ lost
  BY AfterFields DEF Report, TakesAnswer
<1>4. /\ job' \in [ Commands -> Rows ]
      /\ \A d \in Commands \ { c } : job'[d] = job[d]
      /\ job'[c] # job[c] => /\ Open(c) /\ job[c].state # "NONE"
                             /\ job'[c].state = IF relay.outcome = "ok"
                                                THEN "SUCCEEDED" ELSE "FAILED"
      /\ job'[c].state \in Active => lost /\ Open(c)
  <2>1. job[c] \in Rows
    BY <1>1 DEF TypeOK
  <2>2. CASE Open(c) /\ job' = settled /\ UNCHANGED mishap
    BY <1>1, <2>1, <2>2 DEF TypeOK, Rows, Open, Active, InFlight
  <2>3. CASE ~ Open(c) /\ UNCHANGED << job, mishap >>
    BY <2>3 DEF TypeOK, Open
  <2>4. CASE lost
    BY <2>4 DEF TypeOK, Open
  <2> QED  BY <1>3, <2>2, <2>3, <2>4
<1>5. /\ mishap' \in [ Commands -> Mishaps ]
      /\ \A d \in Commands \ { c } : mishap'[d] = mishap[d]
      /\ mishap[c] \in Unrecorded => mishap'[c] \in Unrecorded
      /\ mishap[c] = "report lost" => mishap'[c] = "report lost"
      /\ job'[c].state \in Active => mishap'[c] \in Unrecorded \cup { "report lost" }
  <2>1. CASE UNCHANGED mishap /\ ~ lost
    BY <1>4, <2>1 DEF TypeOK
  <2>2. CASE lost
    BY <1>1, <2>2 DEF TypeOK, Mishaps, Unrecorded
  <2> QED  BY <1>3, <2>1, <2>2
<1>6. relay'.at = "clear" => job'[c].state \notin Active
  BY <1>4
<1>7. \A d \in Commands :
        /\ job'[d].state = "NONE" <=> job[d].state = "NONE"
        /\ job'[d].state \in Active => job[d].state \in Active
        /\ job'[d].state = "SUCCEEDED" =>
              job[d].state = "SUCCEEDED" \/ (d = c /\ relay.outcome = "ok")
  BY <1>1, <1>4 DEF Open, Active, InFlight
<1> HIDE DEF lost, settled
<1> USE <1>1, <1>2, <1>5, <1>6, <1>7, Pieces
<1>10. TypeOK'
  BY <1>4 DEF TypeOK
<1>11. RelayInOrder' /\ MarkerInOrder'
  BY DEF RelayInOrder, MarkerInOrder, Careful, OfType
<1>8. \A d \in Commands : Untouched(d) => Untouched(d)'
  <2>1. relay'.command \in { relay.command, None } /\ relay'.batch = relay.batch
    OBVIOUS
  <2> QED  BY <2>1 DEF Untouched, Held, Own
<1>12. TracesHaveRows'
  BY <1>8 DEF TracesHaveRows
<1>13. WorkIsUnanswered'
  BY DEF WorkIsUnanswered, Executes, BeforeAnswer, Own, Open, OfType
<1>14. AnswersAreEarned'
  <2>1. relay.outcome = "ok" => Earned(c)
    BY DEF AnswersAreEarned
  <2>2. \A d \in Commands : Earned(d) <=> Earned(d)'
    BY DEF Earned, OfType
  <2> QED  BY <2>1, <2>2 DEF AnswersAreEarned
<1>15. InstallsGoAlone'
  <2>1. \A d \in Commands : Starting(d)' => Starting(d)
    BY DEF Starting, Executes
  <2>2. \A d, e \in Commands : Before(d, e) => Before(d, e)'
    BY DEF Before
  <2> QED  BY <1>8, <2>1, <2>2 DEF InstallsGoAlone, Open, OfType
<1>16. TeardownIsLast'
  BY DEF TeardownIsLast, TearingDown, Open, OfType
<1>17. DebtsAreKnown'
  BY DEF DebtsAreKnown, Owed, Open, Own, Careful, OfType, Executes, BeforeAnswer
<1> QED  BY <1>10, <1>11, <1>12, <1>13, <1>14, <1>15, <1>16, <1>17

LEMMA ClearOrderly == ASSUME Orderly, Clear PROVE Orderly'
<1> USE DEF Orderly
<1>1. /\ relay.at = "clear" /\ faults' \in 0 .. MaxFaults
      /\ relay.command \in Commands /\ relay.command \notin relay.batch
      /\ ~ Open(relay.command)
      /\ relay' \in Invocations /\ relay'.batch = relay.batch
      /\ relay'.at \in { "fetch", "next" } /\ ~ relay'.resuming /\ relay'.command = None
      /\ marker' = marker \/ (marker' = NoMarker /\ Own(relay.command))
      /\ UNCHANGED << job, order, work, cache, starts, mishap >>
  BY FaultsBounded, AfterFields, Pieces DEF Clear, MarkerAfterClear, RelayInOrder, WorkIsUnanswered
<1>a. relay'.at = "fetch" => relay.batch = {}
  BY <1>1, AfterFields DEF Clear, RelayInOrder
<1> USE <1>1, <1>a, NoMarkerFields, Pieces
<1>2. TypeOK'
  BY DEF TypeOK
<1>3. RelayInOrder' /\ MarkerInOrder'
  BY DEF RelayInOrder, MarkerInOrder, Careful, OfType
<1>4. TracesHaveRows'
  BY DEF TracesHaveRows, Untouched, Held, Own
<1>5. WorkIsUnanswered'
  BY DEF WorkIsUnanswered, Executes, BeforeAnswer, Own, Open, OfType
<1>6. AnswersAreEarned'
  BY DEF AnswersAreEarned, Earned, OfType
<1>7. InstallsGoAlone'
  BY DEF InstallsGoAlone, Open, Starting, Executes, OfType, Before, Untouched, Held, Own
<1>8. TeardownIsLast'
  BY DEF TeardownIsLast, TearingDown, Open, OfType
<1>9. DebtsAreKnown'
  BY DEF DebtsAreKnown, Owed, Open, Own, Careful, OfType, Executes, BeforeAnswer
<1> QED  BY <1>2, <1>3, <1>4, <1>5, <1>6, <1>7, <1>8, <1>9

LEMMA UnchangedOrderly == ASSUME Orderly, UNCHANGED vars PROVE Orderly'
<1>1. UNCHANGED << job, order, work, marker, relay, cache, faults, starts, mishap >>
  BY DEF vars
<1> USE <1>1 DEF Orderly
<1>2. TypeOK'
  BY DEF TypeOK
<1>3. RelayInOrder' /\ MarkerInOrder'
  BY DEF RelayInOrder, MarkerInOrder, Careful, OfType
<1>4. TracesHaveRows'
  BY DEF TracesHaveRows, Untouched, Held, Own
<1>5. WorkIsUnanswered'
  BY DEF WorkIsUnanswered, Executes, BeforeAnswer, Own, Open, OfType
<1>6. AnswersAreEarned'
  BY DEF AnswersAreEarned, Earned, OfType
<1>7. InstallsGoAlone'
  BY DEF InstallsGoAlone, Open, Starting, Executes, OfType, Before, Untouched, Held, Own
<1>8. TeardownIsLast'
  BY DEF TeardownIsLast, TearingDown, Open, OfType
<1>9. DebtsAreKnown'
  BY DEF DebtsAreKnown, Owed, Open, Own, Careful, OfType, Executes, BeforeAnswer
<1> QED  BY <1>2, <1>3, <1>4, <1>5, <1>6, <1>7, <1>8, <1>9

\* Work is started by the executor or resumer of its command, when it may.
LEMMA StartsAreActs ==
    ASSUME Orderly, Next, NEW c \in Commands, starts'[c] > starts[c]
    PROVE  Act /\ relay.command = c /\ MayStart(c)
<1>1. starts \in [ Commands -> 0 .. 2 ]
  BY DEF Orderly, TypeOK
<1>2. starts' # starts
  BY <1>1
<1>3. Act
  BY <1>2 DEF Next, RelayStep, Poll, Resume, Fetch, EndPoll, Release, Dispatch, Inspect,
     Authorize, Record, Report, Clear, ColdStart, CutOff, Request, Requeue, Park, GiveUp, Finish
<1>4. MayStart(relay.command)
      /\ starts' = [ starts EXCEPT ![relay.command] = IF @ = 2 THEN 2 ELSE @ + 1 ]
  BY <1>2, <1>3 DEF Act
<1> QED  BY <1>1, <1>3, <1>4

\* The inductive invariant, step by step.
LEMMA StepOrderly == Orderly /\ [Next]_vars => Orderly'
<1> SUFFICES ASSUME Orderly, [Next]_vars
             PROVE  Orderly'
  OBVIOUS
<1>1. CASE RelayStep
  BY <1>1, PollOrderly, ResumeOrderly, FetchOrderly, EndPollOrderly, ReleaseOrderly,
     DispatchOrderly, InspectOrderly, AuthorizeOrderly, ActOrderly, RecordOrderly,
     ReportOrderly, ClearOrderly DEF RelayStep
<1>2. CASE ColdStart \/ CutOff
  BY <1>2, ColdStartOrderly, CutOffOrderly
<1>3. ASSUME NEW c \in Commands, Request(c) \/ Finish(c)
      PROVE  Orderly'
  BY <1>3, RequestOrderly, FinishOrderly
<1>4. ASSUME NEW c \in Commands, Requeue(c) \/ Park(c) \/ GiveUp(c)
      PROVE  Orderly'
  BY <1>4, WatchdogOrderly
<1>5. CASE UNCHANGED vars
  BY <1>5, UnchangedOrderly
<1> QED  BY <1>1, <1>2, <1>3, <1>4, <1>5 DEF Next

-----------------------------------------------------------------------------
(***************************************************************************)
(* What keeps two mutations apart, on top of that.  A call that the relay  *)
(* makes for one command at most takes the marker of another; a fetch, a   *)
(* release, a dispatch and a request arrange the commands; whatever else   *)
(* happens starts and records nothing.                                     *)
(***************************************************************************)

\* Two requested commands are ordered, and a new one is the last.
LEMMA BeforeTotal ==
    ASSUME TypeOK, NEW c \in Commands, NEW d \in Commands, c # d,
           job[c].state # "NONE", job[d].state # "NONE"
    PROVE  Before(c, d) \/ Before(d, c)
<1>1. PICK i \in 1 .. Len(order) : order[i] = c
  BY DEF TypeOK, ToSet
<1>2. PICK j \in 1 .. Len(order) : order[j] = d
  BY DEF TypeOK, ToSet
<1> QED  BY <1>1, <1>2 DEF TypeOK, Before

LEMMA AppendedIsLast ==
    ASSUME TypeOK, NEW r \in Commands, job[r].state = "NONE", order' = Append(order, r)
    PROVE  /\ \A c \in Commands : ~ Before(r, c)'
           /\ \A c, d \in Commands : d # r /\ Before(c, d)' => Before(c, d)
<1>1. order \in Seq(Commands) /\ \A i \in 1 .. Len(order) : order[i] # r
  BY DEF TypeOK, ToSet
<1>2. /\ DOMAIN order = 1 .. Len(order) /\ DOMAIN order' = 1 .. Len(order) + 1
      /\ Len(order) \in Nat
      /\ order'[Len(order) + 1] = r /\ \A i \in 1 .. Len(order) : order'[i] = order[i]
  BY <1>1
<1>3. \A i \in DOMAIN order' : order'[i] = r => i = Len(order) + 1
  BY <1>1, <1>2
<1>4. \A c \in Commands : ~ Before(r, c)'
  BY <1>2, <1>3 DEF Before
<1>5. ASSUME NEW c \in Commands, NEW d \in Commands, d # r, Before(c, d)'
      PROVE  Before(c, d)
  <2>1. PICK i, j \in DOMAIN order' : i < j /\ order'[i] = c /\ order'[j] = d
    BY <1>5 DEF Before
  <2>2. i \in DOMAIN order /\ j \in DOMAIN order
    BY <1>2, <1>5, <2>1
  <2> QED  BY <1>2, <2>1, <2>2 DEF Before
<1> QED  BY <1>4, <1>5

\* A call that the relay makes for the command it is at.
Calls == Inspect \/ Authorize \/ Act \/ Record \/ Report \/ Clear

\* Where it leaves the relay.
LEMMA CallGoesOn ==
    ASSUME Orderly, Calls
    PROVE  /\ relay.command \in Commands /\ relay' \in Invocations
           /\ relay.at \in { "inspect", "authorize", "act", "record", "report", "clear" }
           /\ relay'.batch = relay.batch /\ relay'.command \in { relay.command, None }
           /\ relay'.at \in { "authorize", "act" } => relay.at \in { "inspect", "authorize" }
           /\ relay'.at # "inspect"
           /\ relay'.at = "record" => relay.at \in { "act", "record" }
           /\ relay'.command = None =>
                 /\ relay'.at \in { "fetch", "next" }
                 /\ ~ relay'.resuming /\ (relay.busy => relay'.busy)
                 /\ relay.resuming \/ relay'.busy \/ relay.at \in { "report", "clear" }
           /\ relay'.command # None =>
                 relay'.resuming = relay.resuming /\ relay'.busy = relay.busy
<1> USE Pieces
<1> DEFINE Goes(from) ==
           /\ relay' \in Invocations /\ relay'.batch = relay.batch
           /\ relay'.at # "inspect"
           /\ relay'.at \in { "authorize", "act" } => relay.at \in { "inspect", "authorize" }
           /\ relay'.at = "record" => relay.at \in { "act", "record" }
           /\ \/ /\ relay'.command = relay.command
                 /\ relay'.resuming = relay.resuming /\ relay'.busy = relay.busy
              \/ /\ relay'.command = None /\ ~ relay'.resuming
                 /\ relay'.at \in { "fetch", "next" }
                 /\ relay.busy => relay'.busy
                 /\ relay.resuming \/ relay'.busy \/ from
<1>1. ASSUME NEW step \in { "act", "authorize", "record", "report", "clear" },
             step \in { "authorize", "act" } => relay.at \in { "inspect", "authorize" },
             step = "record" => relay.at \in { "act", "record" },
             \/ Goto(step)
             \/ \E outcome \in Outcomes : Answer(outcome, step)
      PROVE  Goes(FALSE)
  BY <1>1 DEF Goto, Answer, Invocations, Steps
<1>2. ASSUME Deferred \/ (relay.resuming /\ Done) PROVE Goes(FALSE)
  BY <1>2 DEF Deferred, Done, AfterCommand, Invocations, Steps, Outcomes
<1>3. ASSUME Done PROVE Goes(TRUE)
  BY <1>3 DEF Done, AfterCommand, Invocations, Steps, Outcomes
<1>4. CASE Inspect
  <2>1. relay.at = "inspect" /\ ~ relay.resuming
    BY <1>4 DEF Inspect, Orderly, RelayInOrder
  <2>2. \/ Deferred
        \/ \E step \in { "act", "authorize", "report" } :
              Goto(step) \/ \E outcome \in Outcomes : Answer(outcome, step)
    BY <1>4 DEF Inspect, Outcomes
  <2>3. Goes(FALSE)
    BY <1>1, <1>2, <2>1, <2>2
  <2> QED  BY <2>1, <2>3
<1>5. CASE Authorize
  <2>1. relay.at = "authorize"
    BY <1>5 DEF Authorize
  <2>2. \/ Deferred \/ (relay.resuming /\ Done)
        \/ \E step \in { "act", "report" } :
              Goto(step) \/ \E outcome \in Outcomes : Answer(outcome, step)
    BY <1>5 DEF Authorize, Outcomes
  <2>3. Goes(FALSE)
    BY <1>1, <1>2, <2>1, <2>2
  <2> QED  BY <2>1, <2>3
<1>6. CASE Act
  <2>1. relay.at = "act"
    BY <1>6 DEF Act
  <2>0. \A d \in Commands : Observed(d) \in Outcomes
    BY DEF Observed, Orderly, TypeOK, Outcomes
  <2>2. \/ Deferred \/ (relay.resuming /\ Done)
        \/ \E outcome \in Outcomes : Answer(outcome, "record")
    <3>1. "failed" \in Outcomes
      BY DEF Outcomes
    <3> QED  BY ONLY <1>6, <2>0, <2>1, <3>1, Pieces, Orderly DEF Act
  <2>3. Goes(FALSE)
    BY <1>1, <1>2, <2>1, <2>2
  <2> QED  BY <2>1, <2>3
<1>7. CASE Record
  <2>1. relay.at = "record"
    BY <1>7 DEF Record
  <2>2. \/ Deferred \/ (relay.resuming /\ Done)
        \/ \E step \in { "record", "report" } :
              Goto(step) \/ \E outcome \in Outcomes : Answer(outcome, step)
    <3>1. "failed" \in Outcomes
      BY DEF Outcomes
    <3> QED  BY ONLY <1>7, <3>1 DEF Record, RecordRunning, SettleMarker, DropMarker
  <2>3. Goes(FALSE)
    BY <1>1, <1>2, <2>1, <2>2
  <2> QED  BY <2>1, <2>3
<1>8. CASE Report
  <2>1. relay.at = "report" /\ (Goto("clear") \/ Done)
    BY <1>8 DEF Report
  <2>3. Goes(TRUE)
    BY <1>1, <1>3, <2>1
  <2> QED  BY <2>1, <2>3
<1>9. CASE Clear
  <2>1. relay.at = "clear" /\ Done
    BY <1>9 DEF Clear
  <2>3. Goes(TRUE)
    BY <1>3, <2>1
  <2> QED  BY <2>1, <2>3
<1> QED  BY <1>4, <1>5, <1>6, <1>7, <1>8, <1>9 DEF Calls

\* What it does to the other commands: at most it takes the marker of one.
CallSpares(c) ==
    /\ order' = order
    /\ \A d \in Commands : (Open(d)' => Open(d)) /\ (work[d] # "none" => work'[d] # "none")
    /\ \A d \in Commands \ { c } :
          /\ work'[d] = work[d] /\ cache'[d] = cache[d] /\ starts'[d] = starts[d]
          /\ mishap'[d] = mishap[d] \/ mishap'[d] \in Unrecorded
          /\ Own(d)' => marker' = marker
          /\ Open(d) /\ Own(d) => marker' = marker \/ mishap'[d] \in Unrecorded

LEMMA CallSparesOthers == ASSUME Orderly, Calls PROVE CallSpares(relay.command)
<1> DEFINE c == relay.command
<1>c. c \in Commands /\ None \notin Commands
  BY CallGoesOn, TypeAssumption
<1>t. /\ cache \in [ Commands -> { "none", "ok", "failed" } ]
      /\ mishap \in [ Commands -> Mishaps ] /\ work \in [ Commands -> Outcomes ]
      /\ starts \in [ Commands -> 0 .. 2 ] /\ job \in [ Commands -> Rows ]
  BY DEF Orderly, TypeOK
<1>r. ASSUME NEW a, Remember(c, a) PROVE \A d \in Commands \ { c } : cache'[d] = cache[d]
  BY <1>c, <1>t, <1>r DEF Remember
<1>n. NoMarker.command = None
  BY NoMarkerFields
<1>m. ASSUME NEW d \in Commands \ { c }, NEW m, NEW what, Mishap(c, what)
      PROVE  mishap'[d] = mishap[d]
  BY <1>t, <1>m DEF Mishap
<1>4. CASE Inspect
  <2>1. UNCHANGED << job, order, work, marker, starts, mishap >>
        /\ (UNCHANGED cache \/ \E a : Remember(c, a))
    BY <1>4 DEF Inspect
  <2>2. \A d \in Commands \ { c } : cache'[d] = cache[d]
    BY <2>1, <1>r
  <2> QED  BY <2>1, <2>2 DEF CallSpares, Open
<1>5. CASE Authorize
  <2>1. UNCHANGED << job, order, work, starts, mishap >>
        /\ (UNCHANGED cache \/ \E a : Remember(c, a))
    BY <1>5 DEF Authorize
  <2>2. \A d \in Commands \ { c } : cache'[d] = cache[d]
    BY <2>1, <1>r
  <2>3. \/ UNCHANGED marker
        \/ relay.resuming /\ marker' = NoMarker
        \/ ~ relay.resuming /\ OfType(c, { "INSTALL" }) /\ marker'.command = c
    BY <1>5, <1>c DEF Authorize, NoMarker
  <2>4. ASSUME NEW d \in Commands \ { c }, Open(d), Own(d) PROVE marker' = marker
    <3>1. CASE relay.resuming
      BY <1>5, <2>4, <3>1 DEF Authorize, Orderly, WorkIsUnanswered, Own
    <3>2. CASE ~ relay.resuming /\ OfType(c, { "INSTALL" })
      <4>1. Starting(c)
        BY <1>5, <3>2 DEF Authorize, Starting, Executes
      <4>2. Untouched(d)
        BY <1>c, <2>4, <3>2, <4>1 DEF Orderly, InstallsGoAlone
      <4> QED  BY <2>4, <4>2 DEF Untouched, Held
    <3> QED  BY <2>3, <3>1, <3>2
  <2>5. \A d \in Commands \ { c } : Own(d)' => marker' = marker
    BY <1>c, <1>n, <2>3 DEF Own
  <2> QED  BY <2>1, <2>2, <2>4, <2>5 DEF CallSpares, Open
<1>6. CASE Act
  <2>1. UNCHANGED << job, order, marker, cache, mishap >>
    BY <1>6 DEF Act
  <2>2. /\ \A d \in Commands \ { c } : work'[d] = work[d] /\ starts'[d] = starts[d]
        /\ work'[c] = work[c] \/ work'[c] # "none"
    BY <1>6, <1>c, <1>t DEF Act
  <2>3. \A d \in Commands : work[d] # "none" => work'[d] # "none"
    BY <2>2
  <2> QED  BY <2>1, <2>2, <2>3 DEF CallSpares, Open
<1>7. CASE Record
  <2>1. UNCHANGED << job, order, work, starts >>
        /\ (UNCHANGED cache \/ \E a : Remember(c, a))
    BY <1>7 DEF Record, RecordRunning
  <2>2. \A d \in Commands \ { c } : cache'[d] = cache[d]
    BY <2>1, <1>r
  <2> DEFINE Taken == /\ marker'.command = c
                      /\ \A d \in Commands \ { c } :
                            mishap'[d] = IF Own(d) THEN "marker taken" ELSE mishap[d]
             Free == /\ \/ UNCHANGED marker
                        \/ marker' = NoMarker /\ Own(c)
                        \/ marker'.command = c /\ (Own(c) \/ marker = NoMarker)
                     /\ \A d \in Commands \ { c } : mishap'[d] = mishap[d]
  <2>3. Taken \/ Free
    <3>1. CASE RecordRunning
      <4>1. CASE /\ marker' = [ command |-> c, phase |-> "running", started |-> TRUE,
                                ok |-> FALSE ]
                 /\ mishap' = [ d \in Commands |-> IF d = c THEN "none"
                                                   ELSE IF Own(d) THEN "marker taken"
                                                   ELSE mishap[d] ]
        <5>1. Taken
          BY <4>1 DEF Own
        <5> QED  BY <5>1
      <4>2. CASE UNCHANGED marker /\ Mishap(c, "not recorded")
        BY <1>m, <4>2
      <4> QED  BY <3>1, <4>1, <4>2 DEF RecordRunning
    <3>2. CASE SettleMarker(c)
      <4>1. /\ \/ UNCHANGED marker
               \/ /\ marker' = [ command |-> c, phase |-> "settled", started |-> TRUE,
                                 ok |-> relay.outcome = "ok" ]
                  /\ Own(c) \/ marker = NoMarker
            /\ \/ UNCHANGED mishap
               \/ Mishap(c, IF work[c] = "running" THEN mishap[c] ELSE "none")
               \/ Mishap(c, "marker taken") \/ Mishap(c, "not recorded")
        BY <3>2 DEF SettleMarker
      <4>2. \A d \in Commands \ { c } : mishap'[d] = mishap[d]
        BY <1>m, <4>1
      <4>4. ASSUME marker' = [ command |-> c, phase |-> "settled", started |-> TRUE,
                               ok |-> relay.outcome = "ok" ]
            PROVE  marker'.command = c
        BY <4>4
      <4>3. UNCHANGED marker \/ (marker'.command = c /\ (Own(c) \/ marker = NoMarker))
        BY <4>1, <4>4
      <4> QED  BY <4>2, <4>3
    <3>3. CASE DropMarker(c)
      BY <1>7, <3>3 DEF DropMarker, Record, Orderly, WorkIsUnanswered
    <3> QED  BY <1>7, <3>1, <3>2, <3>3 DEF Record
  <2>4. ASSUME NEW d \in Commands \ { c }
        PROVE  /\ mishap'[d] = mishap[d] \/ mishap'[d] \in Unrecorded
               /\ Own(d)' => marker' = marker
               /\ Own(d) => marker' = marker \/ mishap'[d] \in Unrecorded
    BY <1>c, <1>n, <1>m, <2>3 DEF Own, Unrecorded
  <2> QED  BY <2>1, <2>2, <2>4 DEF CallSpares, Open
<1>8. CASE Report
  <2>1. UNCHANGED << order, work, marker, cache, starts >>
        /\ \A d \in Commands \ { c } : mishap'[d] = mishap[d]
    BY <1>8, <1>t DEF Report
  <2>2. \A d \in Commands : Open(d)' => Open(d)
    BY <1>8, <1>t DEF Report, TakesAnswer, Open, Active, InFlight
  <2> QED  BY <2>1, <2>2 DEF CallSpares
<1>9. CASE Clear
  <2>1. UNCHANGED << job, order, work, cache, starts, mishap >>
        /\ (UNCHANGED marker \/ (Own(c) /\ marker' = NoMarker))
    BY <1>9 DEF Clear, MarkerAfterClear
  <2> QED  BY <1>c, <1>n, <2>1 DEF CallSpares, Open, Own
<1> QED  BY <1>4, <1>5, <1>6, <1>7, <1>8, <1>9 DEF Calls

\* Nothing the relay gets hold of moves up.
LEMMA TakenKept ==
    ASSUME Orderly, TakenInOrder, order' = order,
           \A c \in Commands : Open(c)' => Open(c),
           \A c \in Commands : Untouched(c) => Untouched(c)',
           relay'.batch \subseteq relay.batch,
           \A c \in Commands, d \in relay'.batch : AtHand(c, d)' => AtHand(c, d)
    PROVE  TakenInOrder'
<1>1. \A c, d \in Commands : Before(c, d)' <=> Before(c, d)
  BY DEF Before
<1>2. relay.batch \subseteq Commands
  BY Pieces
<1> QED  BY <1>1, <1>2 DEF TakenInOrder, OfType

LEMMA CallTaken == ASSUME Orderly, TakenInOrder, Calls PROVE TakenInOrder'
<1> DEFINE c == relay.command
<1> USE CallGoesOn, CallSparesOthers, Pieces
<1>1. ASSUME NEW d \in Commands, Untouched(d) PROVE Untouched(d)'
  <2>1. d # c
    BY <1>1 DEF Untouched, Held
  <2> QED  BY <1>1, <2>1 DEF Untouched, Held, CallSpares, Own
<1>2. \A b \in Commands, d \in relay'.batch : AtHand(b, d)' => AtHand(b, d)
  BY DEF AtHand, Before, CallSpares
<1> QED  BY <1>1, <1>2, TakenKept DEF CallSpares

\* What is noted as running has been started.
LEMMA CallNotesWork ==
    ASSUME Orderly, DeletionsAreKnown, Calls,
           marker'.phase = "running", marker'.started
    PROVE  work'[marker'.command] # "none"
<1> DEFINE c == relay.command
<1>c. c \in Commands /\ None \notin Commands
  BY CallGoesOn, TypeAssumption
<1>1. CASE UNCHANGED marker
  <2>1. marker.command \in Commands /\ work[marker.command] # "none"
    BY <1>1, Pieces DEF DeletionsAreKnown
  <2> QED  BY <1>1, <2>1, CallSparesOthers DEF CallSpares
<1>2. CASE Authorize /\ marker' # marker
  <2>1. \/ marker' = NoMarker
        \/ marker' = [ NoMarker EXCEPT !.command = c, !.phase = "running" ]
    BY <1>2 DEF Authorize
  <2>2. NoMarker.started = FALSE /\ NoMarker.phase = "absent" /\ NoMarker \in Markers
    BY NoMarkerFields DEF NoMarker
  <2>3. ASSUME marker' = [ NoMarker EXCEPT !.command = c, !.phase = "running" ]
        PROVE  marker'.started = FALSE
    BY <2>2, <2>3 DEF Markers
  <2> QED  BY <2>1, <2>2, <2>3
<1>3. CASE Record /\ RecordRunning /\ marker' # marker
  <2>1. /\ marker' = [ command |-> c, phase |-> "running", started |-> TRUE, ok |-> FALSE ]
        /\ relay.at = "record" /\ relay.outcome = "running" /\ UNCHANGED work
    BY <1>3 DEF Record, RecordRunning
  <2>2. marker'.command = c
    BY <2>1
  <2> QED  BY <2>1, <2>2 DEF DeletionsAreKnown
<1>4. CASE Record /\ (SettleMarker(c) \/ DropMarker(c)) /\ marker' # marker
  <2>1. \/ marker' = [ command |-> c, phase |-> "settled", started |-> TRUE,
                       ok |-> relay.outcome = "ok" ]
        \/ marker' = NoMarker
    BY <1>4 DEF SettleMarker, DropMarker
  <2> QED  BY <2>1 DEF NoMarker
<1>5. CASE Clear /\ marker' # marker
  <2>1. marker' = NoMarker
    BY <1>5 DEF Clear, MarkerAfterClear
  <2> QED  BY <2>1 DEF NoMarker
<1>6. marker' # marker => Authorize \/ Record \/ Clear
  BY DEF Calls, Inspect, Act, Report
<1> QED  BY <1>1, <1>2, <1>3, <1>4, <1>5, <1>6 DEF Record

LEMMA CallStays ==
    ASSUME Orderly, Calls, relay'.at = "record"
    PROVE  /\ Act \/ Record
           /\ relay'.command # None
           /\ ~ Goto("report")
           /\ \A outcome : ~ Answer(outcome, "report")
<1>1. relay \in Invocations /\ relay'.command # None /\ relay.at \in { "act", "record" }
  BY CallGoesOn, Pieces
<1>2. ~ Goto("report") /\ \A outcome : ~ Answer(outcome, "report")
  BY <1>1 DEF Goto, Answer, Invocations
<1>3. Act \/ Record
  BY <1>1 DEF Calls, Inspect, Authorize, Report, Clear
<1> QED  BY <1>1, <1>2, <1>3

\* What an executor or a resumer holds when it comes to the record.
LEMMA CallRecords ==
    ASSUME Orderly, DeletionsAreKnown, Calls, relay'.at = "record"
    PROVE  LET c == relay.command IN
           /\ relay'.command = c
           /\ relay'.outcome = "running" => work'[c] # "none"
           /\ relay'.outcome = "running" /\ relay'.resuming => ~ OfType(c, { "CONFIG_UPDATE" })
           /\ relay'.resuming /\ relay'.outcome # "running" /\ ~ Careful(c)
                 => work'[c] # "running"
<1> DEFINE c == relay.command
<1>1. ~ Done /\ ~ Deferred
  BY AfterFields DEF Orderly
<1>2. /\ c \in Commands /\ relay'.command = c /\ relay'.resuming = relay.resuming
      /\ work \in [ Commands -> Outcomes ] /\ relay \in Invocations
  <2>1. relay'.command # None
    BY CallGoesOn, CallStays
  <2> QED  BY <2>1, CallGoesOn, Pieces DEF Orderly, TypeOK
<1>3. CASE Act
  <2>1. relay.resuming => Own(c) /\ marker.phase # "settled"
    BY <1>3 DEF Act, Orderly, WorkIsUnanswered
  <2>2. ASSUME NEW now \in Outcomes \ { "none" },
               work' = [ work EXCEPT ![c] = now ], Answer(now, "record")
        PROVE  work'[c] = now /\ relay'.outcome = now
    BY <1>2, <2>2 DEF Answer, Invocations
  <2>3. relay.resuming /\ OfType(c, { "CONFIG_UPDATE" }) => ~ MayStart(c)
    <3>1. SUFFICES ASSUME relay.resuming, OfType(c, { "CONFIG_UPDATE" })
                   PROVE  ~ MayStart(c)
      OBVIOUS
    <3>2. OnRecord(c) /\ marker.phase = "running" /\ marker.command = c
      BY <1>2, <2>1, <3>1, Pieces
         DEF OnRecord, Own, Orderly, MarkerInOrder, OfType, Markers
    <3>3. work[c] # "none"
      BY <3>2 DEF DeletionsAreKnown, OnRecord
    <3> QED  BY <3>1, <3>2, <3>3 DEF MayStart, ConfigMayStart, OfType
  <2>4. ASSUME ~ MayStart(c), UNCHANGED work, Answer(Observed(c), "record")
        PROVE  /\ relay'.outcome = Observed(c)
               /\ Observed(c) = "running" => work'[c] = "running"
               /\ ~ Careful(c) => Observed(c) = work'[c]
    BY <1>2, <2>4 DEF Answer, Invocations, Observed, Careful, OfType
  <2>5. ASSUME ~ relay.resuming, Answer("failed", "record")
        PROVE  relay'.outcome = "failed"
    BY <1>2, <2>5 DEF Answer, Invocations
  <2>6. \/ MayStart(c) /\ \E now \in Outcomes \ { "none" } :
              work' = [ work EXCEPT ![c] = now ] /\ Answer(now, "record")
        \/ /\ ~ MayStart(c) /\ UNCHANGED work /\ Answer(Observed(c), "record")
           /\ ~ (OnRecord(c) /\ Observed(c) = "running")
        \/ ~ relay.resuming /\ Answer("failed", "record")
    BY <1>1, <1>3 DEF Act
  <2>7. CASE MayStart(c) /\ \E now \in Outcomes \ { "none" } :
                work' = [ work EXCEPT ![c] = now ] /\ Answer(now, "record")
    BY <1>2, <2>2, <2>3, <2>7
  <2>8. CASE /\ ~ MayStart(c) /\ UNCHANGED work /\ Answer(Observed(c), "record")
             /\ ~ (OnRecord(c) /\ Observed(c) = "running")
    <3>1. relay.resuming /\ OfType(c, { "CONFIG_UPDATE" }) => OnRecord(c)
      BY <1>2, <2>1, Pieces DEF OnRecord, Own, Orderly, MarkerInOrder, OfType
    <3> QED  BY <1>2, <2>4, <2>8, <3>1
  <2>9. CASE ~ relay.resuming /\ Answer("failed", "record")
    BY <1>2, <2>5, <2>9
  <2> QED  BY <2>6, <2>7, <2>8, <2>9
<1>4. CASE Record
  <2>1. ~ relay.resuming /\ relay'.outcome = "failed"
    <3>1. RecordRunning /\ ~ relay.resuming /\ Answer("failed", "record")
      BY <1>1, <1>4, CallStays DEF Record, RecordRunning, SettleMarker, DropMarker
    <3> QED  BY <1>2, <3>1 DEF Answer, Invocations
  <2> QED  BY <1>2, <2>1
<1> QED  BY <1>2, <1>3, <1>4, CallStays

\* A deletion under way that is not on the marker was lost, or comes to be
\* recorded.
LEMMA CallLosesDeletion ==
    ASSUME Orderly, DeletionsAreKnown, Calls, NEW d \in Commands,
           Open(d)', ~ Careful(d), work'[d] = "running", ~ Own(d)'
    PROVE  \/ mishap'[d] \in Unrecorded
           \/ relay'.command = d /\ relay'.at = "record" /\ relay'.outcome = "running"
<1> DEFINE c == relay.command
<1>c. /\ c \in Commands /\ relay \in Invocations /\ None \notin Commands
      /\ work \in [ Commands -> Outcomes ] /\ mishap \in [ Commands -> Mishaps ]
  BY CallGoesOn, Pieces DEF Orderly, TypeOK
<1>1. Open(d)
  BY CallSparesOthers DEF CallSpares
<1>2. CASE d # c
  <2>1. work[d] = "running" /\ (mishap'[d] = mishap[d] \/ mishap'[d] \in Unrecorded)
    BY <1>2, CallSparesOthers DEF CallSpares
  <2>2. CASE Own(d)
    BY <1>1, <1>2, <2>2, CallSparesOthers DEF CallSpares, Own
  <2>3. CASE ~ Own(d)
    BY <1>1, <1>2, <2>1, <2>3 DEF DeletionsAreKnown
  <2> QED  BY <2>2, <2>3
<1>3. CASE d = c /\ Act
  <2>1. CASE UNCHANGED << work, marker, mishap >>
    BY <1>1, <1>3, <2>1 DEF Act, DeletionsAreKnown, Own
  <2>2. CASE \E now \in Outcomes \ { "none" } :
                work' = [ work EXCEPT ![c] = now ] /\ Answer(now, "record")
    <3>1. PICK now \in Outcomes \ { "none" } :
                work' = [ work EXCEPT ![c] = now ] /\ Answer(now, "record")
      BY <2>2
    <3>2. work'[c] = now
      BY <1>c, <3>1
    <3> QED  BY <1>c, <1>3, <3>1, <3>2 DEF Answer, Invocations
  <2> QED  BY <1>3, <2>1, <2>2 DEF Act
<1>4. CASE d = c /\ Record
  <2>1. relay.at = "record" /\ UNCHANGED work
    BY <1>4 DEF Record
  <2>2. CASE RecordRunning
    <3>1. marker'.command # c
      BY <1>4 DEF Own
    <3>3. marker' # [ command |-> c, phase |-> "running", started |-> TRUE, ok |-> FALSE ]
      BY <3>1
    <3>2. Mishap(c, "not recorded")
      BY <2>2, <3>3 DEF RecordRunning
    <3> QED  BY <1>c, <1>4, <3>2 DEF Mishap, Unrecorded
  <2>3. CASE relay.outcome # "running" /\ DropMarker(c)
    <3>1. UNCHANGED mishap /\ ~ relay.resuming /\ UNCHANGED marker
      <4>1. ~ relay.resuming
        BY <1>4, <2>1, <2>3 DEF DeletionsAreKnown
      <4> QED  BY <2>3, <4>1 DEF DropMarker
    <3> QED  BY <1>1, <1>4, <2>1, <2>3, <3>1 DEF DeletionsAreKnown, Own
  <2> QED  BY <1>4, <2>2, <2>3 DEF Record
<1>5. CASE d = c /\ (Inspect \/ Report)
  <2>1. /\ UNCHANGED << work, marker >> /\ relay.at # "record"
        /\ mishap[c] \in Unrecorded => mishap'[c] \in Unrecorded
    BY <1>c, <1>5 DEF Inspect, Report, Unrecorded
  <2> QED  BY <1>1, <1>5, <2>1 DEF DeletionsAreKnown, Own
<1>6. CASE d = c /\ Authorize
  <2>1. UNCHANGED << work, mishap >> /\ relay.at = "authorize"
    BY <1>6 DEF Authorize
  <2>2. UNCHANGED marker
    <3>1. ~ OfType(c, { "INSTALL" })
      BY <1>6 DEF Careful, OfType
    <3>2. ~ relay.resuming
      BY <2>1, <3>1 DEF Orderly, WorkIsUnanswered
    <3> QED  BY <1>6, <3>1, <3>2 DEF Authorize
  <2> QED  BY <1>1, <1>6, <2>1, <2>2 DEF DeletionsAreKnown, Own
<1>7. CASE d = c /\ Clear
  BY <1>1, <1>7 DEF Clear, Orderly, WorkIsUnanswered
<1> QED  BY <1>2, <1>3, <1>4, <1>5, <1>6, <1>7 DEF Calls

LEMMA CallDeletions == ASSUME Orderly, DeletionsAreKnown, Calls PROVE DeletionsAreKnown'
<1>1. \A d \in Commands : Careful(d)' <=> Careful(d)
  BY DEF Careful, OfType
<1>2. Careful(relay.command)' <=> Careful(relay'.command)
  BY DEF Careful, OfType
<1>3. OfType(relay.command, { "CONFIG_UPDATE" })' <=> OfType(relay'.command, { "CONFIG_UPDATE" })
  BY DEF OfType
<1> QED  BY <1>1, <1>2, <1>3, CallNotesWork, CallRecords, CallLosesDeletion DEF DeletionsAreKnown

LEMMA FaultOrNot == ASSUME TypeOK PROVE ~ (Fault /\ NoFault)
BY DEF TypeOK, Fault, NoFault

\* The remembered answer of a CONFIG_UPDATE comes with its record.
LEMMA CallAnswers == ASSUME Orderly, DeletionsAreKnown, AnswersAreKept, Calls PROVE AnswersAreKept'
<1> DEFINE c == relay.command
           Kept(d) == (Own(d) /\ marker.phase = "settled") \/ mishap[d] \in Unrecorded
<1>c. /\ c \in Commands /\ relay \in Invocations /\ None \notin Commands
      /\ work \in [ Commands -> Outcomes ] /\ mishap \in [ Commands -> Mishaps ]
      /\ cache \in [ Commands -> { "none", "ok", "failed" } ]
  BY CallGoesOn, Pieces DEF Orderly, TypeOK
<1> SUFFICES ASSUME NEW d \in Commands, OfType(d, { "CONFIG_UPDATE" }), Open(d)',
                      work'[d] = "running", Remembered(d)'
               PROVE  Kept(d)'
  BY DEF AnswersAreKept, OfType
<1>1. Open(d)
  BY CallSparesOthers DEF CallSpares
<1>k. OfType(d, { "CONFIG_UPDATE" }) /\ Open(d) /\ work[d] = "running" /\ Remembered(d) => Kept(d)
  BY DEF AnswersAreKept
<1>2. CASE d # c
  <2>1. work[d] = "running" /\ Remembered(d)
    BY <1>c, <1>2, CallSparesOthers, CallGoesOn DEF CallSpares, Remembered, Executes
  <2>2. CASE Own(d) /\ marker.phase = "settled"
    BY <1>1, <1>2, <2>2, CallSparesOthers DEF CallSpares, Own
  <2>3. CASE mishap[d] \in Unrecorded
    BY <1>2, <2>3, CallSparesOthers DEF CallSpares
  <2> QED  BY <1>1, <1>k, <2>1, <2>2, <2>3
<1>3. CASE d = c /\ Inspect
  <2>1. UNCHANGED << work, marker, mishap >> /\ relay.at = "inspect" /\ ~ relay.resuming
    BY <1>3 DEF Inspect, Orderly, RelayInOrder
  <2>2. (Own(c) /\ marker.phase = "settled") \/ Remembered(c)
    <3>1. CASE Own(c) /\ marker.phase = "settled"
      BY <3>1
    <3>2. CASE ~ (Own(c) /\ marker.phase = "settled")
      <4>1. UNCHANGED cache
        BY <1>3, <3>2 DEF Inspect
      <4>2. relay'.at # "report"
        BY <1>c, <1>3, <3>2, AfterFields DEF Inspect, Goto, Invocations, Orderly
      <4> QED  BY <1>3, <4>1, <4>2 DEF Remembered, Executes
    <3> QED  BY <3>1, <3>2
  <2> QED  BY <1>1, <1>3, <1>k, <2>1, <2>2 DEF Own
<1>4. CASE d = c /\ Authorize
  <2>1. ~ OfType(c, { "INSTALL" })
    BY <1>4 DEF OfType
  <2>2. ~ relay.resuming /\ relay.at = "authorize"
    BY <1>4, <2>1 DEF Authorize, Orderly, WorkIsUnanswered
  <2>3. Authorized(c)
    BY <1>1, <1>4 DEF Authorized, Orderly, TeardownIsLast, OfType
  <2>4. (Goto("act") \/ Deferred) /\ UNCHANGED << marker, cache, work, mishap >>
    BY <1>4, <2>1, <2>2, <2>3 DEF Authorize
  <2>5. relay'.at # "report"
    BY <1>c, <2>2, <2>4, AfterFields DEF Goto, Invocations, Orderly
  <2>6. Remembered(c)
    BY <1>4, <2>4, <2>5 DEF Remembered, Executes
  <2> QED  BY <1>1, <1>4, <1>k, <2>4, <2>6 DEF Own
<1>5. CASE d = c /\ Act
  <2>1. UNCHANGED << marker, cache, mishap >> /\ relay.at = "act"
    BY <1>5 DEF Act
  <2>2. relay'.at # "report"
    BY <1>c, <1>5, <2>1, AfterFields DEF Act, Answer, Invocations, Orderly
  <2>3. cache[c] # "none"
    BY <1>5, <2>1, <2>2 DEF Remembered, Executes
  <2>4. relay.resuming
    BY <1>c, <2>1, <2>3 DEF Orderly, WorkIsUnanswered, Executes, BeforeAnswer
  <2>5. Own(c) /\ marker.phase # "settled"
    BY <2>1, <2>4 DEF Orderly, WorkIsUnanswered
  <2>6. OnRecord(c) /\ marker.phase = "running" /\ marker.command = c
    BY <1>c, <1>5, <2>5, Pieces DEF OnRecord, Own, Orderly, MarkerInOrder, OfType, Markers
  <2>7. work[c] # "none"
    BY <2>6 DEF DeletionsAreKnown, OnRecord
  <2>8. ~ MayStart(c)
    BY <1>5, <2>6, <2>7 DEF MayStart, ConfigMayStart, OfType
  <2>9. UNCHANGED work
    BY <1>5, <2>8 DEF Act
  <2> QED  BY <1>1, <1>5, <1>k, <2>1, <2>3, <2>9 DEF Own, Remembered
<1>6. CASE d = c /\ Record
  <2>1. UNCHANGED work /\ relay.at = "record" /\ (~ relay.resuming => cache[c] = "none")
    BY <1>c, <1>6 DEF Record, Orderly, WorkIsUnanswered, Executes, BeforeAnswer
  <2>2. CASE RecordRunning /\ NoFault
    <3>1. ~ relay.resuming
      BY <1>6, <2>1, <2>2 DEF RecordRunning, DeletionsAreKnown
    <3>2. UNCHANGED cache
      BY <2>2, <3>1, FaultOrNot DEF RecordRunning, Orderly
    <3>3. relay'.command = None
      BY <2>2, <3>1, FaultOrNot, AfterFields DEF RecordRunning, Orderly
    <3> QED  BY <1>c, <1>6, <2>1, <3>1, <3>2, <3>3 DEF Remembered, Executes
  <2>3. CASE RecordRunning /\ Mishap(c, "not recorded")
    BY <1>c, <1>6, <2>3 DEF Mishap, Unrecorded
  <2>4. CASE SettleMarker(c) /\ Remember(c, relay.outcome)
    <3>1. CASE marker' = [ command |-> c, phase |-> "settled", started |-> TRUE,
                           ok |-> relay.outcome = "ok" ]
      <4>1. marker'.command = c /\ marker'.phase = "settled"
        BY <3>1
      <4> QED  BY <1>6, <4>1 DEF Own
    <3>2. CASE Mishap(c, "marker taken") \/ Mishap(c, "not recorded")
      BY <1>c, <1>6, <3>2 DEF Mishap, Unrecorded
    <3>3. CASE relay.resuming /\ Done /\ UNCHANGED << mishap, marker >>
      <4>1. UNCHANGED cache /\ relay'.command = None
        BY <2>4, <3>3, AfterFields DEF Remember, Orderly
      <4>2. Remembered(c)
        BY <1>c, <1>6, <4>1 DEF Remembered, Executes
      <4> QED  BY <1>1, <1>6, <1>k, <2>1, <3>3, <4>2 DEF Own
    <3> QED  BY <2>4, <3>1, <3>2, <3>3 DEF SettleMarker
  <2>5. Careful(c)
    BY <1>6 DEF Careful, OfType
  <2> QED  BY <1>6, <2>2, <2>3, <2>4, <2>5 DEF Record, RecordRunning
<1>7. CASE d = c /\ Report
  <2>1. UNCHANGED << work, marker, cache >> /\ relay'.at # "report"
        /\ (mishap[c] \in Unrecorded => mishap'[c] \in Unrecorded)
    BY <1>c, <1>7, AfterFields DEF Report, Unrecorded, Goto, Invocations, Orderly
  <2>2. Remembered(c)
    BY <1>7, <2>1 DEF Remembered, Executes
  <2> QED  BY <1>1, <1>7, <1>k, <2>1, <2>2 DEF Own
<1>8. CASE d = c /\ Clear
  BY <1>1, <1>8 DEF Clear, Orderly, WorkIsUnanswered
<1> QED  BY <1>2, <1>3, <1>4, <1>5, <1>6, <1>7, <1>8 DEF Calls

\* A command that the relay leaves behind unrecorded has the rest of the batch
\* handed back, or was lost.
LEMMA CallStarts ==
    ASSUME Orderly, TakenInOrder, AnswersAreKept, StartsApart, Calls
    PROVE  StartsApart'
<1> DEFINE c == relay.command
           Near(x) == x \in relay.batch \/ Executes(x, { "inspect", "authorize", "act" })
<1>c. /\ c \in Commands /\ c \notin relay.batch /\ relay'.batch = relay.batch
      /\ relay'.command \in { c, None } /\ None \notin Commands
      /\ relay.resuming => relay.batch = {}
      /\ relay.batch \subseteq Commands
      /\ mishap \in [ Commands -> Mishaps ]
  BY CallGoesOn, Pieces DEF Orderly, TypeOK, RelayInOrder
<1> SUFFICES ASSUME NEW x \in Commands, NEW d \in Commands, x # d, Recorded(d)', Near(x)'
             PROVE  \/ mishap'[d] \in Unrecorded
                    \/ OfType(x, { "CONFIG_UPDATE" }) /\ Before(x, d)'
                    \/ GivesWay(x, d)'
  BY DEF StartsApart, OfType
<1>1. Near(x)
  BY <1>c, CallGoesOn DEF Executes
<1>2. \A a, b \in Commands : Before(a, b)' <=> Before(a, b)
  BY CallSparesOthers DEF CallSpares, Before
<1>3. CASE d # c
  <2>1. Recorded(d)
    BY <1>3, CallSparesOthers DEF CallSpares, Recorded, Own
  <2>2. mishap[d] \in Unrecorded => mishap'[d] \in Unrecorded
    BY <1>3, CallSparesOthers DEF CallSpares
  <2>3. GivesWay(x, d) => GivesWay(x, d)'
    <3>1. relay.busy => relay'.busy
      BY CallGoesOn
    <3> QED  BY <1>c, <1>2, <1>3, <3>1 DEF GivesWay
  <2> QED  BY <1>1, <1>2, <2>1, <2>2, <2>3 DEF StartsApart
<1>4. CASE d = c
  <2>1. x \in relay.batch /\ x \in relay'.batch /\ ~ relay.resuming
    BY <1>c, <1>1, <1>4 DEF Executes
  <2>2. OfType(c, { "CONFIG_UPDATE" })
    BY <1>c, <2>1 DEF TakenInOrder, AtHand
  <2>3. CASE relay'.command = c \/ relay'.busy
    BY <1>4, <2>1, <2>3 DEF GivesWay
  <2>4. CASE relay.at = "report"
    <3>1. /\ UNCHANGED << work, marker >>
          /\ mishap[c] \in Unrecorded => mishap'[c] \in Unrecorded
      BY <1>c, <2>4 DEF Calls, Inspect, Authorize, Act, Record, Report, Clear, Unrecorded
    <3>2. Recorded(c)
      BY <1>4, <3>1, CallSparesOthers DEF CallSpares, Recorded, Own
    <3>3. Remembered(c)
      BY <2>1, <2>4 DEF Remembered, Executes
    <3>4. mishap[c] \in Unrecorded
      BY <1>c, <2>2, <3>2, <3>3 DEF AnswersAreKept, Recorded
    <3> QED  BY <1>4, <3>1, <3>4
  <2>5. relay.at # "clear"
    BY <1>4, CallSparesOthers DEF CallSpares, Recorded, Orderly, WorkIsUnanswered
  <2> QED  BY <1>c, <2>1, <2>3, <2>4, <2>5, CallGoesOn
<1> QED  BY <1>3, <1>4

LEMMA CallApart == ASSUME Orderly, Apart, Calls PROVE Apart'
BY CallTaken, CallDeletions, CallAnswers, CallStarts DEF Apart

\* Whatever else happens: no record is made and nothing is started.
Quiet ==
    /\ UNCHANGED << order, marker, starts >>
    /\ \A c \in Commands :
          /\ Open(c)' => Open(c)
          /\ work'[c] = "running" => work[c] = "running"
          /\ work[c] # "none" => work'[c] # "none"
          /\ cache'[c] \in { "none", cache[c] }
          /\ mishap'[c] = mishap[c] \/ mishap'[c] \in Unrecorded
    /\ \/ UNCHANGED relay
       \/ /\ relay'.batch = {}
          /\ \A c \in Commands : ~ Executes(c, Steps)'
          /\ relay'.at # "record"
          /\ relay'.command \in { None, marker.command }
          /\ relay.at = "record" /\ ~ Own(relay.command) =>
                mishap'[relay.command] \in Unrecorded

LEMMA QuietApart == ASSUME Orderly, Apart, Quiet PROVE Apart'
<1> USE Pieces DEF Apart, Quiet
<1>1. \A c, d \in Commands : Before(c, d)' <=> Before(c, d)
  BY DEF Before
<1>2. TakenInOrder'
  <2>1. \A c \in Commands : Untouched(c) => Untouched(c)'
    BY DEF Untouched, Held, Own
  <2>2. \A b \in Commands, d \in relay'.batch : AtHand(b, d)' => AtHand(b, d)
    BY DEF AtHand, Before
  <2> QED  BY <2>1, <2>2, TakenKept
<1>3. DeletionsAreKnown'
  <2>1. marker'.phase = "running" /\ marker'.started => work'[marker'.command] # "none"
    BY DEF DeletionsAreKnown
  <2>2. relay'.at = "record" => UNCHANGED relay /\ relay.command \in Commands
    OBVIOUS
  <2>3. ASSUME NEW c \in Commands, Open(c), ~ Careful(c), work[c] = "running", ~ Own(c)
        PROVE  \/ mishap'[c] \in Unrecorded
               \/ relay'.command = c /\ relay'.at = "record" /\ relay'.outcome = "running"
    BY <2>3 DEF DeletionsAreKnown
  <2> QED  BY <2>1, <2>2, <2>3 DEF DeletionsAreKnown, Careful, OfType, Own
<1>4. AnswersAreKept'
  <2>1. \A c \in Commands : Remembered(c)' => Remembered(c)
    BY DEF Remembered, Executes, Steps
  <2> QED  BY <2>1 DEF AnswersAreKept, OfType, Own
<1>5. StartsApart'
  <2>1. \A d \in Commands : Recorded(d)' => Recorded(d)
    BY DEF Recorded, Own
  <2>2. CASE UNCHANGED relay
    BY <1>1, <2>1, <2>2 DEF StartsApart, OfType, GivesWay, Executes
  <2>3. CASE relay'.batch = {} /\ \A c \in Commands : ~ Executes(c, Steps)'
    BY <2>3 DEF StartsApart, Executes, Steps
  <2> QED  BY <2>2, <2>3
<1> QED  BY <1>2, <1>3, <1>4, <1>5

LEMMA QuietSteps ==
    ASSUME Orderly,
           \/ Poll \/ Resume \/ EndPoll \/ ColdStart \/ CutOff \/ UNCHANGED vars
           \/ \E c \in Commands : Requeue(c) \/ Park(c) \/ GiveUp(c) \/ Finish(c)
    PROVE  Quiet
<1> USE Pieces, AsleepFields
<1>t. /\ cache \in [ Commands -> { "none", "ok", "failed" } ]
      /\ mishap \in [ Commands -> Mishaps ] /\ work \in [ Commands -> Outcomes ]
      /\ job \in [ Commands -> Rows ]
  BY DEF Orderly, TypeOK
<1>1. CASE Poll
  <2>1. /\ relay'.at = "resume" /\ relay'.batch = {} /\ relay'.command = None
        /\ relay.at = "idle"
    BY <1>1 DEF Poll, Asleep
  <2> QED  BY <1>1, <2>1 DEF Poll, Quiet, Open, Executes
<1>2. CASE Resume
  <2>1. relay.at = "resume" /\ relay.resuming /\ relay.batch = {}
    BY <1>2 DEF Resume, Orderly, RelayInOrder
  <2>2. CASE Done
    BY <1>2, <2>1, <2>2, AfterFields DEF Resume, Quiet, Open, Executes, Orderly
  <2>3. CASE /\ marker # NoMarker
             /\ relay' = [ relay EXCEPT
                   !.command = marker.command,
                   !.outcome = IF marker.phase = "running" THEN "none"
                               ELSE IF marker.ok THEN "ok" ELSE "failed",
                   !.at = IF marker.phase = "settled" THEN "report"
                          ELSE ResumesAt(marker.command) ]
    <3>1. marker.command \in Commands
      BY <2>3 DEF Orderly, TypeOK
    <3>2. ResumesAt(marker.command) \in { "authorize", "act" }
      BY <3>1, TypeAssumption
         DEF ResumesAt, InstallResumesAt, DeployResumesAt, RestartResumesAt,
             ConfigResumesAt, DestroyResumesAt, PurgeResumesAt
    <3>3. /\ relay'.resuming /\ relay'.batch = {} /\ relay'.command = marker.command
          /\ relay'.at \in { "report", "authorize", "act" }
      BY <2>1, <2>3, <3>2 DEF Invocations
    <3> QED  BY <1>2, <2>1, <3>3 DEF Resume, Quiet, Open, Executes
  <2> QED  BY <1>2, <2>2, <2>3 DEF Resume
<1>3. CASE EndPoll
  BY <1>3 DEF EndPoll, Quiet, Open, Executes
<1>4. CASE ColdStart
  BY <1>4 DEF ColdStart, Quiet, Open
<1>5. CASE CutOff
  <2>1. /\ UNCHANGED << job, order, work, marker, starts >> /\ relay' = Asleep
        /\ cache' = [ c \in Commands |-> "none" ]
        /\ \A c \in Commands : mishap'[c] = mishap[c] \/ mishap'[c] = "cut off"
        /\ relay.at = "record" /\ ~ Own(relay.command) => mishap'[relay.command] = "cut off"
    BY <1>5, <1>t DEF CutOff
  <2> QED  BY <2>1 DEF Quiet, Open, Executes, Unrecorded
<1>6. ASSUME NEW c \in Commands, Requeue(c) \/ Park(c) \/ GiveUp(c) PROVE Quiet
  <2>1. UNCHANGED << order, work, marker, relay, cache, starts, mishap >>
    BY <1>6 DEF Requeue, Park, GiveUp
  <2>2. \A d \in Commands : Open(d)' => Open(d)
    BY <1>6, <1>t DEF Requeue, Park, GiveUp, Open, Active, InFlight
  <2> QED  BY <2>1, <2>2 DEF Quiet
<1>7. ASSUME NEW c \in Commands, Finish(c) PROVE Quiet
  <2>1. /\ UNCHANGED << job, order, marker, relay, cache, starts, mishap >>
        /\ \A d \in Commands : /\ work'[d] = "running" => work[d] = "running"
                               /\ work[d] # "none" => work'[d] # "none"
    BY <1>7, <1>t DEF Finish
  <2> QED  BY <2>1 DEF Quiet, Open
<1>8. CASE UNCHANGED vars
  BY <1>8 DEF vars, Quiet, Open
<1> QED  BY <1>1, <1>2, <1>3, <1>4, <1>5, <1>6, <1>7, <1>8

\* A fetch takes everything that is open, a CONFIG_UPDATE only if it is the
\* oldest, or nothing.
LEMMA FetchTakes ==
    ASSUME Orderly, Fetch
    PROVE  /\ UNCHANGED << order, work, marker, cache, starts, mishap >>
           /\ relay'.at \in { "next", "idle" } /\ ~ relay'.resuming /\ relay'.command = None
           /\ relay.command = None /\ relay.at = "fetch"
           /\ \A c \in Commands : Open(c)' <=> Open(c)
           /\ relay'.batch \subseteq Commands
           /\ \A c \in relay'.batch :
                 /\ Open(c)
                 /\ OfType(c, { "CONFIG_UPDATE" }) =>
                       \A d \in Commands \ { c } : Open(d) => Before(c, d)
           /\ relay'.batch # {} => \A c \in Commands :
                 Open(c) /\ (OfType(c, { "CONFIG_UPDATE" }) =>
                                \A d \in Commands \ { c } : Open(d) => Before(c, d))
                 => c \in relay'.batch
<1> DEFINE running == \E c \in Commands : job[c].state = "RUNNING"
           offered == { c \in Commands : job[c].state \in Active \ { "RUNNING" } }
           batch == { c \in offered : MayClaim(c, running, offered) }
<1>1. /\ relay.at = "fetch"
      /\ job' = [ c \in Commands |-> IF c \in batch
                                     THEN [ job[c] EXCEPT !.state = "RUNNING" ] ELSE job[c] ]
      /\ relay' = [ relay EXCEPT !.at = "next", !.batch = batch ] \/ relay' = Asleep
      /\ UNCHANGED << order, work, marker, cache, starts, mishap >>
  BY DEF Fetch
<1>2. ~ relay.resuming /\ relay.command = None /\ relay \in Invocations
      /\ job \in [ Commands -> Rows ]
  BY <1>1, Pieces DEF Orderly, TypeOK, RelayInOrder
<1>3. \A c \in Commands : Open(c)' <=> Open(c)
  <2>1. \A c \in batch : job[c].state \in Active /\ job'[c].state = "RUNNING"
    BY <1>1, <1>2 DEF Rows
  <2>2. \A c \in Commands \ batch : job'[c] = job[c]
    BY <1>1
  <2> QED  BY <2>1, <2>2 DEF Open, Active, InFlight
<1>4. \A c \in batch : /\ Open(c) /\ ~ running
                       /\ OfType(c, { "CONFIG_UPDATE" }) => Oldest(c, offered)
  BY DEF MayClaim, Open
<1>5. ~ running => \A c \in Commands : Open(c) <=> c \in offered
  BY DEF Open, Active
<1>6. \A c \in Commands : Oldest(c, offered) <=>
         c \in offered /\ \A d \in offered \ { c } : Before(c, d)
  BY DEF Oldest
<1>7. ASSUME ~ running, NEW c \in Commands, Open(c),
             OfType(c, { "CONFIG_UPDATE" }) => \A d \in Commands \ { c } : Open(d) => Before(c, d)
      PROVE  c \in batch
  BY <1>5, <1>6, <1>7 DEF MayClaim
<1>8. CASE relay' = [ relay EXCEPT !.at = "next", !.batch = batch ]
  <2>1. /\ relay'.at = "next" /\ relay'.batch = batch /\ ~ relay'.resuming
        /\ relay'.command = None
    BY <1>2, <1>8 DEF Invocations
  <2>2. batch # {} => ~ running
    BY <1>4
  <2> HIDE DEF running, offered, batch
  <2>3. batch \subseteq Commands
    BY DEF batch, offered
  <2> QED  BY <1>1, <1>2, <1>3, <1>4, <1>5, <1>6, <1>7, <2>1, <2>2, <2>3
<1>9. CASE relay' = Asleep
  BY <1>1, <1>2, <1>3, <1>9, AsleepFields
<1> QED  BY <1>1, <1>8, <1>9

LEMMA FetchApart == ASSUME Orderly, Apart, Fetch PROVE Apart'
<1> USE FetchTakes DEF Apart
<1>t. /\ None \notin Commands /\ TypeOK
      /\ \A c \in Commands : Open(c) => job[c].state # "NONE"
  BY Pieces DEF Orderly, Open, Active, InFlight
<1>1. \A c, d \in Commands : Before(c, d)' <=> Before(c, d)
  BY DEF Before
<1>2. TakenInOrder'
  <2>1. ASSUME NEW c \in Commands, NEW d \in relay'.batch, AtHand(c, d)'
        PROVE  OfType(c, { "CONFIG_UPDATE" }) /\ OfType(d, { "DEPLOY_RELEASE" })
    <3>1. c \in relay'.batch /\ Before(c, d) /\ Open(c) /\ Open(d) /\ d \in Commands
      BY <1>t, <1>1, <2>1 DEF AtHand
    <3>2. ~ Before(d, c) /\ c # d
      BY <1>t, <3>1, BeforeOnce
    <3>3. ~ OfType(d, { "CONFIG_UPDATE" })
      BY <3>1, <3>2
    <3> QED  BY <3>1, <3>3 DEF TakenInOrder
  <2>2. ASSUME NEW c \in Commands, NEW d \in Commands, OfType(d, { "CONFIG_UPDATE" }),
               ~ Untouched(d)', Open(c)
        PROVE  ~ Before(c, d)
    <3>1. CASE d \in relay'.batch
      <4>1. CASE c = d
        BY <1>t, <4>1, BeforeOnce
      <4>2. CASE c # d
        <5>1. Before(d, c)
          BY <2>2, <3>1, <4>2
        <5> QED  BY <1>t, <5>1, BeforeOnce
      <4> QED  BY <4>1, <4>2
    <3>2. CASE d \notin relay'.batch
      <4>1. ~ Untouched(d)
        BY <1>t, <2>2, <3>2 DEF Untouched, Held, Own
      <4> QED  BY <2>2, <4>1 DEF TakenInOrder
    <3> QED  BY <3>1, <3>2
  <2> QED  BY <1>1, <2>1, <2>2 DEF TakenInOrder, OfType
<1>3. DeletionsAreKnown'
  BY DEF DeletionsAreKnown, Careful, OfType, Own
<1>4. AnswersAreKept'
  BY DEF AnswersAreKept, OfType, Own, Remembered, Executes
<1>5. StartsApart'
  <2> SUFFICES ASSUME NEW x \in Commands, NEW d \in Commands, x # d, Recorded(d)',
                      x \in relay'.batch \/ Executes(x, { "inspect", "authorize", "act" })'
               PROVE  \/ OfType(x, { "CONFIG_UPDATE" }) /\ Before(x, d)'
                      \/ GivesWay(x, d)'
    BY DEF StartsApart, OfType
  <2>1. x \in relay'.batch /\ Open(x) /\ Recorded(d) /\ Open(d) /\ Own(d)
    BY DEF Executes, Recorded, Own
  <2>2. CASE OfType(d, { "CONFIG_UPDATE" })
    <3>1. \A e \in Commands \ { d } : Open(e) => Before(d, e)
      <4> SUFFICES ASSUME NEW e \in Commands \ { d }, Open(e) PROVE Before(d, e)
        OBVIOUS
      <4>1. ~ Before(e, d)
        BY <2>1, <2>2 DEF TakenInOrder, Untouched, Held
      <4> QED  BY <1>t, <2>1, <4>1, BeforeTotal
    <3>2. d \in relay'.batch
      BY <2>1, <3>1
    <3> QED  BY <1>1, <2>1, <3>1, <3>2 DEF GivesWay
  <2>3. CASE ~ OfType(d, { "CONFIG_UPDATE" })
    <3>1. d \in relay'.batch
      BY <2>1, <2>3
    <3>2. CASE Before(d, x)
      BY <1>1, <2>1, <3>1, <3>2 DEF GivesWay
    <3>3. CASE Before(x, d)
      <4>1. OfType(x, { "CONFIG_UPDATE" })
        BY <2>1, <2>3, <3>3 DEF TakenInOrder
      <4> QED  BY <1>1, <3>3, <4>1
    <3> QED  BY <1>t, <2>1, <3>2, <3>3, BeforeTotal
  <2> QED  BY <2>2, <2>3
<1> QED  BY <1>2, <1>3, <1>4, <1>5

LEMMA ReleaseApart == ASSUME Orderly, Apart, Release PROVE Apart'
<1> USE Pieces DEF Apart
<1>1. PICK b \in relay.batch :
        /\ relay.at = "next" /\ relay.busy /\ relay' = [ relay EXCEPT !.batch = @ \ { b } ]
        /\ \/ job[b].state = "RUNNING" /\ job' = [ job EXCEPT ![b].state = "REQUESTED" ]
           \/ UNCHANGED job
        /\ UNCHANGED << order, work, marker, cache, starts, mishap >>
  BY DEF Release
<1>2. /\ relay'.at = "next" /\ relay'.busy /\ relay'.batch = relay.batch \ { b }
      /\ relay'.command = relay.command /\ relay'.resuming = relay.resuming
  BY <1>1 DEF Invocations
<1>3. \A c \in Commands : Open(c)' <=> Open(c)
  <2>1. CASE job[b].state = "RUNNING" /\ job' = [ job EXCEPT ![b].state = "REQUESTED" ]
    <3>1. job'[b].state = "REQUESTED" /\ \A c \in Commands \ { b } : job'[c] = job[c]
      BY <2>1 DEF Orderly, TypeOK, Rows
    <3> QED  BY <2>1, <3>1 DEF Open, Active, InFlight
  <2>2. CASE UNCHANGED job
    BY <2>2 DEF Open
  <2> QED  BY <1>1, <2>1, <2>2
<1>4. UNCHANGED << order, work, marker, cache, starts, mishap >> /\ relay.at = "next"
  BY <1>1
<1>5. \A c, d \in Commands : Before(c, d)' <=> Before(c, d)
  BY <1>4 DEF Before
<1>6. TakenInOrder'
  <2>1. \A c \in Commands : Untouched(c) => Untouched(c)'
    BY <1>2, <1>4 DEF Untouched, Held, Own
  <2>2. \A c \in Commands, d \in relay'.batch : AtHand(c, d)' => AtHand(c, d)
    BY <1>2, <1>5 DEF AtHand
  <2> QED  BY <1>2, <1>3, <1>4, <2>1, <2>2, TakenKept
<1>7. DeletionsAreKnown'
  BY <1>2, <1>3, <1>4 DEF DeletionsAreKnown, Careful, OfType, Own
<1>8. AnswersAreKept'
  BY <1>2, <1>3, <1>4 DEF AnswersAreKept, OfType, Own, Remembered, Executes
<1>9. StartsApart'
  BY <1>2, <1>3, <1>4, <1>5 DEF StartsApart, Recorded, OfType, Own, GivesWay, Executes
<1> QED  BY <1>6, <1>7, <1>8, <1>9

\* What is executed next comes before the rest of the batch.
LEMMA DispatchApart == ASSUME Orderly, Apart, Dispatch PROVE Apart'
<1> USE Pieces DEF Apart
<1>1. PICK b \in relay.batch :
        /\ relay.at = "next" /\ ~ relay.busy /\ Oldest(b, relay.batch)
        /\ relay' = [ relay EXCEPT
             !.batch = @ \ { b }, !.command = b, !.outcome = cache[b],
             !.at = IF cache[b] # "none" THEN "report"
                    ELSE IF Careful(b) THEN "inspect" ELSE "act" ]
        /\ UNCHANGED << job, order, work, marker, cache, starts, mishap >>
  BY DEF Dispatch
<1>2. /\ relay'.batch = relay.batch \ { b } /\ relay'.command = b
      /\ relay'.resuming = relay.resuming
      /\ relay'.at \in { "report", "inspect", "act" }
      /\ relay'.at = "report" => cache[b] # "none"
      /\ \A c \in relay.batch \ { b } : Before(b, c)
      /\ b \in Commands /\ b \in relay.batch
  BY <1>1 DEF Invocations, Oldest
<1>3. \A c \in Commands : Open(c)' <=> Open(c)
  BY <1>1 DEF Open
<1>4. /\ UNCHANGED << order, work, marker, cache, starts, mishap >> /\ relay.at = "next"
      /\ ~ relay.busy /\ relay.command = None /\ ~ relay.resuming
  BY <1>1 DEF Orderly, RelayInOrder
<1>5. \A c, d \in Commands : Before(c, d)' <=> Before(c, d)
  BY <1>4 DEF Before
<1>6. TakenInOrder'
  <2>1. \A c \in Commands : Untouched(c) => Untouched(c)'
    BY <1>2, <1>4 DEF Untouched, Held, Own
  <2>2. \A c \in Commands, d \in relay'.batch : AtHand(c, d)' => AtHand(c, d)
    BY <1>2, <1>5 DEF AtHand
  <2> QED  BY <1>2, <1>3, <1>4, <2>1, <2>2, TakenKept
<1>7. DeletionsAreKnown'
  BY <1>2, <1>3, <1>4 DEF DeletionsAreKnown, Careful, OfType, Own
<1>8. AnswersAreKept'
  <2>1. \A c \in Commands : Remembered(c)' => Remembered(c)
    BY <1>2, <1>4 DEF Remembered, Executes
  <2> QED  BY <1>3, <1>4, <2>1 DEF AnswersAreKept, OfType, Own
<1>9. StartsApart'
  <2> SUFFICES ASSUME NEW x \in Commands, NEW d \in Commands, x # d, Recorded(d),
                      x \in relay.batch
               PROVE  \/ mishap[d] \in Unrecorded
                      \/ OfType(x, { "CONFIG_UPDATE" }) /\ Before(x, d)
                      \/ GivesWay(x, d)'
    BY <1>2, <1>3, <1>4, <1>5 DEF StartsApart, OfType, Executes, Recorded, Own
  <2>1. \/ mishap[d] \in Unrecorded
        \/ OfType(x, { "CONFIG_UPDATE" }) /\ Before(x, d)
        \/ d \in relay.batch /\ Before(d, x)
    BY <1>4 DEF StartsApart, GivesWay
  <2>2. ASSUME d \in relay.batch, Before(d, x) PROVE GivesWay(x, d)'
    <3>1. x # b
      BY <1>2, <2>2, BeforeOnce DEF Orderly
    <3> QED  BY <1>2, <1>5, <2>2, <3>1 DEF GivesWay
  <2> QED  BY <2>1, <2>2
<1> QED  BY <1>6, <1>7, <1>8, <1>9

\* A CONFIG_UPDATE may be requested at any time, a DEPLOY_RELEASE behind one.
LEMMA RequestApart == ASSUME Orderly, Apart, NEW r \in Commands, Request(r) PROVE Apart'
<1> USE Pieces DEF Apart
<1>1. /\ job[r].state = "NONE" /\ order' = Append(order, r)
      /\ UNCHANGED << work, marker, relay, cache, starts, mishap >>
      /\ \A d \in Commands \ { r } : Open(d)' =>
            /\ Open(d)
            /\ \/ OfType(r, { "CONFIG_UPDATE" })
               \/ OfType(d, { "CONFIG_UPDATE" }) /\ OfType(r, { "DEPLOY_RELEASE" })
  BY DEF Request, Orderly, TypeOK, Open, OfType, Active, InFlight
<1>2. Untouched(r) /\ relay.command # r /\ r \notin relay.batch /\ work[r] = "none" /\ ~ Own(r)
  BY <1>1 DEF Orderly, TracesHaveRows, Untouched, Held
<1>3. /\ \A c, d \in Commands : Before(c, d) => Before(c, d)'
      /\ \A c, d \in Commands : d # r /\ Before(c, d)' => Before(c, d)
      /\ \A c \in Commands : Open(c) => Before(c, r)' /\ ~ Before(r, c)'
  BY <1>1, OrderGrows, AppendedIsLast DEF Orderly, Open, Active, InFlight
<1>4. TakenInOrder'
  <2>1. ASSUME NEW c \in Commands, NEW d \in Commands, Open(c)', Open(d)', Before(c, d)'
        PROVE  \/ OfType(d, { "CONFIG_UPDATE" })
               \/ OfType(c, { "CONFIG_UPDATE" }) /\ OfType(d, { "DEPLOY_RELEASE" })
    <3>1. CASE d = r
      <4>1. c # r
        BY <1>1, <2>1, <3>1, AppendedIsLast DEF Orderly
      <4> QED  BY <1>1, <2>1, <3>1, <4>1
    <3>2. CASE d # r
      <4>1. Before(c, d) /\ Open(d) /\ c # r
        BY <1>1, <1>3, <2>1, <3>2
      <4> QED  BY <1>1, <2>1, <4>1 DEF TakenInOrder
    <3> QED  BY <3>1, <3>2
  <2>2. \A c \in Commands, d \in relay.batch : AtHand(c, d)' => AtHand(c, d)
    BY <1>1, <1>2, <1>3 DEF AtHand
  <2>3. \A d \in Commands : Untouched(d)' <=> Untouched(d)
    BY <1>1 DEF Untouched, Held, Own
  <2>4. ASSUME NEW c \in Commands, NEW d \in Commands, OfType(d, { "CONFIG_UPDATE" }),
               ~ Untouched(d), Open(c)'
        PROVE  ~ Before(c, d)'
    <3>1. d # r
      BY <1>2, <2>4
    <3>2. CASE c = r
      BY <1>1, <1>3, <2>4, <3>1, <3>2, AppendedIsLast DEF Orderly
    <3>3. CASE c # r
      BY <1>1, <1>3, <2>4, <3>1, <3>3 DEF TakenInOrder
    <3> QED  BY <3>2, <3>3
  <2> QED  BY <1>1, <2>1, <2>2, <2>3, <2>4 DEF TakenInOrder, OfType
<1>5. DeletionsAreKnown'
  BY <1>1, <1>2 DEF DeletionsAreKnown, Careful, OfType, Own
<1>6. AnswersAreKept'
  BY <1>1, <1>2 DEF AnswersAreKept, OfType, Own, Remembered, Executes
<1>7. StartsApart'
  <2>1. \A d \in Commands : Recorded(d)' => Recorded(d) /\ d # r
    BY <1>1, <1>2 DEF Recorded, Own
  <2>2. \A x, d \in Commands : GivesWay(x, d) => GivesWay(x, d)'
    BY <1>1, <1>3 DEF GivesWay
  <2> QED  BY <1>1, <1>3, <2>1, <2>2 DEF StartsApart, OfType, Executes
<1> QED  BY <1>4, <1>5, <1>6, <1>7

LEMMA InitApart == Init => Apart
<1> SUFFICES ASSUME Init PROVE Apart
  OBVIOUS
<1>1. TakenInOrder
  BY AsleepFields DEF Init, TakenInOrder, AtHand, Before, Open, Active, InFlight
<1>2. DeletionsAreKnown
  BY AsleepFields, NoMarkerFields DEF Init, DeletionsAreKnown
<1>3. AnswersAreKept /\ StartsApart
  BY DEF Init, AnswersAreKept, StartsApart, Recorded
<1> QED  BY <1>1, <1>2, <1>3 DEF Apart

LEMMA StepApart == Orderly /\ Apart /\ [Next]_vars => Apart'
<1> SUFFICES ASSUME Orderly, Apart, [Next]_vars
             PROVE  Apart'
  OBVIOUS
<1>1. CASE Fetch \/ Release \/ Dispatch
  BY <1>1, FetchApart, ReleaseApart, DispatchApart
<1>2. CASE Calls
  BY <1>2, CallApart
<1>3. ASSUME NEW c \in Commands, Request(c)
      PROVE  Apart'
  BY <1>3, RequestApart
<1>4. CASE \/ Poll \/ Resume \/ EndPoll \/ ColdStart \/ CutOff \/ UNCHANGED vars
           \/ \E c \in Commands : Requeue(c) \/ Park(c) \/ GiveUp(c) \/ Finish(c)
  BY <1>4, QuietSteps, QuietApart
<1> QED  BY <1>1, <1>2, <1>3, <1>4 DEF Next, RelayStep, Calls

\* The inductive invariant of both parts.
LEMMA Invariance == Spec => [](Orderly /\ Apart)
<1>1. Init => Orderly /\ Apart
  BY InitOrderly, InitApart
<1>2. Orderly /\ Apart /\ [Next]_vars => Orderly' /\ Apart'
  BY StepOrderly, StepApart
<1> QED  BY <1>1, <1>2, PTL DEF Spec

-----------------------------------------------------------------------------
\* Between two invocations nothing is about to be recorded: every debt is on the
\* marker or was lost.
LEMMA OrderlyIsConsistent == Orderly /\ Apart => Consistent
<1> SUFFICES ASSUME Orderly, Apart, relay.at = "idle", NEW c \in Commands, Owed(c)
             PROVE  relay.command # c
  BY DEF Orderly, Consistent, DebtIsFindable, DebtsAreKnown, Owed
<1> QED  BY Pieces DEF Orderly, RelayInOrder

\* Types, and what the rows, the marker, the container and the relay's memory owe
\* each other, hold in every behaviour: what was started and is still to be
\* answered is found on the marker, or its loss is known, and what the relay is
\* about to start finds nothing recorded as running but what comes before it.
THEOREM Consistency == Spec => []Consistent
BY Invariance, OrderlyIsConsistent, PTL

\* A restart or a migration is started again only if its record was lost.
THEOREM NotRunTwiceHolds == Spec => NotRunTwice
<1>1. ASSUME Orderly, Next, NEW c \in Commands, RunsAgain(c)
      PROVE  mishap[c] \in Unrecorded
  <2>1. Act /\ relay.at = "act" /\ relay.command = c /\ MayStart(c) /\ starts[c] > 0
    BY <1>1, StartsAreActs DEF RunsAgain, Act
  <2>2. work[c] # "none"
    BY <1>1, <2>1 DEF Orderly, TracesHaveRows
  <2>3. ~ Own(c) /\ Careful(c)
    <3>1. ~ OnRecord(c) /\ Careful(c) /\ ~ OfType(c, { "INSTALL" })
      BY <1>1, <2>1, <2>2 DEF RunsAgain, MayStart, OfType, Careful, RestartMayStart, DeployMayStart
    <3> QED  BY <1>1, <3>1, Pieces DEF OnRecord, Own, Orderly, MarkerInOrder
  <2>4. Owed(c)
    BY <1>1, <2>1, <2>3 DEF Owed, Executes, BeforeAnswer, Orderly, WorkIsUnanswered, Act
  <2> QED  BY <1>1, <2>1, <2>2, <2>3, <2>4 DEF Orderly, DebtsAreKnown, RunsAgain, Act
<1>2. Orderly /\ [Next]_vars =>
        [ \A c \in Commands : RunsAgain(c) => mishap[c] \in Unrecorded ]_vars
  BY <1>1
<1> QED  BY <1>2, InitOrderly, StepOrderly, PTL DEF Spec, NotRunTwice

\* No mutation starts beside another one that is under way: what is running is
\* answered on the marker, or comes after a CONFIG_UPDATE, or lost its record.
THEOREM MutationsDoNotOverlapHolds == Spec => MutationsDoNotOverlap
<1>1. ASSUME Orderly, Apart, Next, NEW c \in Commands, NEW d \in Commands,
             starts'[c] > starts[c], d # c, work[d] = "running", Open(d),
             ~ (Own(d) /\ marker.phase = "settled"),
             ~ (OfType(c, { "CONFIG_UPDATE" }) /\ Before(c, d))
      PROVE  mishap[d] \in Unrecorded
  <2>1. relay.at = "act" /\ relay.command = c
    BY <1>1, StartsAreActs DEF Act
  <2>2. CASE Own(d)
    <3>1. ~ relay.resuming
      BY <1>1, <2>1, <2>2 DEF Orderly, WorkIsUnanswered, Own
    <3>2. Recorded(d)
      BY <1>1, <2>2, Pieces DEF Recorded, Own, Orderly, MarkerInOrder, Markers
    <3>3. ~ GivesWay(c, d)
      BY <1>1, <2>1, Pieces DEF GivesWay, Orderly, RelayInOrder
    <3> QED  BY <1>1, <2>1, <3>1, <3>2, <3>3 DEF Apart, StartsApart, Executes
  <2>3. CASE ~ Own(d)
    <3>1. starts[d] > 0
      <4>1. starts \in [ Commands -> 0 .. 2 ]
        BY <1>1 DEF Orderly, TypeOK
      <4> QED  BY <1>1, <4>1 DEF Orderly, TracesHaveRows
    <3>2. mishap[d] \in Unrecorded \/ ~ Careful(d)
      BY <1>1, <2>1, <2>3, <3>1 DEF Orderly, DebtsAreKnown, Owed
    <3> QED  BY <1>1, <2>1, <2>3, <3>2 DEF Apart, DeletionsAreKnown
  <2> QED  BY <2>2, <2>3
<1>2. Orderly /\ Apart /\ [Next]_vars =>
        [ \A c, d \in Commands :
            /\ starts'[c] > starts[c]
            /\ d # c /\ work[d] = "running" /\ Open(d)
            /\ ~ (Own(d) /\ marker.phase = "settled")
            /\ ~ (OfType(c, { "CONFIG_UPDATE" }) /\ Before(c, d))
            => mishap[d] \in Unrecorded ]_vars
  BY <1>1
<1> QED  BY <1>2, Invariance, PTL DEF Spec, MutationsDoNotOverlap

-----------------------------------------------------------------------------
(***************************************************************************)
(* RelayCommands implements CommandDelivery: a request, an end and an      *)
(* answer are the steps of the same name, a start is Begin, whatever else  *)
(* happens changes neither what the vendor is told nor the work.           *)
(***************************************************************************)

LEMMA AnswerOf ==
    ASSUME TypeOK, NEW c \in Commands
    PROVE  /\ answer[c] = "open" <=> Open(c)
           /\ answer[c] = "succeeded" <=> job[c].state = "SUCCEEDED"
           /\ answer[c] = "failed" <=> job[c].state = "FAILED"
           /\ answer[c] = "none" <=> job[c].state = "NONE"
<1>1. job[c].state \in Active \cup { "NONE", "SUCCEEDED", "FAILED" }
  BY DEF TypeOK, Rows
<1> QED  BY <1>1 DEF answer, Open, Active, InFlight

\* What is told of a command follows its row alone.
LEMMA AnswerKeeps ==
    ASSUME \A c \in Commands :
              \/ job'[c].state = job[c].state
              \/ job[c].state \in Active /\ job'[c].state \in Active
    PROVE  UNCHANGED answer
<1>1. ASSUME NEW c \in Commands PROVE answer'[c] = answer[c]
  <2>1. CASE job'[c].state = job[c].state
    BY <2>1 DEF answer, Active, InFlight
  <2>2. CASE job[c].state \in Active /\ job'[c].state \in Active
    BY <2>2 DEF answer, Active, InFlight
  <2> QED  BY <2>1, <2>2
<1> QED  BY <1>1 DEF answer

\* A command is answered, and no other one is.
LEMMA AnswerGiven ==
    ASSUME TypeOK, NEW c \in Commands, Open(c),
           NEW outcome \in { "SUCCEEDED", "FAILED" },
           job' = [ job EXCEPT ![c].state = outcome ]
    PROVE  /\ answer[c] = "open"
           /\ answer' = [ answer EXCEPT ![c] = IF outcome = "SUCCEEDED"
                                              THEN "succeeded" ELSE "failed" ]
<1>1. /\ job'[c].state = outcome
      /\ \A d \in Commands \ { c } : job'[d] = job[d]
  BY DEF TypeOK, Rows
<1>2. answer'[c] = IF outcome = "SUCCEEDED" THEN "succeeded" ELSE "failed"
  BY <1>1 DEF answer, Active, InFlight
<1>3. \A d \in Commands \ { c } : answer'[d] = answer[d]
  BY <1>1 DEF answer, Active, InFlight
<1>4. /\ answer = [ d \in Commands |-> answer[d] ]
      /\ answer' = [ d \in Commands |-> answer'[d] ]
  BY DEF answer
<1> QED  BY <1>2, <1>3, <1>4, AnswerOf

LEMMA RequestRefines ==
    ASSUME Orderly, NEW c \in Commands, Request(c)
    PROVE  Delivery!Request(c)
<1> DEFINE obsolete == { d \in Commands : /\ Open(d) /\ OfType(c, { "DESTROY" })
                                         /\ OfType(d, { "INSTALL" }) }
<1>1. TypeOK /\ job[c].state = "NONE" /\ UNCHANGED work
  BY DEF Orderly, Request
<1>2. /\ job'[c].state = "REQUESTED"
      /\ \A d \in obsolete : job'[d].state = "FAILED"
      /\ \A d \in Commands \ (obsolete \cup { c }) : job'[d] = job[d]
  BY <1>1 DEF Request, TypeOK, Rows, Open, Active, InFlight
<1>3. answer[c] = "none" /\ c \notin obsolete
      /\ obsolete \in SUBSET { d \in Commands : answer[d] = "open" }
  BY <1>1, AnswerOf DEF Open, Active, InFlight
<1>4. answer' = [ d \in Commands |-> IF d = c THEN "open"
                                     ELSE IF d \in obsolete THEN "failed" ELSE answer[d] ]
  <2>1. answer'[c] = "open"
    BY <1>2 DEF answer, Active
  <2>2. \A d \in obsolete : answer'[d] = "failed"
    BY <1>2 DEF answer, Active, InFlight
  <2>3. \A d \in Commands \ (obsolete \cup { c }) : answer'[d] = answer[d]
    BY <1>2 DEF answer
  <2> QED  BY <1>3, <2>1, <2>2, <2>3 DEF answer
<1> QED  BY <1>1, <1>3, <1>4 DEF Delivery!Request

LEMMA GiveUpRefines ==
    ASSUME Orderly, NEW c \in Commands, GiveUp(c)
    PROVE  Delivery!Fail(c)
BY AnswerGiven DEF Orderly, GiveUp, Open, Active, Delivery!Fail

LEMMA FinishRefines ==
    ASSUME Orderly, NEW c \in Commands, Finish(c)
    PROVE  Delivery!End(c)
<1>1. UNCHANGED answer
  BY AnswerKeeps DEF Finish
<1> QED  BY <1>1 DEF Finish, Delivery!End

LEMMA ActRefines ==
    ASSUME Orderly, Act
    PROVE  (\E c \in Commands : Delivery!Begin(c)) \/ UNCHANGED << answer, work >>
<1>1. UNCHANGED answer
  BY AnswerKeeps DEF Act
<1>2. CASE work' = work
  BY <1>1, <1>2
<1>3. CASE work' # work
  <2>1. /\ relay.at = "act" /\ MayStart(relay.command)
        /\ \E now \in Outcomes \ { "none" } : work' = [ work EXCEPT ![relay.command] = now ]
    BY <1>3 DEF Act
  <2>2. relay.command \in Commands
    BY <2>1, Pieces
  <2>3. answer[relay.command] \in { "open", "failed" }
    BY <2>1, <2>2, StartsUnearned, AnswerOf DEF Orderly, TypeOK, Rows, Open
  <2>4. Delivery!Begin(relay.command)
    BY <1>1, <2>1, <2>2, <2>3 DEF Delivery!Begin, Delivery!Works, Outcomes
  <2> QED  BY <2>2, <2>4
<1> QED  BY <1>2, <1>3

LEMMA ReportRefines ==
    ASSUME Orderly, Report
    PROVE  \/ \E c \in Commands : Delivery!Succeed(c) \/ Delivery!Fail(c)
           \/ UNCHANGED << answer, work >>
<1> DEFINE c == relay.command
<1>1. c \in Commands /\ relay.at = "report" /\ UNCHANGED work /\ TypeOK
  BY Pieces DEF Report, Orderly
<1>2. CASE UNCHANGED job
  BY <1>1, <1>2, AnswerKeeps
<1>3. CASE /\ Open(c)
           /\ job' = [ job EXCEPT ![c].state = IF relay.outcome = "ok"
                                               THEN "SUCCEEDED" ELSE "FAILED" ]
  <2>1. CASE relay.outcome = "ok"
    <3>1. Earned(c)
      BY <1>1, <2>1 DEF Orderly, AnswersAreEarned
    <3>2. answer[c] = "open" /\ answer' = [ answer EXCEPT ![c] = "succeeded" ]
      BY <1>1, <1>3, <2>1, AnswerGiven
    <3> QED  BY <1>1, <3>1, <3>2 DEF Delivery!Succeed, Earned
  <2>2. CASE relay.outcome # "ok"
    <3>1. answer[c] = "open" /\ answer' = [ answer EXCEPT ![c] = "failed" ]
      BY <1>1, <1>3, <2>2, AnswerGiven
    <3> QED  BY <1>1, <3>1 DEF Delivery!Fail
  <2> QED  BY <2>1, <2>2
<1> QED  BY <1>2, <1>3 DEF Report, TakesAnswer

\* The steps that neither answer nor start anything.
LEMMA OthersStutter ==
    ASSUME Orderly,
           \/ Poll \/ Resume \/ Fetch \/ EndPoll \/ Release \/ Dispatch \/ Inspect
           \/ Authorize \/ Record \/ Clear \/ ColdStart \/ CutOff \/ UNCHANGED vars
           \/ \E c \in Commands : Requeue(c) \/ Park(c)
    PROVE  UNCHANGED << answer, work >>
<1>1. UNCHANGED work
  BY DEF Poll, Resume, Fetch, EndPoll, Release, Dispatch, Inspect, Authorize, Record, Clear,
         ColdStart, CutOff, Requeue, Park, vars
<1>2. CASE UNCHANGED job
  BY <1>1, <1>2, AnswerKeeps
<1>3. CASE Fetch
  BY <1>1, <1>3, AnswerKeeps DEF Fetch, Active, InFlight, Orderly, TypeOK, Rows
<1>4. CASE Release
  <2>1. CASE UNCHANGED job
    BY <1>1, <2>1, AnswerKeeps
  <2>2. ASSUME NEW c \in Commands, job[c].state = "RUNNING",
               job' = [ job EXCEPT ![c].state = "REQUESTED" ]
        PROVE  UNCHANGED answer
    <3>1. job'[c].state = "REQUESTED" /\ \A d \in Commands \ { c } : job'[d] = job[d]
      BY <2>2 DEF Orderly, TypeOK, Rows
    <3> QED  BY <2>2, <3>1, AnswerKeeps DEF Active, InFlight
  <2> QED  BY <1>1, <1>4, <2>1, <2>2, Pieces DEF Release
<1>5. ASSUME NEW c \in Commands, Requeue(c) \/ Park(c)
      PROVE  UNCHANGED << answer, work >>
  <2>1. /\ job[c].state \in Active /\ job'[c].state \in Active
        /\ \A d \in Commands \ { c } : job'[d] = job[d]
    BY <1>5 DEF Requeue, Park, Active, InFlight, Orderly, TypeOK, Rows
  <2> QED  BY <1>1, <2>1, AnswerKeeps
<1> QED  BY <1>2, <1>3, <1>4, <1>5
         DEF Poll, Resume, EndPoll, Dispatch, Inspect, Authorize, Record, Clear, ColdStart,
             CutOff, vars

\* Every command is answered once, with a success only for work that succeeded and
\* after which nothing starts, whatever is lost, cut off, repeated or given up.
THEOREM DeliveryKeptHolds == Spec => DeliveryKept
<1>1. Init => Delivery!Init
  BY DEF Init, Delivery!Init, answer, Active, InFlight
<1>2. Orderly /\ [Next]_vars => [Delivery!Next]_(Delivery!vars)
  <2> SUFFICES ASSUME Orderly, [Next]_vars
               PROVE  Delivery!Next \/ UNCHANGED << answer, work >>
    BY DEF Delivery!vars
  <2>1. CASE RelayStep
    BY <2>1, OthersStutter, ActRefines, ReportRefines DEF RelayStep, Delivery!Next
  <2>2. CASE ColdStart \/ CutOff \/ UNCHANGED vars
    BY <2>2, OthersStutter
  <2>3. ASSUME NEW c \in Commands, Request(c) \/ GiveUp(c) \/ Finish(c)
        PROVE  Delivery!Next
    BY <2>3, RequestRefines, GiveUpRefines, FinishRefines DEF Delivery!Next
  <2>4. ASSUME NEW c \in Commands, Requeue(c) \/ Park(c)
        PROVE  UNCHANGED << answer, work >>
    BY <2>4, OthersStutter
  <2> QED  BY <2>1, <2>2, <2>3, <2>4 DEF Next
<1> QED  BY <1>1, <1>2, InitOrderly, StepOrderly, PTL DEF Spec, DeliveryKept, Delivery!Spec

=============================================================================
