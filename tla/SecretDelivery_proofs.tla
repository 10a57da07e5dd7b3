----------------------- MODULE SecretDelivery_proofs -----------------------
(***************************************************************************)
(* Proofs about SecretDelivery, for every set of deployments and every     *)
(* number of saves and faults.                                             *)
(***************************************************************************)
EXTENDS SecretDelivery, SequenceTheorems, TLAPS

\* The types of what one deployment has.
LEMMA Typed ==
    ASSUME TypeOK, NEW d \in Deployments
    PROVE  /\ dep[d] \in States /\ latest \in Nat /\ staged \in Nat
           /\ bound[d] \in Nat /\ store[d] \in Nat
           /\ jobs[d] \in Seq(JobRows) /\ DOMAIN jobs[d] = 1 .. Len(jobs[d])
           /\ Len(jobs[d]) \in Nat
           /\ \A i \in DOMAIN jobs[d] :
                 /\ i \in Nat /\ jobs[d][i] \in JobRows /\ jobs[d][i].value \in Nat
                 /\ jobs[d][i].names \in BOOLEAN /\ jobs[d][i].sealed \in BOOLEAN
                 /\ jobs[d][i].state \in { "offered", "claimed", "done", "failed" }
           /\ relay[d] \in Turns /\ relay[d].job \in Nat /\ relay[d].value \in Nat
           /\ relay[d].fetched \in Nat /\ relay[d].omitted \in BOOLEAN
           /\ relay[d].ok \in BOOLEAN
           /\ relay[d].at \in { "idle", "fetch", "write", "report" }
<1>1. jobs[d] \in Seq(JobRows)
  BY DEF TypeOK
<1>2. /\ DOMAIN jobs[d] = 1 .. Len(jobs[d]) /\ Len(jobs[d]) \in Nat
      /\ \A i \in DOMAIN jobs[d] : i \in Nat /\ jobs[d][i] \in JobRows
  BY <1>1
<1>3. \A j \in JobRows :
         /\ j.value \in Nat /\ j.names \in BOOLEAN /\ j.sealed \in BOOLEAN
         /\ j.state \in { "offered", "claimed", "done", "failed" }
  BY BoundsAssumption DEF JobRows, Values
<1>4. relay[d] \in Turns
  BY DEF TypeOK
<1>5. \A t \in Turns :
         /\ t.job \in Nat /\ t.value \in Nat /\ t.fetched \in Nat
         /\ t.omitted \in BOOLEAN /\ t.ok \in BOOLEAN
         /\ t.at \in { "idle", "fetch", "write", "report" }
  BY BoundsAssumption DEF Turns, Values
<1>6. /\ dep[d] \in States /\ latest \in Nat /\ staged \in Nat
      /\ bound[d] \in Nat /\ store[d] \in Nat
  BY BoundsAssumption DEF TypeOK, Values
<1>7. QED  BY <1>1, <1>2, <1>3, <1>4, <1>5, <1>6

LEMMA QueueTyped ==
    ASSUME TypeOK
    PROVE  /\ queue \in Seq(1 .. MaxValues) /\ DOMAIN queue = 1 .. Len(queue)
           /\ Len(queue) \in Nat
           /\ \A n \in DOMAIN queue : n \in Nat /\ queue[n] \in Nat /\ queue[n] # 0
BY BoundsAssumption DEF TypeOK

LEMMA RestingFields ==
    /\ Resting \in Turns
    /\ Resting.at = "idle" /\ Resting.job = 0 /\ Resting.value = 0
    /\ Resting.fetched = 0 /\ Resting.omitted = FALSE /\ Resting.ok = FALSE
BY BoundsAssumption DEF Resting, Turns, Values

LEMMA FaultsBounded == ASSUME TypeOK, Fault \/ NoFault PROVE faults' \in 0 .. MaxFaults
BY BoundsAssumption DEF TypeOK, Fault, NoFault

\* A deployment stays coherent when nothing of it changes.
Same(d) ==
    /\ UNCHANGED << dep[d], bound[d], jobs[d], relay[d], store[d] >>
    /\ d \in creating' <=> d \in creating
    /\ d \in owed' <=> d \in owed
    /\ d \in vaulted' <=> d \in vaulted
    /\ d \in told' <=> d \in told
    /\ d \in dropped' <=> d \in dropped
    /\ d \in cut' <=> d \in cut

LEMMA SameFacts ==
    ASSUME NEW d \in Deployments, Same(d), UNCHANGED << latest, queue >>
    PROVE  /\ Coming(d)' = Coming(d) /\ Older(d)' = Older(d)
           /\ Arrived(d)' = Arrived(d) /\ WillFetch(d)' = WillFetch(d)
BY DEF Same, Coming, Older, Arrived, WillFetch, OpenJob, InQueue, Fresh

LEMMA Untouched ==
    ASSUME NEW d \in Deployments, Coherent(d), Same(d), UNCHANGED << latest, queue, save >>,
           staged' = staged \/ d \notin creating
    PROVE  Coherent(d)'
<1> USE DEF Same
<1>1. JobsInOrder(d)' /\ InstallsInOrder(d)'
  BY DEF Coherent, JobsInOrder, InstallsInOrder
<1>2. TurnsInOrder(d)' /\ StaleRowGoes(d)'
  BY DEF Coherent, TurnsInOrder, StaleRowGoes, OpenJob
<1>3. ASSUME PromptQueue PROVE MessageComes(d)' /\ PromiseKept(d)'
  <2> HIDE DEF Same
  <2>1. MessageComes(d) /\ PromiseKept(d)
    BY <1>3 DEF Coherent
  <2>2. MessageComes(d)'
    BY <2>1, SameFacts DEF MessageComes, Same
  <2>3. PromiseKept(d)'
    BY <2>1, SameFacts DEF PromiseKept, Same
  <2>4. QED  BY <2>2, <2>3
<1>4. QED  BY <1>1, <1>2, <1>3 DEF Coherent

LEMMA InitCarried == Init => Carried
<1> SUFFICES ASSUME Init
             PROVE  Carried
  OBVIOUS
<1> USE BoundsAssumption, RestingFields DEF Init
<1>1. TypeOK
  <2>1. /\ queue \in Seq(1 .. MaxValues) /\ jobs \in [ Deployments -> Seq(JobRows) ]
        /\ relay \in [ Deployments -> Turns ]
    OBVIOUS
  <2>2. save \in [ at: { "idle", "queue", "persist" }, claimable: SUBSET Deployments,
                   preRelay: SUBSET Deployments, bindable: SUBSET Deployments ]
    BY DEF NoSave
  <2>3. /\ dep \in [ Deployments -> States ] /\ bound \in [ Deployments -> Values ]
        /\ store \in [ Deployments -> Values ] /\ latest \in Values /\ staged \in Values
    BY DEF Values, States
  <2>4. row \in BOOLEAN /\ faults \in 0 .. MaxFaults
    <3>1. row \in BOOLEAN
      OBVIOUS
    <3>2. faults \in 0 .. MaxFaults
      OBVIOUS
    <3>3. QED  BY <3>1, <3>2
  <2>5. /\ creating \subseteq Deployments
        /\ owed \subseteq Deployments /\ vaulted \subseteq owed /\ told \subseteq Deployments
        /\ dropped \subseteq Deployments /\ cut \subseteq Deployments
    OBVIOUS
  <2> HIDE DEF Init
  <2>6. QED  BY <2>1, <2>2, <2>3, <2>4, <2>5 DEF TypeOK
<1>2. QueueInOrder
  BY DEF QueueInOrder, NoSave
<1>3. ASSUME NEW d \in Deployments PROVE Coherent(d)
  <2>1. JobsInOrder(d) /\ InstallsInOrder(d) /\ TurnsInOrder(d) /\ StaleRowGoes(d)
    BY DEF JobsInOrder, InstallsInOrder, TurnsInOrder, StaleRowGoes, NoSave, Live
  <2>2. MessageComes(d) /\ PromiseKept(d)
    BY DEF MessageComes, PromiseKept, NoSave, Live
  <2>3. QED  BY <2>1, <2>2 DEF Coherent
<1>4. QED  BY <1>1, <1>2, <1>3 DEF Carried

-----------------------------------------------------------------------------
(* What follows from the coherence of the rows. *)

\* A row that is older than the store has a job that is not done.
LEMMA NoRowIsStale == Carried => NoStaleRow
<1> SUFFICES ASSUME Carried, NEW d \in Deployments \ cut,
                    bound[d] # 0, \A i \in DOMAIN jobs[d] : jobs[d][i].state = "done"
             PROVE  bound[d] >= store[d]
  BY DEF NoStaleRow
<1>1. StaleRowGoes(d)
  BY DEF Carried, Coherent
<1>2. ~ (bound[d] < store[d])
  BY <1>1 DEF StaleRowGoes
<1>3. QED  BY <1>2, Typed DEF Carried

\* What is coming, or will be fetched, is on its way.
LEMMA ComingIsOnItsWay ==
    ASSUME NEW d \in Deployments, Coming(d), relay[d].at \in { "idle", "fetch", "write", "report" },
           latest # 0
    PROVE  OnItsWay(d, latest) \/ Failing(d)
BY DEF Coming, OnItsWay, Failing, Merged

LEMMA FetchedIsOnItsWay ==
    ASSUME NEW d \in Deployments, TypeOK, TurnsInOrder(d), WillFetch(d), latest # 0
    PROVE  OnItsWay(d, latest) \/ Failing(d)
<1> USE Typed
<1>1. PICK i \in DOMAIN jobs[d] :
         OpenJob(d, i) /\ (relay[d].job = i /\ relay[d].ok => relay[d].omitted)
  BY DEF WillFetch
<1>2. CASE relay[d].job # i \/ relay[d].at = "fetch"
  BY <1>1, <1>2 DEF OnItsWay, WillApply, WillFetch
<1>3. CASE relay[d].at = "write"
  BY <1>3 DEF OnItsWay, Merged, WillFetch, Older, Failing
<1>4. CASE relay[d].job = i /\ relay[d].at = "report"
  BY <1>1, <1>4 DEF Failing
<1>5. CASE relay[d].job = i /\ relay[d].at = "idle"
  BY <1>1, <1>5, RestingFields DEF TurnsInOrder
<1>6. QED  BY <1>2, <1>3, <1>4, <1>5

LEMMA PromiseIsOnItsWay == Carried /\ PromptQueue => ValueIsOnItsWay
<1> SUFFICES ASSUME Carried, PromptQueue, NEW d \in owed \ dropped
             PROVE  \/ OnItsWay(d, latest) \/ Failing(d)
                    \/ d \in told /\ (d \in vaulted => dep[d] = "running")
  BY DEF ValueIsOnItsWay
<1>1. d \in Deployments /\ TypeOK /\ Coherent(d)
  BY DEF Carried, TypeOK
<1>2. PromiseKept(d) /\ TurnsInOrder(d) /\ latest # 0 /\ dep[d] \notin { "absent", "removed" }
  BY <1>1 DEF Coherent, InstallsInOrder
<1>3. dep[d] \in { "waiting", "installing", "failed", "running" }
  BY <1>1, <1>2, Typed DEF States
<1>4. CASE dep[d] = "waiting"
  BY <1>2, <1>4 DEF PromiseKept, OnItsWay
<1>5. CASE dep[d] \in { "installing", "failed" }
  <2>1. CASE bound[d] = latest
    BY <1>5, <2>1 DEF OnItsWay
  <2>2. CASE d \notin vaulted /\ (d \in told \/ Coming(d))
    BY <1>1, <1>2, <2>2, Typed, ComingIsOnItsWay
  <2>3. QED  BY <1>2, <1>5, <2>1, <2>2 DEF PromiseKept
<1>6. CASE dep[d] = "running"
  <2>1. d \in told \/ Coming(d) \/ Arrived(d) \/ WillFetch(d)
    BY <1>2, <1>6 DEF PromiseKept
  <2>2. CASE Coming(d)
    BY <1>1, <1>2, <2>2, Typed, ComingIsOnItsWay
  <2>3. CASE Arrived(d)
    BY <2>3 DEF Arrived, OnItsWay
  <2>4. CASE WillFetch(d)
    BY <1>1, <1>2, <2>4, FetchedIsOnItsWay
  <2>5. QED  BY <1>6, <2>1, <2>2, <2>3, <2>4
<1>7. QED  BY <1>3, <1>4, <1>5, <1>6

-----------------------------------------------------------------------------
(* The save. *)

\* What a save leaves alone.
LEMMA SaveKeeps ==
    ASSUME TypeOK, NEW d \in Deployments,
           UNCHANGED << latest, queue, jobs, relay, dep, store, creating, told, dropped >>
    PROVE  /\ Coming(d)' = Coming(d) /\ Older(d)' = Older(d)
           /\ PromptQueue /\ MessageComes(d) => \A i \in DOMAIN jobs'[d] :
                 jobs'[d][i].value = latest' /\ latest' # 0 /\ jobs'[d][i].state = "failed"
                    => d \in told'
BY DEF Coming, Older, OpenJob, InQueue, Fresh, MessageComes

LEMMA BeginSaveCarried == ASSUME Carried, BeginSave PROVE Carried'
<1>1. /\ save.at = "idle" /\ latest < MaxValues /\ latest' = latest + 1
      /\ save' = [ at |-> IF Claimable # {} THEN "queue" ELSE "persist",
                   claimable |-> Claimable, preRelay |-> PreRelay, bindable |-> Bindable ]
      /\ owed' = {} /\ vaulted' = {} /\ told' = {} /\ dropped' = {}
      /\ UNCHANGED << dep, creating, row, queue, staged, bound, jobs, relay, store, faults, cut >>
  BY DEF BeginSave, vault
<1>2. TypeOK /\ QueueInOrder /\ latest \in Nat /\ latest' \in Nat
  BY <1>1, BoundsAssumption DEF Carried, TypeOK, Values
<1>3. save' \in [ at: { "idle", "queue", "persist" }, claimable: SUBSET Deployments,
                  preRelay: SUBSET Deployments, bindable: SUBSET Deployments ]
  BY <1>1 DEF Claimable, PreRelay, Bindable
<1>4. TypeOK'
  <2>1. latest' \in Values
    BY <1>1, <1>2, BoundsAssumption DEF Values
  <2>2. QED  BY <1>1, <1>2, <1>3, <2>1 DEF TypeOK
<1>5. QueueInOrder'
  <2>1. save'.at # "idle" /\ save'.preRelay \subseteq save'.bindable
    BY <1>1 DEF Bindable
  <2>2. \A n \in DOMAIN queue : queue[n] <= latest /\ queue[n] \in Nat
    BY <1>2, QueueTyped DEF QueueInOrder
  <2>3. staged \in Nat /\ staged <= latest
    BY <1>2, BoundsAssumption DEF QueueInOrder, TypeOK, Values
  <2>4. QED  BY <1>1, <1>2, <2>1, <2>2, <2>3 DEF QueueInOrder
<1>6. ASSUME NEW d \in Deployments PROVE Coherent(d)'
  <2> USE Typed
  <2>1. Coherent(d)
    BY DEF Carried
  <2>2. /\ d \in save'.claimable <=> dep[d] \in Live
        /\ d \in save'.bindable => dep[d] # "absent"
        /\ save'.at = "persist" => dep[d] \notin Live
    BY <1>1 DEF Claimable, PreRelay, Bindable, Live
  <2>3. JobsInOrder(d)'
    BY <1>1, <1>2, <2>1 DEF Coherent, JobsInOrder
  <2>4. InstallsInOrder(d)'
    BY <1>1, <1>2, <2>1, <2>2 DEF Coherent, InstallsInOrder
  <2>5. TurnsInOrder(d)' /\ StaleRowGoes(d)'
    BY <1>1, <1>2, <2>1 DEF Coherent, TurnsInOrder, StaleRowGoes, OpenJob
  <2>6. MessageComes(d)' /\ PromiseKept(d)'
    BY <1>1, <1>2, <2>1, <2>2 DEF Coherent, MessageComes, PromiseKept, JobsInOrder
  <2>7. QED  BY <2>3, <2>4, <2>5, <2>6 DEF Coherent
<1>7. QED  BY <1>4, <1>5, <1>6 DEF Carried

LEMMA QueueValueCarried == ASSUME Carried, QueueValue PROVE Carried'
<1>1. /\ save.at = "queue" /\ queue' = Append(queue, latest)
      /\ save' = [ save EXCEPT !.at = "persist" ]
      /\ UNCHANGED << dep, creating, latest, row, staged, bound, jobs, relay, store, faults,
                      owed, vaulted, told, dropped, cut >>
  BY DEF QueueValue, vault, history
<1>2. TypeOK /\ QueueInOrder /\ latest \in 1 .. MaxValues /\ owed = {}
  BY <1>1, BoundsAssumption DEF Carried, TypeOK, Values, QueueInOrder
<1>3. /\ save'.at = "persist" /\ save'.claimable = save.claimable
      /\ save'.preRelay = save.preRelay /\ save'.bindable = save.bindable
      /\ save' \in [ at: { "idle", "queue", "persist" }, claimable: SUBSET Deployments,
                     preRelay: SUBSET Deployments, bindable: SUBSET Deployments ]
  BY <1>1, <1>2 DEF TypeOK
<1>4. /\ queue' \in Seq(1 .. MaxValues) /\ DOMAIN queue' = 1 .. Len(queue) + 1
      /\ queue'[Len(queue) + 1] = latest
      /\ \A n \in DOMAIN queue : n \in DOMAIN queue' /\ queue'[n] = queue[n]
  BY <1>1, <1>2, QueueTyped
<1>5. \A n \in DOMAIN queue' : n = Len(queue) + 1 \/ n \in DOMAIN queue
  BY <1>2, <1>4, QueueTyped
<1>6. TypeOK'
  BY <1>1, <1>2, <1>3, <1>4 DEF TypeOK
<1>7. QueueInOrder'
  <2>1. \A n \in DOMAIN queue : queue[n] < latest
    BY <1>1, <1>2, QueueTyped DEF QueueInOrder
  <2>2. \A m, n \in DOMAIN queue' : m < n => queue'[m] < queue'[n]
    BY <1>2, <1>4, <1>5, <2>1, QueueTyped DEF QueueInOrder
  <2>3. \A n \in DOMAIN queue' : queue'[n] <= latest
    BY <1>2, <1>4, <1>5, <2>1, QueueTyped
  <2>4. QED  BY <1>1, <1>2, <1>3, <2>2, <2>3 DEF QueueInOrder
<1>8. ASSUME NEW d \in Deployments PROVE Coherent(d)'
  <2> USE Typed
  <2>1. Coherent(d)
    BY DEF Carried
  <2>2. JobsInOrder(d)'
    BY <1>1, <1>2, <1>3, <1>4, <1>5, <2>1 DEF Coherent, JobsInOrder
  <2>3. InstallsInOrder(d)'
    BY <1>1, <1>3, <2>1 DEF Coherent, InstallsInOrder
  <2>4. TurnsInOrder(d)' /\ StaleRowGoes(d)'
    BY <1>1, <2>1 DEF Coherent, TurnsInOrder, StaleRowGoes, OpenJob
  <2>5. dep[d] \in Live => Coming(d)'
    BY <1>1, <1>2, <1>4, <2>1 DEF Coherent, JobsInOrder, Coming, InQueue, Fresh
  <2>6. ASSUME PromptQueue PROVE MessageComes(d)' /\ PromiseKept(d)'
    <3>1. \A i \in DOMAIN jobs'[d] :
             jobs'[d][i].value = latest' /\ latest' # 0 /\ jobs'[d][i].state = "failed" =>
                d \in told'
      BY <1>1, <2>1, <2>6 DEF Coherent, MessageComes
    <3>2. d \in save'.claimable => dep'[d] = "removed" \/ Coming(d)'
      BY <1>1, <1>3, <2>1, <2>5 DEF Coherent, InstallsInOrder
    <3>3. QED  BY <1>1, <1>2, <2>5, <3>1, <3>2 DEF MessageComes, PromiseKept
  <2>7. QED  BY <2>2, <2>3, <2>4, <2>6 DEF Coherent
<1>9. QED  BY <1>6, <1>7, <1>8 DEF Carried

LEMMA PersistValueCarried == ASSUME Carried, PersistValue PROVE Carried'
<1>1. /\ save.at = "persist" /\ row' = TRUE /\ save' = NoSave
      /\ bound' = [ d \in Deployments |-> IF Binds(d) THEN latest ELSE bound[d] ]
      /\ staged' \in { staged, latest }
      /\ owed' = { d \in Deployments : Seen(d) } /\ vaulted' = owed' \cap save.bindable
      /\ UNCHANGED << dep, creating, latest, queue, jobs, relay, store, faults, told, dropped, cut >>
  BY DEF PersistValue
<1>2. TypeOK /\ QueueInOrder /\ latest \in Values /\ latest \in Nat /\ latest # 0 /\ owed = {}
  BY <1>1, BoundsAssumption DEF Carried, TypeOK, Values, QueueInOrder
<1>3. /\ save'.at = "idle" /\ save'.claimable = {} /\ save'.bindable = {} /\ save'.preRelay = {}
      /\ save' \in [ at: { "idle", "queue", "persist" }, claimable: SUBSET Deployments,
                     preRelay: SUBSET Deployments, bindable: SUBSET Deployments ]
  BY <1>1 DEF NoSave
<1>4. TypeOK'
  <2>1. row' \in BOOLEAN
    BY <1>1
  <2>2. bound' \in [ Deployments -> Values ] /\ staged' \in Values
    BY <1>1, <1>2 DEF TypeOK
  <2>3. owed' \subseteq Deployments /\ vaulted' \subseteq owed'
    BY <1>1
  <2>4. QED  BY <1>1, <1>2, <1>3, <2>1, <2>2, <2>3 DEF TypeOK
<1>5. QueueInOrder'
  BY <1>1, <1>2, <1>3 DEF QueueInOrder
<1>6. ASSUME NEW d \in Deployments PROVE Coherent(d)'
  <2> USE Typed
  <2>1. Coherent(d)
    BY DEF Carried
  <2>2. /\ bound'[d] = latest \/ bound'[d] = bound[d]
        /\ d \in save.bindable => bound'[d] = latest
        /\ bound'[d] # bound[d] => d \in save.bindable
    BY <1>1 DEF Binds
  <2>3. d \in owed' =>
           /\ dep[d] \notin { "absent", "removed" } /\ d \in save.claimable \cup save.preRelay
           /\ dep[d] = "running" => d \in save.claimable
           /\ d \in vaulted' <=> d \in save.bindable
    BY <1>1 DEF Seen
  <2>4. JobsInOrder(d)'
    BY <1>1, <1>3, <2>1 DEF Coherent, JobsInOrder
  <2>5. InstallsInOrder(d)'
    BY <1>1, <1>2, <1>3, <2>1, <2>2, <2>3 DEF Coherent, InstallsInOrder
  <2>6. TurnsInOrder(d)'
    BY <1>1, <2>1 DEF Coherent, TurnsInOrder, OpenJob
  <2>7. StaleRowGoes(d)'
    BY <1>1, <1>2, <2>1, <2>2 DEF Coherent, StaleRowGoes, InstallsInOrder, TurnsInOrder
  <2>8. ASSUME PromptQueue PROVE MessageComes(d)' /\ PromiseKept(d)'
    <3>1. MessageComes(d)
      BY <2>1, <2>8 DEF Coherent
    <3>2. /\ Coming(d)' = Coming(d) /\ Older(d)' = Older(d)
          /\ \A i \in DOMAIN jobs'[d] :
                jobs'[d][i].value = latest' /\ latest' # 0 /\ jobs'[d][i].state = "failed"
                   => d \in told'
      BY <1>1, <1>2, <2>8, <3>1, SaveKeeps
    <3>3. Arrived(d) => Arrived(d)'
      BY <1>1, <2>2, <3>2 DEF Arrived
    <3>4. MessageComes(d)'
      BY <1>1, <1>3, <3>1, <3>2 DEF MessageComes
    <3>5. ASSUME d \in owed' \ dropped PROVE PromiseKept(d)'
      <4>1. CASE dep[d] = "waiting"
        <5>1. d \in save.bindable
          BY <1>2, <2>1, <2>3, <3>5, <4>1 DEF Coherent, InstallsInOrder, QueueInOrder, Live
        <5>2. QED  BY <1>1, <2>2, <4>1, <5>1 DEF PromiseKept
      <4>2. CASE dep[d] \in { "installing", "failed" }
        <5>1. CASE d \in save.bindable
          BY <1>1, <2>2, <4>2, <5>1 DEF PromiseKept
        <5>2. CASE d \notin save.bindable
          <6>1. d \in save.claimable /\ dep[d] # "removed" /\ store[d] # latest
            BY <1>2, <2>1, <2>3, <3>5, <4>2, <5>2 DEF QueueInOrder, Coherent, InstallsInOrder
          <6>2. d \in told \/ Coming(d)
            BY <1>1, <3>1, <3>5, <6>1 DEF MessageComes, Arrived
          <6>3. QED  BY <1>1, <2>3, <3>2, <3>5, <4>2, <5>2, <6>2 DEF PromiseKept
        <5>3. QED  BY <5>1, <5>2
      <4>3. CASE dep[d] = "running"
        <5>1. d \in told \/ Coming(d) \/ Arrived(d)
          BY <1>1, <2>3, <3>1, <3>5, <4>3 DEF MessageComes
        <5>2. QED  BY <1>1, <3>2, <3>3, <4>3, <5>1 DEF PromiseKept
      <4>4. dep[d] \in { "waiting", "installing", "failed", "running" }
        BY <1>2, <2>3, <3>5 DEF States
      <4>5. QED  BY <4>1, <4>2, <4>3, <4>4
    <3>6. QED  BY <1>1, <3>4, <3>5 DEF PromiseKept
  <2>9. QED  BY <2>4, <2>5, <2>6, <2>7, <2>8 DEF Coherent
<1>7. QED  BY <1>4, <1>5, <1>6 DEF Carried

LEMMA SaveFailsCarried == ASSUME Carried, SaveFails PROVE Carried'
<1>1. /\ save.at # "idle" /\ save' = NoSave
      /\ UNCHANGED << dep, creating, latest, row, queue, staged, bound, jobs, relay, store,
                      owed, vaulted, told, dropped, cut >>
  BY DEF SaveFails, vault, history
<1>2. TypeOK /\ QueueInOrder /\ owed = {} /\ faults' \in 0 .. MaxFaults
  BY <1>1, FaultsBounded DEF Carried, QueueInOrder, SaveFails
<1>3. /\ save'.at = "idle" /\ save'.claimable = {} /\ save'.bindable = {} /\ save'.preRelay = {}
      /\ save' \in [ at: { "idle", "queue", "persist" }, claimable: SUBSET Deployments,
                     preRelay: SUBSET Deployments, bindable: SUBSET Deployments ]
  BY <1>1 DEF NoSave
<1>4. TypeOK'
  BY <1>1, <1>2, <1>3 DEF TypeOK
<1>5. QueueInOrder'
  BY <1>1, <1>2, <1>3 DEF QueueInOrder
<1>6. ASSUME NEW d \in Deployments PROVE Coherent(d)'
  <2>1. Coherent(d)
    BY DEF Carried
  <2>2. JobsInOrder(d)' /\ InstallsInOrder(d)'
    BY <1>1, <1>3, <2>1 DEF Coherent, JobsInOrder, InstallsInOrder
  <2>3. TurnsInOrder(d)' /\ StaleRowGoes(d)'
    BY <1>1, <2>1 DEF Coherent, TurnsInOrder, StaleRowGoes, OpenJob
  <2>4. PromptQueue => MessageComes(d)'
    BY <1>1, <1>2, <1>3, <2>1 DEF Coherent, MessageComes
  <2>5. PromiseKept(d)'
    BY <1>1, <1>2 DEF PromiseKept
  <2>6. QED  BY <2>2, <2>3, <2>4, <2>5 DEF Coherent
<1>7. QED  BY <1>4, <1>5, <1>6 DEF Carried

-----------------------------------------------------------------------------
(* Deployments. *)

\* A step of one deployment leaves the others as they are.
LEMMA OneDeployment ==
    ASSUME Carried, TypeOK', NEW d \in Deployments, Coherent(d)',
           UNCHANGED << latest, queue, save, staged >>, save.at # "idle" => owed' = {},
           \A e \in Deployments \ { d } : Same(e)
    PROVE  Carried'
<1>1. QueueInOrder'
  BY DEF Carried, QueueInOrder
<1>2. ASSUME NEW e \in Deployments PROVE Coherent(e)'
  BY Untouched DEF Carried
<1>3. QED  BY <1>1, <1>2 DEF Carried

LEMMA CreateCarried == ASSUME Carried, NEW d \in Deployments, Create(d) PROVE Carried'
<1>1. /\ dep[d] = "absent" /\ dep' = [ dep EXCEPT ![d] = "waiting" ]
      /\ creating' = creating \cup { d }
      /\ owed' = owed \/ (owed' = owed \cup { d } /\ save.at = "idle" /\ staged = latest
                          /\ latest # 0)
      /\ vaulted' = vaulted \cup (owed' \ owed)
      /\ UNCHANGED << latest, row, save, queue, staged, bound, jobs, relay, store, faults,
                      told, dropped, cut >>
  BY DEF Create, vault
<1>2. TypeOK /\ QueueInOrder /\ Coherent(d)
  BY DEF Carried
<1>3. TypeOK'
  BY <1>1, <1>2 DEF TypeOK, States
<1>4. ASSUME NEW e \in Deployments \ { d } PROVE Same(e)
  BY <1>1, <1>2 DEF Same, TypeOK
<1>5. Coherent(d)'
  <2> USE Typed
  <2>1. dep'[d] = "waiting" /\ d \in creating' /\ jobs[d] = << >> /\ store[d] = 0 /\ bound[d] = 0
    BY <1>1, <1>2 DEF TypeOK, Coherent, InstallsInOrder, Live
  <2>2. d \notin owed /\ d \notin save.claimable /\ d \notin save.bindable
    BY <1>1, <1>2 DEF Coherent, InstallsInOrder, Live
  <2>3. JobsInOrder(d)'
    BY <1>1, <1>2 DEF Coherent, JobsInOrder
  <2>4. InstallsInOrder(d)'
    BY <1>1, <1>2, <2>1, <2>2 DEF InstallsInOrder, Live
  <2>5. TurnsInOrder(d)' /\ StaleRowGoes(d)'
    BY <1>1, <1>2, <2>1 DEF Coherent, TurnsInOrder, StaleRowGoes, OpenJob
  <2>6. MessageComes(d)'
    BY <1>1, <2>1, <2>2 DEF MessageComes, Live
  <2>7. PromiseKept(d)'
    BY <1>1, <2>1, <2>2 DEF PromiseKept
  <2>8. QED  BY <2>3, <2>4, <2>5, <2>6, <2>7 DEF Coherent
<1>6. save.at # "idle" => owed' = {}
  BY <1>1, <1>2 DEF QueueInOrder
<1>7. QED  BY <1>1, <1>3, <1>4, <1>5, <1>6, OneDeployment

LEMMA MaterializeCarried == ASSUME Carried, NEW d \in Deployments, Materialize(d) PROVE Carried'
<1>1. /\ d \in creating /\ creating' = creating \ { d }
      /\ \/ /\ bound' = [ bound EXCEPT ![d] = IF Materializes(d) THEN staged ELSE bound[d] ]
            /\ dropped' = dropped
         \/ dropped' = dropped \cup { d } /\ bound' = bound
      /\ UNCHANGED << dep, latest, row, save, queue, staged, jobs, relay, store,
                      owed, vaulted, told, cut >>
  BY DEF Materialize
<1>2. TypeOK /\ QueueInOrder /\ Coherent(d) /\ faults' \in 0 .. MaxFaults
  BY FaultsBounded DEF Carried, Materialize
<1>3. TypeOK'
  <2>1. bound' \in [ Deployments -> Values ]
    BY <1>1, <1>2 DEF TypeOK
  <2>2. dropped' \subseteq Deployments /\ creating' \subseteq Deployments
    BY <1>1, <1>2 DEF TypeOK
  <2>3. QED  BY <1>1, <1>2, <2>1, <2>2 DEF TypeOK
<1>4. ASSUME NEW e \in Deployments \ { d } PROVE Same(e)
  BY <1>1, <1>2 DEF Same, TypeOK
<1>5. Coherent(d)'
  <2> USE Typed
  <2>1. /\ dep[d] = "waiting" /\ jobs[d] = << >> /\ store[d] = 0 /\ relay[d] = Resting
        /\ d \notin save.claimable /\ d \notin creating'
    BY <1>1, <1>2 DEF Coherent, InstallsInOrder, TurnsInOrder, Live
  <2>2. \/ d \in dropped' /\ bound'[d] = bound[d]
        \/ bound'[d] = IF staged # 0 /\ bound[d] = 0 THEN staged ELSE bound[d]
    BY <1>1, <1>2 DEF TypeOK, Materializes
  <2>3. JobsInOrder(d)'
    BY <1>1, <1>2 DEF Coherent, JobsInOrder
  <2>4. InstallsInOrder(d)'
    BY <1>1, <1>2, <2>1, <2>2 DEF QueueInOrder, Coherent, InstallsInOrder
  <2>5. TurnsInOrder(d)' /\ StaleRowGoes(d)'
    BY <1>1, <1>2, <2>1, <2>2, RestingFields DEF Coherent, TurnsInOrder, StaleRowGoes, OpenJob
  <2>6. MessageComes(d)'
    BY <1>1, <2>1 DEF MessageComes, Live
  <2>7. ASSUME PromptQueue PROVE PromiseKept(d)'
    <3>1. PromiseKept(d) /\ (d \in owed => latest # 0)
      BY <1>2, <2>7 DEF Coherent, InstallsInOrder
    <3>2. d \in owed \ dropped' => bound'[d] = latest
      BY <1>1, <2>1, <2>2, <3>1 DEF PromiseKept
    <3>3. QED  BY <1>1, <2>1, <3>2 DEF PromiseKept
  <2>8. QED  BY <2>3, <2>4, <2>5, <2>6, <2>7 DEF Coherent
<1>6. save.at # "idle" => owed' = {}
  BY <1>1, <1>2 DEF QueueInOrder
<1>7. QED  BY <1>1, <1>3, <1>4, <1>5, <1>6, OneDeployment

LEMMA BeginInstallCarried ==
    ASSUME Carried, NEW d \in Deployments, BeginInstall(d) PROVE Carried'
<1>1. /\ dep[d] \in { "waiting", "failed" } /\ d \notin creating /\ relay[d] = Resting
      /\ PromptQueue => queue = << >>
      /\ dep' = [ dep EXCEPT ![d] = "installing" ]
      /\ UNCHANGED << creating, latest, row, save, queue, staged, bound, jobs, relay, store,
                      faults, owed, vaulted, told, dropped, cut >>
  BY DEF BeginInstall, vault, history
<1>2. TypeOK /\ QueueInOrder /\ Coherent(d)
  BY DEF Carried
<1>3. TypeOK'
  BY <1>1, <1>2 DEF TypeOK, States
<1>4. ASSUME NEW e \in Deployments \ { d } PROVE Same(e)
  BY <1>1, <1>2 DEF Same, TypeOK
<1>5. Coherent(d)'
  <2> USE Typed
  <2>1. dep'[d] = "installing" /\ store[d] = 0
    BY <1>1, <1>2 DEF TypeOK, Coherent, InstallsInOrder
  <2>2. JobsInOrder(d)'
    BY <1>1, <1>2 DEF Coherent, JobsInOrder
  <2>3. InstallsInOrder(d)'
    BY <1>1, <1>2, <2>1 DEF Coherent, InstallsInOrder, Live
  <2>4. TurnsInOrder(d)' /\ StaleRowGoes(d)'
    BY <1>1, <1>2, <2>1, RestingFields DEF Coherent, TurnsInOrder, StaleRowGoes, OpenJob
  <2>5. ASSUME PromptQueue PROVE MessageComes(d)' /\ PromiseKept(d)'
    <3>1. MessageComes(d) /\ PromiseKept(d)
      BY <1>2, <2>5 DEF Coherent
    <3>2. /\ ~ InQueue(latest) /\ Coming(d)' = Coming(d) /\ Older(d)' = Older(d)
          /\ Arrived(d)' = Arrived(d)
      BY <1>1, <2>5, RestingFields DEF InQueue, Coming, Older, Arrived, Live, OpenJob, Fresh
    <3>3. dep[d] = "waiting" => ~ Older(d) /\ d \notin save.claimable
      BY <1>1, <1>2, <2>5, RestingFields DEF Older, Coherent, InstallsInOrder, Live
    <3>4. MessageComes(d)'
      BY <1>1, <2>1, <3>1, <3>2, <3>3 DEF MessageComes, Live
    <3>5. PromiseKept(d)'
      BY <1>1, <2>1, <3>1, <3>2 DEF PromiseKept
    <3>6. QED  BY <3>4, <3>5
  <2>6. QED  BY <2>2, <2>3, <2>4, <2>5 DEF Coherent
<1>6. save.at # "idle" => owed' = {}
  BY <1>1, <1>2 DEF QueueInOrder
<1>7. QED  BY <1>1, <1>3, <1>4, <1>5, <1>6, OneDeployment

LEMMA TeardownCarried == ASSUME Carried, NEW d \in Deployments, Teardown(d) PROVE Carried'
<1>1. /\ dep[d] \in { "waiting", "failed", "running" } /\ relay[d] = Resting
      /\ dep' = [ dep EXCEPT ![d] = "removed" ] /\ jobs' = [ jobs EXCEPT ![d] = << >> ]
      /\ store' = [ store EXCEPT ![d] = 0 ]
      /\ bound' = [ bound EXCEPT ![d] = IF dep[d] = "waiting" THEN 0 ELSE bound[d] ]
      /\ creating' = creating \ { d } /\ owed' = owed \ { d } /\ vaulted' = vaulted \ { d }
      /\ UNCHANGED << latest, row, save, queue, staged, relay, faults, told, dropped, cut >>
  BY DEF Teardown
<1>2. TypeOK /\ QueueInOrder /\ Coherent(d)
  BY DEF Carried
<1>3. TypeOK'
  <2>1. jobs' \in [ Deployments -> Seq(JobRows) ] /\ dep' \in [ Deployments -> States ]
    BY <1>1, <1>2 DEF TypeOK, States
  <2>2. bound' \in [ Deployments -> Values ] /\ store' \in [ Deployments -> Values ]
    BY <1>1, <1>2, BoundsAssumption DEF TypeOK, Values
  <2>3. QED  BY <1>1, <1>2, <2>1, <2>2 DEF TypeOK
<1>4. ASSUME NEW e \in Deployments \ { d } PROVE Same(e)
  BY <1>1, <1>2 DEF Same, TypeOK
<1>5. Coherent(d)'
  <2> USE Typed
  <2>1. /\ dep'[d] = "removed" /\ jobs'[d] = << >> /\ store'[d] = 0
        /\ d \notin creating' /\ d \notin owed' /\ bound'[d] \in { 0, bound[d] }
    BY <1>1, <1>2 DEF TypeOK
  <2>2. JobsInOrder(d)'
    BY <2>1 DEF JobsInOrder
  <2>3. InstallsInOrder(d)'
    BY <1>1, <1>2, <2>1 DEF Coherent, InstallsInOrder, Live
  <2>4. TurnsInOrder(d)' /\ StaleRowGoes(d)'
    BY <1>1, <1>2, <2>1, RestingFields DEF TurnsInOrder, StaleRowGoes
  <2>5. MessageComes(d)' /\ PromiseKept(d)'
    BY <2>1 DEF MessageComes, PromiseKept, Live
  <2>6. QED  BY <2>2, <2>3, <2>4, <2>5 DEF Coherent
<1>6. save.at # "idle" => owed' = {}
  BY <1>1, <1>2 DEF QueueInOrder
<1>7. QED  BY <1>1, <1>3, <1>4, <1>5, <1>6, OneDeployment

LEMMA ExpireCarried == ASSUME Carried, Expire PROVE Carried'
<1>1. /\ \/ staged' = 0 /\ dropped' = dropped \cup creating /\ bound' = bound
         \/ /\ staged' = staged
            /\ \E d \in Deployments :
                  bound' = [ bound EXCEPT ![d] = 0 ] /\ dropped' = dropped \cup { d }
      /\ UNCHANGED << dep, creating, latest, row, save, queue, jobs, relay, store,
                      owed, vaulted, told, cut >>
  BY DEF Expire
<1>2. TypeOK /\ QueueInOrder /\ faults' \in 0 .. MaxFaults
  BY FaultsBounded DEF Carried, Expire
<1>3. TypeOK'
  <2>1. bound' \in [ Deployments -> Values ] /\ staged' \in Values
    BY <1>1, <1>2, BoundsAssumption DEF TypeOK, Values
  <2>2. dropped' \subseteq Deployments
    BY <1>1, <1>2 DEF TypeOK
  <2>3. QED  BY <1>1, <1>2, <2>1, <2>2 DEF TypeOK
<1>4. QueueInOrder'
  BY <1>1, <1>2, BoundsAssumption DEF QueueInOrder, TypeOK, Values
<1>5. ASSUME NEW d \in Deployments PROVE Coherent(d)'
  <2> USE Typed
  <2>1. Coherent(d)
    BY DEF Carried
  <2>2. /\ bound'[d] = bound[d] \/ (bound'[d] = 0 /\ d \in dropped')
        /\ d \in dropped => d \in dropped'
        /\ staged' = staged \/ d \notin creating \/ d \in dropped'
    BY <1>1, <1>2 DEF TypeOK
  <2>3. JobsInOrder(d)' /\ InstallsInOrder(d)'
    BY <1>1, <1>2, <2>1, <2>2 DEF Coherent, JobsInOrder, InstallsInOrder
  <2>4. TurnsInOrder(d)' /\ StaleRowGoes(d)'
    BY <1>1, <2>1, <2>2 DEF Coherent, TurnsInOrder, StaleRowGoes, OpenJob
  <2>5. ASSUME PromptQueue PROVE MessageComes(d)' /\ PromiseKept(d)'
    <3>1. MessageComes(d) /\ PromiseKept(d)
      BY <2>1, <2>5 DEF Coherent
    <3>2. Coming(d)' = Coming(d) /\ Older(d)' = Older(d)
      BY <1>1 DEF Coming, Older, OpenJob, InQueue, Fresh
    <3>3. d \notin dropped' => Arrived(d)' = Arrived(d) /\ WillFetch(d)' = WillFetch(d)
      BY <1>1, <2>2, <3>2 DEF Arrived, WillFetch, OpenJob
    <3>4. MessageComes(d)'
      BY <1>1, <2>2, <3>1, <3>2, <3>3 DEF MessageComes
    <3>5. PromiseKept(d)'
      BY <1>1, <2>2, <3>1, <3>2, <3>3 DEF PromiseKept
    <3>6. QED  BY <3>4, <3>5
  <2>6. QED  BY <2>3, <2>4, <2>5 DEF Coherent
<1>6. QED  BY <1>3, <1>4, <1>5 DEF Carried

\* A job that is appended comes after all the others.
LEMMA Appended ==
    ASSUME NEW s \in Seq(JobRows), NEW job \in JobRows, NEW t, t = Append(s, job)
    PROVE  /\ t \in Seq(JobRows) /\ Len(s) \in Nat
           /\ t[Len(s) + 1] = job /\ Len(s) + 1 \in DOMAIN t
           /\ \A i \in DOMAIN s : i \in DOMAIN t /\ t[i] = s[i] /\ i \in Nat /\ i < Len(s) + 1
           /\ \A i \in DOMAIN t : i \in DOMAIN s \/ i = Len(s) + 1
OBVIOUS

LEMMA NewJobTyped ==
    ASSUME NEW v \in Values, NEW names \in BOOLEAN
    PROVE  /\ NewJob(v, names) \in JobRows
           /\ NewJob(v, names).value = v /\ NewJob(v, names).names = names
           /\ (NewJob(v, names).sealed <=> v = 0) /\ NewJob(v, names).state = "offered"
BY DEF NewJob, JobRows

\* What holds of a deployment's jobs holds with one more at their end, if its value
\* is a newer one or it has none.
LEMMA AppendKeeps ==
    ASSUME Carried, NEW d \in Deployments, NEW v \in Values, NEW names \in BOOLEAN,
           jobs'[d] = Append(jobs[d], NewJob(v, names)), v # 0 => names,
           v <= latest, save.at = "queue" => v # latest,
           PromptQueue => \A n \in DOMAIN queue' : v <= queue'[n],
           PromptQueue => \A n \in DOMAIN queue' : \E m \in DOMAIN queue : queue'[n] = queue[m],
           PromptQueue /\ v # 0 => \A i \in DOMAIN jobs[d] : jobs[d][i].value < v,
           UNCHANGED << latest, save, relay, bound, store, cut >>,
           dep'[d] = dep[d] \/ (dep[d] = "installing" /\ dep'[d] = "running")
    PROVE  JobsInOrder(d)' /\ TurnsInOrder(d)' /\ StaleRowGoes(d)'
<1> DEFINE new == Len(jobs[d]) + 1
<1> USE Typed
<1>1. TypeOK /\ Coherent(d) /\ v \in Nat
  BY BoundsAssumption DEF Carried, Values
<1>2. /\ new \in DOMAIN jobs'[d] /\ new \in Nat
      /\ jobs'[d][new].value = v /\ jobs'[d][new].names = names
      /\ (jobs'[d][new].sealed <=> v = 0) /\ jobs'[d][new].state = "offered"
  BY <1>1, Appended, NewJobTyped
<1>3. /\ \A i \in DOMAIN jobs[d] :
            i \in DOMAIN jobs'[d] /\ jobs'[d][i] = jobs[d][i] /\ i < new /\ i \in Nat
      /\ \A i \in DOMAIN jobs'[d] : i \in DOMAIN jobs[d] \/ i = new
  BY <1>1, Appended, NewJobTyped
<1> HIDE DEF new
<1>4. JobsInOrder(d)'
  <2>1. JobsInOrder(d)
    BY <1>1 DEF Coherent
  <2>2. ASSUME NEW i \in DOMAIN jobs'[d]
        PROVE  /\ jobs'[d][i].value <= latest
               /\ save.at = "queue" => jobs'[d][i].value # latest
               /\ jobs'[d][i].value # 0 => jobs'[d][i].names
               /\ jobs'[d][i].value = 0 => jobs'[d][i].sealed
    <3>1. CASE i \in DOMAIN jobs[d]
      BY <1>3, <2>1, <3>1 DEF JobsInOrder
    <3>2. CASE i = new
      BY <1>1, <1>2, <3>2
    <3>3. QED  BY <1>3, <3>1, <3>2
  <2>3. ASSUME PromptQueue, NEW i \in DOMAIN jobs'[d]
        PROVE  /\ \A k \in DOMAIN jobs'[d] :
                     i < k /\ jobs'[d][k].value # 0 => jobs'[d][i].value < jobs'[d][k].value
               /\ \A n \in DOMAIN queue' : jobs'[d][i].value <= queue'[n]
    BY <1>1, <1>2, <1>3, <2>1, <2>3 DEF JobsInOrder
  <2>4. QED  BY <2>2, <2>3 DEF JobsInOrder
<1>5. TurnsInOrder(d)'
  <2>1. Unclaimed(jobs'[d][new])
    BY <1>2 DEF Unclaimed
  <2>2. \A i \in DOMAIN jobs[d] : OpenJob(d, i)' = OpenJob(d, i)
    BY <1>3 DEF OpenJob
  <2>3. relay[d].at # "idle" => dep'[d] = dep[d]
    BY <1>1 DEF Coherent, TurnsInOrder
  <2>4. QED  BY <1>1, <1>2, <1>3, <2>1, <2>2, <2>3 DEF Coherent, TurnsInOrder
<1>6. StaleRowGoes(d)'
  BY <1>1, <1>3 DEF Coherent, StaleRowGoes
<1>7. QED  BY <1>4, <1>5, <1>6

\* What the steps of the promise see of a job that is appended.
LEMMA AppendShows ==
    ASSUME Carried, NEW d \in Deployments, NEW job \in JobRows,
           jobs'[d] = Append(jobs[d], job), relay'[d] = relay[d],
           job.state = "offered", job.sealed <=> job.value = 0
    PROVE  /\ \A i \in DOMAIN jobs[d] : i \in DOMAIN jobs'[d] /\ jobs'[d][i] = jobs[d][i]
           /\ \E i \in DOMAIN jobs'[d] :
                 /\ jobs'[d][i] = job /\ OpenJob(d, i)'
                 /\ relay[d].job # i
           /\ \A i \in DOMAIN jobs'[d] :
                 (i \in DOMAIN jobs[d] /\ jobs'[d][i] = jobs[d][i]) \/ jobs'[d][i] = job
           /\ relay[d].job \in DOMAIN jobs[d] =>
                 OpenJob(d, relay[d].job)' = OpenJob(d, relay[d].job)
<1> DEFINE new == Len(jobs[d]) + 1
<1> USE Typed
<1>1. TypeOK /\ TurnsInOrder(d)
  BY DEF Carried, Coherent
<1>2. new \in DOMAIN jobs'[d] /\ jobs'[d][new] = job
  BY <1>1, Appended
<1>3. /\ \A i \in DOMAIN jobs[d] :
            i \in DOMAIN jobs'[d] /\ jobs'[d][i] = jobs[d][i] /\ i < new
      /\ \A i \in DOMAIN jobs'[d] : i \in DOMAIN jobs[d] \/ i = new
  BY <1>1, Appended
<1>4. relay[d].job # new
  BY <1>1, <1>3, RestingFields DEF TurnsInOrder
<1> HIDE DEF new
<1>5. QED  BY <1>2, <1>3, <1>4 DEF OpenJob

LEMMA EndInstallCarried == ASSUME Carried, NEW d \in Deployments, EndInstall(d) PROVE Carried'
<1>1. /\ dep[d] = "installing"
      /\ \/ /\ dep' = [ dep EXCEPT ![d] = "running" ]
            /\ jobs' = [ jobs EXCEPT ![d] = Append(jobs[d], NewJob(0, row)) ]
         \/ dep' = [ dep EXCEPT ![d] = "failed" ] /\ jobs' = jobs
      /\ UNCHANGED << creating, latest, row, save, queue, staged, bound, relay, store,
                      owed, vaulted, told, dropped, cut >>
  BY DEF EndInstall, WithFollowUp, vault, history
<1>2. TypeOK /\ QueueInOrder /\ Coherent(d) /\ faults' \in 0 .. MaxFaults
  BY FaultsBounded DEF Carried, EndInstall
<1>3. 0 \in Values /\ row \in BOOLEAN /\ NewJob(0, row) \in JobRows
  BY <1>2, NewJobTyped, BoundsAssumption DEF TypeOK, Values
<1>4. TypeOK'
  <2>1. jobs' \in [ Deployments -> Seq(JobRows) ]
    <3>1. Append(jobs[d], NewJob(0, row)) \in Seq(JobRows)
      BY <1>2, <1>3, Typed
    <3>2. QED  BY <1>1, <1>2, <3>1 DEF TypeOK
  <2>2. dep' \in [ Deployments -> States ]
    BY <1>1, <1>2 DEF TypeOK, States
  <2>3. QED  BY <1>1, <1>2, <2>1, <2>2 DEF TypeOK
<1>5. ASSUME NEW e \in Deployments \ { d } PROVE Same(e)
  BY <1>1, <1>2 DEF Same, TypeOK
<1>6. Coherent(d)'
  <2> USE Typed
  <2>1. store[d] = 0 /\ relay[d] = Resting /\ dep'[d] \in { "running", "failed" }
    BY <1>1, <1>2 DEF TypeOK, Coherent, InstallsInOrder, TurnsInOrder
  <2>2. InstallsInOrder(d)'
    BY <1>1, <1>2, <2>1 DEF Coherent, InstallsInOrder, Live
  <2>3. CASE dep'[d] = "running"
    <3>1. jobs'[d] = Append(jobs[d], NewJob(0, row))
      BY <1>1, <1>2, <2>3 DEF TypeOK
    <3>2. /\ PromptQueue => \A n \in DOMAIN queue' : 0 <= queue'[n]
          /\ PromptQueue => \A n \in DOMAIN queue' : \E m \in DOMAIN queue : queue'[n] = queue[m]
          /\ 0 <= latest /\ (save.at = "queue" => 0 # latest)
      BY <1>1, <1>2, QueueTyped DEF QueueInOrder
    <3>3. JobsInOrder(d)' /\ TurnsInOrder(d)' /\ StaleRowGoes(d)'
      BY <1>1, <1>3, <2>3, <3>1, <3>2, AppendKeeps
    <3>4. ASSUME PromptQueue PROVE MessageComes(d)' /\ PromiseKept(d)'
      <4>1. MessageComes(d) /\ PromiseKept(d) /\ (d \in owed \/ save.at # "idle" => latest # 0)
        BY <1>2, <3>4 DEF Coherent, InstallsInOrder, QueueInOrder
      <4>0. PICK job \in JobRows :
               /\ jobs'[d] = Append(jobs[d], job)
               /\ job.state = "offered" /\ job.value = 0 /\ job.sealed
        BY <1>3, <3>1, NewJobTyped
      <4>2. /\ \A i \in DOMAIN jobs[d] : i \in DOMAIN jobs'[d] /\ jobs'[d][i] = jobs[d][i]
            /\ \E i \in DOMAIN jobs'[d] : OpenJob(d, i)' /\ relay[d].job # i
            /\ \A i \in DOMAIN jobs'[d] :
                  (i \in DOMAIN jobs[d] /\ jobs'[d][i] = jobs[d][i]) \/ jobs'[d][i] = job
        BY <1>1, <4>0, AppendShows
      <4>3. Older(d)' => Older(d)
        BY <1>1, <4>0, <4>2 DEF Older, OpenJob
      <4>4. latest # 0 /\ Coming(d) => Coming(d)'
        BY <1>1, <2>1, <2>3, <4>0, <4>2, RestingFields DEF Coming, OpenJob, InQueue, Fresh, Live
      <4>5. MessageComes(d)'
        <5>1. \A i \in DOMAIN jobs'[d] :
                 jobs'[d][i].value = latest' /\ latest' # 0 /\ jobs'[d][i].state = "failed"
                    => d \in told'
          BY <1>1, <4>0, <4>1, <4>2 DEF MessageComes
        <5>2. latest # 0 => ~ Arrived(d)
          BY <2>1 DEF Arrived
        <5>3. d \notin dropped \cup told =>
                 /\ save.at = "persist" /\ d \in save.claimable => Coming(d)'
                 /\ (save.at = "persist" \/ d \in owed) /\ Older(d)' => Coming(d)'
          BY <1>1, <4>1, <4>3, <4>4, <5>2 DEF MessageComes, Live
        <5>4. QED  BY <1>1, <5>1, <5>3 DEF MessageComes
      <4>6. ASSUME d \in owed \ dropped PROVE d \in told \/ Coming(d)' \/ WillFetch(d)'
        <5>1. bound[d] = latest \/ d \in told \/ Coming(d)
          BY <1>1, <4>1, <4>6 DEF PromiseKept
        <5>2. Older(d) => Coming(d) \/ d \in told
          BY <1>1, <4>1, <4>6 DEF MessageComes, Live
        <5>3. ~ Older(d) /\ bound[d] = latest => WillFetch(d)'
          BY <1>1, <2>1, <4>2, <4>3, RestingFields DEF WillFetch
        <5>4. QED  BY <4>1, <4>4, <4>6, <5>1, <5>2, <5>3
      <4>7. PromiseKept(d)'
        BY <1>1, <2>3, <4>6 DEF PromiseKept
      <4>8. QED  BY <4>5, <4>7
    <3>5. QED  BY <2>2, <3>3, <3>4 DEF Coherent
  <2>4. CASE dep'[d] = "failed"
    <3>1. jobs' = jobs
      BY <1>1, <1>2, <2>4 DEF TypeOK
    <3>2. JobsInOrder(d)'
      BY <1>1, <1>2, <3>1 DEF Coherent, JobsInOrder
    <3>3. TurnsInOrder(d)' /\ StaleRowGoes(d)'
      BY <1>1, <1>2, <2>1, <3>1, RestingFields DEF Coherent, TurnsInOrder, StaleRowGoes, OpenJob
    <3>4. ASSUME PromptQueue PROVE MessageComes(d)' /\ PromiseKept(d)'
      <4>1. /\ Coming(d)' = Coming(d) /\ Older(d)' = Older(d)
            /\ Arrived(d)' = Arrived(d)
        BY <1>1, <2>4, <3>1 DEF Coming, Older, Arrived, OpenJob, InQueue, Fresh, Live
      <4>2. QED
        BY <1>1, <1>2, <2>4, <3>1, <3>4, <4>1 DEF Coherent, MessageComes, PromiseKept, Live
    <3>5. QED  BY <2>2, <3>2, <3>3, <3>4 DEF Coherent
  <2>5. QED  BY <2>1, <2>3, <2>4
<1>7. save.at # "idle" => owed' = {}
  BY <1>1, <1>2 DEF QueueInOrder
<1>8. QED  BY <1>1, <1>4, <1>5, <1>6, <1>7, OneDeployment

-----------------------------------------------------------------------------
(* The queue. *)

\* A sequence without one of its members.
LEMMA Taken ==
    ASSUME NEW S, NEW s \in Seq(S), NEW k \in DOMAIN s
    PROVE  /\ RemoveAt(s, k) \in Seq(S) /\ Len(RemoveAt(s, k)) = Len(s) - 1
           /\ \A i \in 1 .. Len(s) - 1 :
                 RemoveAt(s, k)[i] = IF i < k THEN s[i] ELSE s[i + 1]
<1> DEFINE t == RemoveAt(s, k)
           a == SubSeq(s, 1, k - 1)
           b == SubSeq(s, k + 1, Len(s))
<1>1. DOMAIN s = 1 .. Len(s) /\ Len(s) \in Nat /\ k \in 1 .. Len(s)
  OBVIOUS
<1>2. /\ a \in Seq(S) /\ Len(a) = k - 1
      /\ \A i \in 1 .. k - 1 : a[i] = s[i]
  BY <1>1
<1>3. /\ b \in Seq(S) /\ Len(b) = Len(s) - k
      /\ \A i \in 1 .. Len(s) - k : b[i] = s[k + i]
  BY <1>1
<1>4. /\ t \in Seq(S) /\ Len(t) = Len(a) + Len(b)
      /\ \A i \in 1 .. Len(a) + Len(b) : t[i] = IF i <= Len(a) THEN a[i] ELSE b[i - Len(a)]
  <2>1. t = a \o b
    BY DEF RemoveAt
  <2> HIDE DEF t, a, b
  <2>2. QED  BY <1>2, <1>3, <2>1, ConcatProperties
<1> HIDE DEF t, a, b
<1>5. ASSUME NEW i \in 1 .. Len(s) - 1 PROVE t[i] = IF i < k THEN s[i] ELSE s[i + 1]
  <2>1. CASE i < k
    BY <1>1, <1>2, <1>3, <1>4, <2>1
  <2>2. CASE ~ (i < k)
    <3>1. i - (k - 1) \in 1 .. Len(s) - k /\ k + (i - (k - 1)) = i + 1
      BY <1>1, <2>2
    <3>2. b[i - (k - 1)] = s[i + 1]
      BY <1>3, <3>1
    <3>3. QED  BY <1>1, <1>2, <1>3, <1>4, <2>2, <3>2
  <2>3. QED  BY <2>1, <2>2
<1>6. t \in Seq(S) /\ Len(t) = Len(s) - 1
  BY <1>1, <1>2, <1>3, <1>4
<1>7. QED  BY <1>5, <1>6 DEF t

\* A message that is delivered leaves the others in their order.
LEMMA QueueGoesOn ==
    ASSUME TypeOK, QueueInOrder, NEW k \in DOMAIN queue,
           queue' = queue \/ queue' = RemoveAt(queue, k)
    PROVE  /\ queue' \in Seq(1 .. MaxValues)
           /\ \A m, n \in DOMAIN queue' : m < n => queue'[m] < queue'[n]
           /\ \A n \in DOMAIN queue' : \E m \in DOMAIN queue : queue'[n] = queue[m]
           /\ \A m \in DOMAIN queue :
                 m = k \/ \E n \in DOMAIN queue' : queue'[n] = queue[m]
           /\ k = 1 => \A m \in DOMAIN queue : queue[k] <= queue[m]
<1> USE QueueTyped
<1>1. k \in Nat /\ \A m, n \in DOMAIN queue : m < n => queue[m] < queue[n]
  BY DEF QueueInOrder
<1>2. k = 1 => \A m \in DOMAIN queue : queue[k] <= queue[m]
  BY <1>1
<1>3. CASE queue' = queue
  BY <1>1, <1>2, <1>3
<1>4. CASE queue' = RemoveAt(queue, k)
  <2>1. /\ queue' \in Seq(1 .. MaxValues) /\ DOMAIN queue' = 1 .. Len(queue) - 1
        /\ \A i \in 1 .. Len(queue) - 1 : queue'[i] = IF i < k THEN queue[i] ELSE queue[i + 1]
    BY <1>4, Taken
  <2>2. \A n \in DOMAIN queue' :
           /\ n \in Nat
           /\ \/ n < k /\ n \in DOMAIN queue /\ queue'[n] = queue[n]
              \/ ~ (n < k) /\ n + 1 \in DOMAIN queue /\ queue'[n] = queue[n + 1]
    BY <1>1, <2>1
  <2>3. ASSUME NEW m \in DOMAIN queue', NEW n \in DOMAIN queue', m < n
        PROVE  queue'[m] < queue'[n]
    <3>1. CASE n < k
      <4>1. m < k
        BY <1>1, <2>2, <2>3, <3>1
      <4>2. QED  BY <1>1, <2>2, <2>3, <3>1, <4>1
    <3>2. CASE ~ (n < k) /\ m < k
      <4>1. m < n + 1
        BY <2>2, <2>3
      <4>2. QED  BY <1>1, <2>2, <2>3, <3>2, <4>1
    <3>3. CASE ~ (m < k)
      <4>1. ~ (n < k) /\ m + 1 < n + 1
        BY <1>1, <2>2, <2>3, <3>3
      <4>2. QED  BY <1>1, <2>2, <3>3, <4>1
    <3>4. QED  BY <3>1, <3>2, <3>3
  <2>4. \A n \in DOMAIN queue' : \E m \in DOMAIN queue : queue'[n] = queue[m]
    BY <2>2
  <2>5. ASSUME NEW m \in DOMAIN queue, m # k
        PROVE  \E n \in DOMAIN queue' : queue'[n] = queue[m]
    <3>1. CASE m < k
      BY <1>1, <2>1, <2>5, <3>1
    <3>2. CASE m > k
      <4>1. m - 1 \in DOMAIN queue' /\ ~ (m - 1 < k) /\ m - 1 + 1 = m
        BY <1>1, <2>1, <3>2
      <4>2. queue'[m - 1] = queue[m]
        BY <2>1, <4>1
      <4>3. QED  BY <4>1, <4>2
    <3>3. QED  BY <1>1, <2>5, <3>1, <3>2
  <2>6. QED  BY <1>2, <2>1, <2>3, <2>4, <2>5
<1>5. QED  BY <1>3, <1>4

\* What the fan-out of a message does to what is on its way.
LEMMA FanOutShows ==
    ASSUME Carried, NEW d \in Deployments, NEW k \in DOMAIN queue, NEW v \in Values, v = queue[k],
           queue' = queue \/ queue' = RemoveAt(queue, k),
           jobs'[d] = IF dep[d] \in Live /\ Fresh(d, v)
                      THEN Append(jobs[d], NewJob(v, TRUE)) ELSE jobs[d],
           dep'[d] = dep[d], latest' = latest, relay'[d] = relay[d], bound'[d] = bound[d],
           store'[d] = store[d], latest # 0
    PROVE  /\ Older(d)' => Older(d)
           /\ Coming(d) => Coming(d)'
           /\ Arrived(d) => Arrived(d)'
           /\ WillFetch(d) => WillFetch(d)'
           /\ \A i \in DOMAIN jobs'[d] : jobs'[d][i].state = "failed" =>
                 i \in DOMAIN jobs[d] /\ jobs'[d][i] = jobs[d][i]
<1>1. TypeOK /\ QueueInOrder /\ TurnsInOrder(d) /\ JobsInOrder(d)
  BY DEF Carried, Coherent
<1>2. v # 0 /\ v \in Nat /\ v <= latest /\ latest \in Nat
  BY <1>1, QueueTyped, BoundsAssumption DEF QueueInOrder, TypeOK, Values
<1>3. /\ \A n \in DOMAIN queue' : \E m \in DOMAIN queue : queue'[n] = queue[m]
      /\ \A m \in DOMAIN queue :
            queue[m] = v \/ \E n \in DOMAIN queue' : queue'[n] = queue[m]
  BY <1>1, QueueGoesOn
<1>4. PICK job \in JobRows :
         /\ job = NewJob(v, TRUE)
         /\ job.value = v /\ job.names /\ ~ job.sealed /\ job.state = "offered"
  BY <1>2, NewJobTyped
<1>5. /\ \A i \in DOMAIN jobs[d] : i \in DOMAIN jobs'[d] /\ jobs'[d][i] = jobs[d][i]
      /\ dep[d] \in Live /\ Fresh(d, v) =>
            \E i \in DOMAIN jobs'[d] : jobs'[d][i] = job /\ OpenJob(d, i)'
      /\ \A i \in DOMAIN jobs'[d] :
            (i \in DOMAIN jobs[d] /\ jobs'[d][i] = jobs[d][i]) \/ jobs'[d][i] = job
      /\ relay[d].job \in DOMAIN jobs[d] =>
            OpenJob(d, relay[d].job)' = OpenJob(d, relay[d].job)
  <2>1. CASE dep[d] \in Live /\ Fresh(d, v)
    <3>1. jobs'[d] = Append(jobs[d], job)
      BY <1>4, <2>1
    <3>2. job.sealed <=> job.value = 0
      BY <1>2, <1>4
    <3>3. QED  BY <1>4, <3>1, <3>2, AppendShows
  <2>2. CASE ~ (dep[d] \in Live /\ Fresh(d, v))
    <3>1. jobs'[d] = jobs[d]
      BY <2>2
    <3>2. QED  BY <2>2, <3>1 DEF OpenJob
  <2>3. QED  BY <2>1, <2>2
<1>6. Older(d)' => Older(d)
  <2>1. CASE \E n \in DOMAIN queue' : queue'[n] < latest
    BY <1>3, <2>1 DEF Older
  <2>2. CASE v < latest
    BY <2>2 DEF Older
  <2>3. CASE ~ (v < latest) /\ Older(d)' /\ ~ \E n \in DOMAIN queue' : queue'[n] < latest
    BY <1>4, <1>5, <2>3 DEF Older, OpenJob
  <2>4. QED  BY <2>1, <2>2, <2>3
<1>7. Coming(d) => Coming(d)'
  <2>1. CASE dep[d] \in Live /\ InQueue(latest) /\ Fresh(d, latest)
    <3>1. CASE v = latest
      BY <1>4, <1>5, <2>1, <3>1 DEF Coming
    <3>2. CASE v # latest
      <4>1. InQueue(latest)'
        BY <1>3, <2>1, <3>2 DEF InQueue
      <4>2. Fresh(d, latest)'
        BY <1>4, <1>5, <2>1, <3>2 DEF Fresh
      <4>3. QED  BY <2>1, <4>1, <4>2 DEF Coming
    <3>3. QED  BY <3>1, <3>2
  <2>2. CASE \E i \in DOMAIN jobs[d] :
                jobs[d][i].value = latest /\ ~ jobs[d][i].sealed /\ OpenJob(d, i)
    BY <1>5, <2>2 DEF Coming, OpenJob
  <2>3. CASE /\ relay[d].at # "idle" /\ relay[d].value = latest
             /\ relay[d].at = "report" => ~ relay[d].ok /\ OpenJob(d, relay[d].job)
    BY <1>1, <1>5, <2>3 DEF Coming, TurnsInOrder
  <2>4. QED  BY <2>1, <2>2, <2>3 DEF Coming
<1>8. Arrived(d) => Arrived(d)'
  BY <1>6 DEF Arrived
<1>9. WillFetch(d) => WillFetch(d)'
  BY <1>5, <1>6 DEF WillFetch, OpenJob
<1>10. QED  BY <1>4, <1>5, <1>6, <1>7, <1>8, <1>9

LEMMA FanOutCarried == ASSUME Carried, NEW k \in 1 .. MaxValues, FanOut(k) PROVE Carried'
<1>1. TypeOK /\ QueueInOrder /\ faults' \in 0 .. MaxFaults
  BY FaultsBounded DEF Carried, FanOut
<1>2. PICK v \in Values : v = queue[k] /\ v \in Nat
  BY <1>1, QueueTyped, BoundsAssumption DEF FanOut, TypeOK, Values
<1>3. /\ k \in DOMAIN queue /\ (PromptQueue => k = 1)
      /\ jobs' = [ d \in Deployments |-> IF d \in Claimable /\ Fresh(d, v)
                                         THEN Append(jobs[d], NewJob(v, TRUE)) ELSE jobs[d] ]
      /\ queue' = queue \/ queue' = RemoveAt(queue, k)
      /\ UNCHANGED << dep, creating, latest, row, save, staged, bound, relay, store,
                      owed, vaulted, told, dropped, cut >>
  BY <1>2 DEF FanOut, vault, history
<1>4. v # 0 /\ v <= latest /\ (save.at = "queue" => v # latest) /\ 0 \in Values
  BY <1>1, <1>2, <1>3, QueueTyped, BoundsAssumption DEF QueueInOrder, Values
<1>5. /\ queue' \in Seq(1 .. MaxValues)
      /\ \A m, n \in DOMAIN queue' : m < n => queue'[m] < queue'[n]
      /\ \A n \in DOMAIN queue' : \E m \in DOMAIN queue : queue'[n] = queue[m]
      /\ PromptQueue => \A m \in DOMAIN queue : v <= queue[m]
  BY <1>1, <1>2, <1>3, QueueGoesOn
<1>6. TypeOK'
  <2>1. ASSUME NEW d \in Deployments PROVE jobs'[d] \in Seq(JobRows)
    BY <1>1, <1>3, Typed, Appended, NewJobTyped
  <2>2. jobs' \in [ Deployments -> Seq(JobRows) ]
    BY <1>3, <2>1
  <2>3. QED  BY <1>1, <1>3, <1>5, <2>2 DEF TypeOK
<1>7. QueueInOrder'
  BY <1>1, <1>3, <1>5 DEF QueueInOrder
<1>8. ASSUME NEW d \in Deployments PROVE Coherent(d)'
  <2>1. Coherent(d)
    BY DEF Carried
  <2>2. jobs'[d] = IF dep[d] \in Live /\ Fresh(d, v) THEN Append(jobs[d], NewJob(v, TRUE))
                   ELSE jobs[d]
    BY <1>3 DEF Claimable
  <2>3. InstallsInOrder(d)'
    BY <1>3, <2>1, <2>2 DEF Coherent, InstallsInOrder
  <2>4. JobsInOrder(d)' /\ TurnsInOrder(d)' /\ StaleRowGoes(d)'
    <3>1. CASE dep[d] \in Live /\ Fresh(d, v)
      <4>1. ASSUME PromptQueue, NEW i \in DOMAIN jobs[d] PROVE jobs[d][i].value < v
        <5>1. jobs[d][i].value <= v
          BY <1>2, <1>3, <2>1, <4>1 DEF Coherent, JobsInOrder
        <5>2. jobs[d][i].value # v
          BY <3>1 DEF Fresh
        <5>3. QED  BY <1>1, <1>2, <5>1, <5>2, Typed
      <4>2. PromptQueue => \A n \in DOMAIN queue' : v <= queue'[n]
        BY <1>5
      <4>3. jobs'[d] = Append(jobs[d], NewJob(v, TRUE))
        BY <2>2, <3>1
      <4>4. QED  BY <1>2, <1>3, <1>4, <1>5, <4>1, <4>2, <4>3, AppendKeeps
    <3>2. CASE ~ (dep[d] \in Live /\ Fresh(d, v))
      <4>1. jobs'[d] = jobs[d]
        BY <2>2, <3>2
      <4>2. JobsInOrder(d)'
        <5>1. JobsInOrder(d)
          BY <2>1 DEF Coherent
        <5>2. ASSUME PromptQueue, NEW i \in DOMAIN jobs'[d], NEW n \in DOMAIN queue'
              PROVE  jobs'[d][i].value <= queue'[n]
          BY <1>5, <4>1, <5>1, <5>2 DEF JobsInOrder
        <5>3. latest' = latest /\ save' = save
          BY <1>3
        <5>4. QED  BY <4>1, <5>1, <5>2, <5>3 DEF JobsInOrder
      <4>3. TurnsInOrder(d)' /\ StaleRowGoes(d)'
        <5>1. UNCHANGED << dep, relay, bound, store, cut, latest >>
          BY <1>3
        <5>2. QED  BY <2>1, <4>1, <5>1 DEF Coherent, TurnsInOrder, StaleRowGoes, OpenJob
      <4>4. QED  BY <4>2, <4>3
    <3>3. QED  BY <3>1, <3>2
  <2>5. ASSUME PromptQueue PROVE MessageComes(d)' /\ PromiseKept(d)'
    <3>1. MessageComes(d) /\ PromiseKept(d) /\ (d \in owed \/ save.at # "idle" => latest # 0)
      BY <1>1, <2>1, <2>5 DEF Coherent, InstallsInOrder, QueueInOrder
    <3>2. latest # 0 =>
             /\ Older(d)' => Older(d)
             /\ Coming(d) => Coming(d)'
             /\ Arrived(d) => Arrived(d)'
             /\ WillFetch(d) => WillFetch(d)'
             /\ \A i \in DOMAIN jobs'[d] : jobs'[d][i].state = "failed" =>
                   i \in DOMAIN jobs[d] /\ jobs'[d][i] = jobs[d][i]
      BY <1>2, <1>3, <2>2, FanOutShows
    <3>3. MessageComes(d)'
      BY <1>3, <3>1, <3>2 DEF MessageComes
    <3>4. PromiseKept(d)'
      BY <1>3, <3>1, <3>2 DEF PromiseKept
    <3>5. QED  BY <3>3, <3>4
  <2>6. QED  BY <2>3, <2>4, <2>5 DEF Coherent
<1>9. QED  BY <1>6, <1>7, <1>8 DEF Carried

-----------------------------------------------------------------------------
(* The jobs and the relay. *)

\* A job goes to another state; nothing else of it changes, but a claim may seal it.
Becomes(d, i, state, sealed) ==
    /\ jobs' \in [ Deployments -> Seq(JobRows) ]
    /\ \A e \in Deployments \ { d } : jobs'[e] = jobs[e]
    /\ DOMAIN jobs'[d] = DOMAIN jobs[d]
    /\ \A k \in DOMAIN jobs[d] :
          /\ jobs'[d][k].value = jobs[d][k].value /\ jobs'[d][k].names = jobs[d][k].names
          /\ k # i => jobs'[d][k] = jobs[d][k]
    /\ jobs'[d][i].state = state
    /\ jobs'[d][i].sealed <=> sealed

LEMMA JobBecomes ==
    ASSUME TypeOK, NEW d \in Deployments, NEW i \in DOMAIN jobs[d], NEW job \in JobRows,
           job.value = jobs[d][i].value, job.names = jobs[d][i].names,
           jobs' = [ jobs EXCEPT ![d] = [ jobs[d] EXCEPT ![i] = job ] ]
    PROVE  Becomes(d, i, job.state, job.sealed)
<1>1. jobs[d] \in Seq(JobRows) /\ jobs[d][i] \in JobRows /\ jobs \in [ Deployments -> Seq(JobRows) ]
  BY Typed DEF TypeOK
<1>2. [ jobs[d] EXCEPT ![i] = job ] \in Seq(JobRows)
  BY <1>1
<1>3. jobs' \in [ Deployments -> Seq(JobRows) ] /\ jobs'[d] = [ jobs[d] EXCEPT ![i] = job ]
      /\ \A e \in Deployments \ { d } : jobs'[e] = jobs[e]
  BY <1>1, <1>2
<1>4. /\ DOMAIN jobs'[d] = DOMAIN jobs[d] /\ jobs'[d][i] = job
      /\ \A k \in DOMAIN jobs[d] : k # i => jobs'[d][k] = jobs[d][k]
  BY <1>1, <1>3
<1>5. QED  BY <1>3, <1>4 DEF Becomes

LEMMA JobGoesTo ==
    ASSUME TypeOK, NEW d \in Deployments, NEW i \in DOMAIN jobs[d],
           NEW state \in { "offered", "claimed", "done", "failed" },
           jobs' = [ jobs EXCEPT ![d][i].state = state ]
    PROVE  Becomes(d, i, state, jobs[d][i].sealed)
<1>1. jobs[d][i] \in JobRows
  BY Typed
<1> DEFINE settled == [ jobs[d][i] EXCEPT !.state = state ]
<1>2. /\ settled \in JobRows
      /\ settled.value = jobs[d][i].value /\ settled.names = jobs[d][i].names
      /\ settled.state = state /\ settled.sealed = jobs[d][i].sealed
  BY <1>1 DEF JobRows
<1>3. jobs' = [ jobs EXCEPT ![d] = [ jobs[d] EXCEPT ![i] = settled ] ]
  OBVIOUS
<1> HIDE DEF settled
<1>4. PICK job \in JobRows : job = settled
  BY <1>2
<1>5. Becomes(d, i, job.state, job.sealed)
  BY <1>2, <1>3, <1>4, JobBecomes
<1>6. QED  BY <1>2, <1>4, <1>5

\* The order of the jobs does not depend on their states.
LEMMA OrderStays ==
    ASSUME NEW d \in Deployments, JobsInOrder(d), InstallsInOrder(d), NEW i \in DOMAIN jobs[d],
           NEW state, NEW sealed \in BOOLEAN, Becomes(d, i, state, sealed),
           jobs[d][i].sealed => sealed,
           UNCHANGED << dep, creating, latest, save, queue, store, owed >>,
           bound'[d] \in { 0, bound[d] }, TypeOK
    PROVE  JobsInOrder(d)' /\ InstallsInOrder(d)'
<1>1. dep[d] \in Live
  BY DEF InstallsInOrder
<1>2. /\ DOMAIN jobs'[d] = DOMAIN jobs[d]
      /\ \A k \in DOMAIN jobs[d] :
            /\ jobs'[d][k].value = jobs[d][k].value /\ jobs'[d][k].names = jobs[d][k].names
            /\ jobs[d][k].sealed => jobs'[d][k].sealed
  BY DEF Becomes
<1>3. JobsInOrder(d)'
  BY <1>2 DEF JobsInOrder
<1>4. InstallsInOrder(d)'
  BY <1>1, Typed DEF InstallsInOrder, Live
<1>5. QED  BY <1>3, <1>4

LEMMA RequeueCarried == ASSUME Carried, NEW d \in Deployments, Requeue(d) PROVE Carried'
<1>1. PICK i \in DOMAIN jobs[d] :
         jobs[d][i].state = "claimed" /\ jobs' = [ jobs EXCEPT ![d][i].state = "offered" ]
  BY DEF Requeue
<1>2. UNCHANGED << dep, creating, latest, row, save, queue, staged, bound, relay, store,
                   owed, vaulted, told, dropped, cut >>
  BY DEF Requeue, vault, history
<1>3. TypeOK /\ QueueInOrder /\ Coherent(d) /\ faults' \in 0 .. MaxFaults
  BY FaultsBounded DEF Carried, Requeue
<1>4. Becomes(d, i, "offered", jobs[d][i].sealed)
  BY <1>1, <1>3, JobGoesTo
<1>5. TypeOK'
  BY <1>2, <1>3, <1>4 DEF TypeOK, Becomes
<1>6. ASSUME NEW e \in Deployments \ { d } PROVE Same(e)
  BY <1>2, <1>4 DEF Same, Becomes
<1>7. /\ DOMAIN jobs'[d] = DOMAIN jobs[d]
      /\ \A k \in DOMAIN jobs[d] :
            /\ jobs'[d][k].value = jobs[d][k].value /\ jobs'[d][k].names = jobs[d][k].names
            /\ jobs'[d][k].sealed <=> jobs[d][k].sealed
            /\ k # i => jobs'[d][k] = jobs[d][k]
            /\ OpenJob(d, k)' <=> OpenJob(d, k)
      /\ jobs'[d][i].state = "offered"
  BY <1>1, <1>4 DEF Becomes, OpenJob
<1>8. Coherent(d)'
  <2>1. JobsInOrder(d)' /\ InstallsInOrder(d)'
    <3>1. jobs[d][i].sealed \in BOOLEAN
      BY <1>3, Typed
    <3>2. QED  BY <1>2, <1>3, <1>4, <3>1, OrderStays DEF Coherent
  <2>2. TurnsInOrder(d)'
    <3>1. TurnsInOrder(d) /\ OpenJob(d, i) /\ ~ Unclaimed(jobs[d][i])
      BY <1>1, <1>3 DEF Coherent, OpenJob, Unclaimed
    <3>2. \A m, k \in DOMAIN jobs'[d] :
             m < k /\ OpenJob(d, m)' => k # i /\ Unclaimed(jobs'[d][k])
      BY <1>7, <3>1 DEF TurnsInOrder
    <3>3. relay'[d].at # "idle" =>
             /\ dep'[d] \in { "failed", "running" } /\ relay'[d].job \in DOMAIN jobs'[d]
             /\ jobs'[d][relay'[d].job].sealed /\ jobs'[d][relay'[d].job].state # "done"
             /\ relay'[d].value \in { 0, jobs'[d][relay'[d].job].value }
             /\ relay'[d].fetched <= latest'
      BY <1>2, <1>7, <3>1 DEF TurnsInOrder
    <3>4. ASSUME relay'[d].at # "idle", NEW k \in DOMAIN jobs'[d]
          PROVE  /\ k < relay'[d].job => ~ OpenJob(d, k)'
                 /\ k > relay'[d].job => Unclaimed(jobs'[d][k])
      BY <1>2, <1>7, <3>1, <3>4 DEF TurnsInOrder
    <3>5. QED  BY <1>2, <3>1, <3>2, <3>3, <3>4 DEF TurnsInOrder
  <2>3. StaleRowGoes(d)'
    BY <1>1, <1>2, <1>3, <1>7 DEF Coherent, StaleRowGoes
  <2>4. ASSUME PromptQueue PROVE MessageComes(d)' /\ PromiseKept(d)'
    <3>1. MessageComes(d) /\ PromiseKept(d) /\ TurnsInOrder(d)
      BY <1>3, <2>4 DEF Coherent
    <3>2. Older(d)' <=> Older(d)
      BY <1>2, <1>7 DEF Older
    <3>3. Coming(d)' <=> Coming(d)
      BY <1>2, <1>7, <3>1 DEF Coming, InQueue, Fresh, TurnsInOrder
    <3>4. (Arrived(d)' <=> Arrived(d)) /\ (WillFetch(d)' <=> WillFetch(d))
      BY <1>2, <1>7, <3>2 DEF Arrived, WillFetch
    <3>5. MessageComes(d)'
      BY <1>2, <1>7, <3>1, <3>2, <3>3, <3>4 DEF MessageComes
    <3>6. PromiseKept(d)'
      BY <1>2, <3>1, <3>3, <3>4 DEF PromiseKept
    <3>7. QED  BY <3>5, <3>6
  <2>5. QED  BY <2>1, <2>2, <2>3, <2>4 DEF Coherent
<1>9. save.at # "idle" => owed' = {}
  BY <1>2, <1>3 DEF QueueInOrder
<1>10. QED  BY <1>2, <1>5, <1>6, <1>8, <1>9, OneDeployment

LEMMA GiveUpCarried == ASSUME Carried, NEW d \in Deployments, GiveUp(d) PROVE Carried'
<1>1. PICK i \in DOMAIN jobs[d] :
         OpenJob(d, i) /\ jobs' = [ jobs EXCEPT ![d][i].state = "failed" ]
  BY DEF GiveUp
<1>2. /\ told' = told \cup { d }
      /\ UNCHANGED << dep, creating, latest, row, save, queue, staged, bound, relay, store,
                      owed, vaulted, dropped, cut >>
  BY DEF GiveUp, vault
<1>3. TypeOK /\ QueueInOrder /\ Coherent(d) /\ faults' \in 0 .. MaxFaults
  BY FaultsBounded DEF Carried, GiveUp
<1>4. Becomes(d, i, "failed", jobs[d][i].sealed)
  BY <1>1, <1>3, JobGoesTo
<1>5. TypeOK'
  BY <1>2, <1>3, <1>4 DEF TypeOK, Becomes
<1>6. ASSUME NEW e \in Deployments \ { d } PROVE Same(e)
  BY <1>2, <1>4 DEF Same, Becomes
<1>7. /\ DOMAIN jobs'[d] = DOMAIN jobs[d]
      /\ \A k \in DOMAIN jobs[d] :
            /\ jobs'[d][k].value = jobs[d][k].value /\ jobs'[d][k].names = jobs[d][k].names
            /\ jobs'[d][k].sealed <=> jobs[d][k].sealed
            /\ k # i => jobs'[d][k] = jobs[d][k]
            /\ OpenJob(d, k)' => k # i /\ OpenJob(d, k)
            /\ Unclaimed(jobs[d][k]) => Unclaimed(jobs'[d][k])
      /\ jobs'[d][i].state = "failed"
  BY <1>1, <1>4 DEF Becomes, OpenJob, Unclaimed
<1>8. Coherent(d)'
  <2>1. JobsInOrder(d)' /\ InstallsInOrder(d)'
    <3>1. jobs[d][i].sealed \in BOOLEAN
      BY <1>3, Typed
    <3>2. QED  BY <1>2, <1>3, <1>4, <3>1, OrderStays DEF Coherent
  <2>2. TurnsInOrder(d)'
    <3>1. TurnsInOrder(d)
      BY <1>3 DEF Coherent
    <3>2. \A m, k \in DOMAIN jobs'[d] : m < k /\ OpenJob(d, m)' => Unclaimed(jobs'[d][k])
      BY <1>7, <3>1 DEF TurnsInOrder
    <3>3. relay'[d].at # "idle" =>
             /\ dep'[d] \in { "failed", "running" } /\ relay'[d].job \in DOMAIN jobs'[d]
             /\ jobs'[d][relay'[d].job].sealed /\ jobs'[d][relay'[d].job].state # "done"
             /\ relay'[d].value \in { 0, jobs'[d][relay'[d].job].value }
             /\ relay'[d].fetched <= latest'
      BY <1>2, <1>7, <3>1 DEF TurnsInOrder
    <3>4. ASSUME relay'[d].at # "idle", NEW k \in DOMAIN jobs'[d]
          PROVE  /\ k < relay'[d].job => ~ OpenJob(d, k)'
                 /\ k > relay'[d].job => Unclaimed(jobs'[d][k])
      BY <1>2, <1>7, <3>1, <3>4 DEF TurnsInOrder
    <3>5. QED  BY <1>2, <3>1, <3>2, <3>3, <3>4 DEF TurnsInOrder
  <2>3. StaleRowGoes(d)'
    BY <1>2, <1>3, <1>7 DEF Coherent, StaleRowGoes
  <2>4. ASSUME PromptQueue PROVE MessageComes(d)' /\ PromiseKept(d)'
    <3>1. MessageComes(d) /\ PromiseKept(d) /\ InstallsInOrder(d)
      BY <1>3, <2>4 DEF Coherent
    <3>2. d \in told' /\ dep[d] \in Live
      BY <1>2, <3>1 DEF InstallsInOrder
    <3>3. MessageComes(d)'
      BY <3>2 DEF MessageComes
    <3>4. PromiseKept(d)'
      BY <1>2, <3>1, <3>2 DEF PromiseKept, Live
    <3>5. QED  BY <3>3, <3>4
  <2>5. QED  BY <2>1, <2>2, <2>3, <2>4 DEF Coherent
<1>9. save.at # "idle" => owed' = {}
  BY <1>2, <1>3 DEF QueueInOrder
<1>10. QED  BY <1>2, <1>5, <1>6, <1>8, <1>9, OneDeployment

LEMMA CutOffCarried == ASSUME Carried, NEW d \in Deployments, CutOff(d) PROVE Carried'
<1>1. /\ relay[d].at # "idle" /\ relay' = [ relay EXCEPT ![d] = Resting ]
      /\ dropped' = IF relay[d].value = 0 THEN dropped ELSE dropped \cup { d }
      /\ UNCHANGED << dep, creating, latest, row, save, queue, staged, bound, jobs, store,
                      owed, vaulted, told, cut >>
  BY DEF CutOff, vault
<1>2. TypeOK /\ QueueInOrder /\ Coherent(d) /\ faults' \in 0 .. MaxFaults
  BY FaultsBounded DEF Carried, CutOff
<1>3. TypeOK'
  <2>1. relay' \in [ Deployments -> Turns ] /\ dropped' \subseteq Deployments
    BY <1>1, <1>2, RestingFields DEF TypeOK
  <2>2. QED  BY <1>1, <1>2, <2>1 DEF TypeOK
<1>4. ASSUME NEW e \in Deployments \ { d } PROVE Same(e)
  BY <1>1, <1>2 DEF Same, TypeOK
<1>5. relay'[d] = Resting
  BY <1>1, <1>2 DEF TypeOK
<1>6. Coherent(d)'
  <2>1. JobsInOrder(d)' /\ InstallsInOrder(d)'
    BY <1>1, <1>2 DEF Coherent, JobsInOrder, InstallsInOrder
  <2>2. TurnsInOrder(d)' /\ StaleRowGoes(d)'
    BY <1>1, <1>2, <1>5, RestingFields DEF Coherent, TurnsInOrder, StaleRowGoes, OpenJob
  <2>3. ASSUME PromptQueue PROVE MessageComes(d)' /\ PromiseKept(d)'
    <3>1. /\ MessageComes(d) /\ PromiseKept(d)
          /\ d \in owed \/ save.at = "persist" => latest # 0
      BY <1>2, <2>3 DEF Coherent, QueueInOrder, InstallsInOrder
    <3>2. Older(d)' => Older(d)
      BY <1>1, <1>5, RestingFields DEF Older, OpenJob
    <3>3. d \notin dropped' => d \notin dropped /\ relay[d].value = 0
      BY <1>1
    <3>4. Coming(d) /\ latest # 0 /\ d \notin dropped' => Coming(d)'
      BY <1>1, <1>5, <3>3, RestingFields DEF Coming, OpenJob, InQueue, Fresh
    <3>5. Arrived(d) /\ latest # 0 /\ d \notin dropped' => Arrived(d)'
      BY <1>1, <1>5, <3>2, <3>3, RestingFields DEF Arrived
    <3>6. WillFetch(d) => WillFetch(d)'
      BY <1>1, <1>5, <3>2, RestingFields DEF WillFetch, OpenJob
    <3>7. MessageComes(d)'
      BY <1>1, <3>1, <3>2, <3>3, <3>4, <3>5 DEF MessageComes
    <3>8. PromiseKept(d)'
      BY <1>1, <3>1, <3>3, <3>4, <3>5, <3>6 DEF PromiseKept
    <3>9. QED  BY <3>7, <3>8
  <2>4. QED  BY <2>1, <2>2, <2>3 DEF Coherent
<1>7. save.at # "idle" => owed' = {}
  BY <1>1, <1>2 DEF QueueInOrder
<1>8. QED  BY <1>1, <1>3, <1>4, <1>6, <1>7, OneDeployment

\* The job whose value the relay holds is open, unless the vendor was told.
LEMMA HeldIsOpen ==
    ASSUME TypeOK, NEW d \in Deployments, TurnsInOrder(d), MessageComes(d),
           relay[d].at # "idle", relay[d].value = latest, latest # 0, d \notin told
    PROVE  OpenJob(d, relay[d].job)
<1>1. /\ relay[d].job \in DOMAIN jobs[d] /\ jobs[d][relay[d].job].state # "done"
      /\ jobs[d][relay[d].job].value = latest
  BY DEF TurnsInOrder
<1>2. jobs[d][relay[d].job].state # "failed"
  BY <1>1 DEF MessageComes
<1>3. QED  BY <1>1, <1>2, Typed DEF OpenJob

LEMMA FetchCarried == ASSUME Carried, NEW d \in Deployments, Fetch(d) PROVE Carried'
<1>1. /\ relay[d].at = "fetch"
      /\ \/ /\ dep[d] = "running"
            /\ relay' = [ relay EXCEPT ![d] = [ [ relay[d] EXCEPT !.at = "write" ]
                                                   EXCEPT !.fetched = bound[d] ] ]
         \/ /\ dep[d] = "running"
            /\ relay' = [ relay EXCEPT ![d] = [ [ relay[d] EXCEPT !.at = "write" ]
                                                   EXCEPT !.omitted = TRUE ] ]
         \/ relay' = [ relay EXCEPT ![d] = [ relay[d] EXCEPT !.at = "report" ] ]
      /\ UNCHANGED << dep, creating, latest, row, save, queue, staged, bound, jobs, store,
                      owed, vaulted, told, dropped, cut >>
  BY DEF Fetch, vault, history
<1>2. TypeOK /\ QueueInOrder /\ Coherent(d) /\ faults' \in 0 .. MaxFaults
  BY FaultsBounded DEF Carried, Fetch
<1>3. relay[d] \in Turns /\ bound[d] \in Values
  BY <1>2, Typed DEF TypeOK
<1>4. /\ relay' \in [ Deployments -> Turns ]
      /\ \A e \in Deployments \ { d } : relay'[e] = relay[e]
      /\ relay'[d].job = relay[d].job /\ relay'[d].value = relay[d].value
      /\ relay'[d].ok = relay[d].ok
      /\ \/ /\ dep[d] = "running" /\ relay'[d].at = "write" /\ relay'[d].fetched = bound[d]
            /\ relay'[d].omitted = relay[d].omitted
         \/ /\ dep[d] = "running" /\ relay'[d].at = "write"
            /\ relay'[d].fetched = relay[d].fetched /\ relay'[d].omitted = TRUE
         \/ /\ relay'[d].at = "report" /\ relay'[d].fetched = relay[d].fetched
            /\ relay'[d].omitted = relay[d].omitted
  <2>1. relay \in [ Deployments -> Turns ]
    BY <1>2 DEF TypeOK
  <2>2. CASE /\ dep[d] = "running"
             /\ relay' = [ relay EXCEPT ![d] = [ [ relay[d] EXCEPT !.at = "write" ]
                                                    EXCEPT !.fetched = bound[d] ] ]
    BY <1>3, <2>1, <2>2 DEF Turns
  <2>3. CASE relay' = [ relay EXCEPT ![d] = [ relay[d] EXCEPT !.at = "report" ] ]
    BY <1>3, <2>1, <2>3 DEF Turns
  <2>4. CASE /\ dep[d] = "running"
             /\ relay' = [ relay EXCEPT ![d] = [ [ relay[d] EXCEPT !.at = "write" ]
                                                    EXCEPT !.omitted = TRUE ] ]
    BY <1>3, <2>1, <2>4 DEF Turns
  <2>5. QED  BY <1>1, <2>2, <2>3, <2>4
<1>5. TypeOK'
  BY <1>1, <1>2, <1>4 DEF TypeOK
<1>6. ASSUME NEW e \in Deployments \ { d } PROVE Same(e)
  BY <1>1, <1>4 DEF Same
<1>7. relay[d].ok = FALSE /\ relay[d].omitted = FALSE /\ relay[d].fetched \in Nat
  BY <1>1, <1>2, Typed DEF Coherent, TurnsInOrder
<1>f. relay[d].fetched = 0
  BY <1>1, <1>2 DEF Coherent, TurnsInOrder
<1>8. Coherent(d)'
  <2>1. JobsInOrder(d)' /\ InstallsInOrder(d)'
    BY <1>1, <1>2 DEF Coherent, JobsInOrder, InstallsInOrder
  <2>2. TurnsInOrder(d)'
    <3>1. TurnsInOrder(d) /\ bound[d] <= latest
      BY <1>2 DEF Coherent, InstallsInOrder
    <3>2. QED  BY <1>1, <1>4, <1>7, <1>f, <3>1 DEF TurnsInOrder, OpenJob
  <2>3. StaleRowGoes(d)'
    <3>1. StaleRowGoes(d) /\ bound[d] \in Nat
      BY <1>2, Typed DEF Coherent
    <3>2. QED  BY <1>1, <1>4, <1>f, <3>1 DEF StaleRowGoes
  <2>4. ASSUME PromptQueue PROVE MessageComes(d)' /\ PromiseKept(d)'
    <3>1. /\ MessageComes(d) /\ PromiseKept(d) /\ TurnsInOrder(d)
          /\ d \in owed \/ save.at = "persist" => latest # 0
      BY <1>2, <2>4 DEF Coherent, QueueInOrder, InstallsInOrder
    <3>2. Older(d)' => Older(d)
      BY <1>1, <1>4 DEF Older, OpenJob
    <3>3. Coming(d) /\ latest # 0 /\ d \notin told => Coming(d)'
      <4>1. CASE relay[d].value = latest
        BY <1>1, <1>2, <1>4, <1>7, <3>1, <4>1, HeldIsOpen DEF Coming, OpenJob
      <4>2. CASE relay[d].value # latest
        BY <1>1, <1>4, <4>2 DEF Coming, OpenJob, InQueue, Fresh
      <4>3. QED  BY <4>1, <4>2
    <3>4. Arrived(d) => Arrived(d)'
      BY <1>1, <1>4, <1>f, <3>2 DEF Arrived
    <3>5. WillFetch(d) => WillFetch(d)'
      BY <1>1, <1>4, <1>7, <3>2 DEF WillFetch, OpenJob
    <3>6. MessageComes(d)'
      BY <1>1, <3>1, <3>2, <3>3, <3>4 DEF MessageComes
    <3>7. PromiseKept(d)'
      BY <1>1, <3>1, <3>3, <3>4, <3>5 DEF PromiseKept
    <3>8. QED  BY <3>6, <3>7
  <2>5. QED  BY <2>1, <2>2, <2>3, <2>4 DEF Coherent
<1>9. save.at # "idle" => owed' = {}
  BY <1>1, <1>2 DEF QueueInOrder
<1>10. QED  BY <1>1, <1>5, <1>6, <1>8, <1>9, OneDeployment

LEMMA WriteCarried == ASSUME Carried, NEW d \in Deployments, Write(d) PROVE Carried'
<1>1. /\ relay[d].at = "write"
      /\ \/ /\ store' = [ store EXCEPT ![d] = Merged(relay[d], store[d]) ]
            /\ \/ relay' = [ relay EXCEPT ![d] = [ [ relay[d] EXCEPT !.at = "report" ]
                                                      EXCEPT !.ok = TRUE ] ]
               \/ relay' = [ relay EXCEPT ![d] = [ relay[d] EXCEPT !.at = "report" ] ]
         \/ /\ relay' = [ relay EXCEPT ![d] = [ relay[d] EXCEPT !.at = "report" ] ]
            /\ store' = store
      /\ UNCHANGED << dep, creating, latest, row, save, queue, staged, bound, jobs,
                      owed, vaulted, told, dropped, cut >>
  BY DEF Write, vault, history
<1>2. TypeOK /\ QueueInOrder /\ Coherent(d) /\ faults' \in 0 .. MaxFaults
  BY FaultsBounded DEF Carried, Write
<1>3. relay[d] \in Turns /\ Merged(relay[d], store[d]) \in Values
  BY <1>2, Typed DEF TypeOK, Merged, Turns
<1>4. /\ relay' \in [ Deployments -> Turns ]
      /\ \A e \in Deployments \ { d } : relay'[e] = relay[e]
      /\ relay'[d].job = relay[d].job /\ relay'[d].value = relay[d].value
      /\ relay'[d].fetched = relay[d].fetched /\ relay'[d].at = "report"
      /\ relay'[d].omitted = relay[d].omitted
  <2>1. relay \in [ Deployments -> Turns ]
    BY <1>2 DEF TypeOK
  <2>2. CASE relay' = [ relay EXCEPT ![d] = [ [ relay[d] EXCEPT !.at = "report" ]
                                                 EXCEPT !.ok = TRUE ] ]
    BY <1>3, <2>1, <2>2 DEF Turns
  <2>3. CASE relay' = [ relay EXCEPT ![d] = [ relay[d] EXCEPT !.at = "report" ] ]
    BY <1>3, <2>1, <2>3 DEF Turns
  <2>4. QED  BY <1>1, <2>2, <2>3
<1>5. /\ store' \in [ Deployments -> Values ]
      /\ \A e \in Deployments \ { d } : store'[e] = store[e]
      /\ store'[d] \in { Merged(relay[d], store[d]), store[d] }
  BY <1>1, <1>2, <1>3 DEF TypeOK
<1>6. relay'[d].ok => store'[d] = Merged(relay[d], store[d])
  <2>1. relay[d].ok = FALSE
    BY <1>1, <1>2, Typed DEF Coherent, TurnsInOrder
  <2>2. CASE store' = [ store EXCEPT ![d] = Merged(relay[d], store[d]) ]
    BY <1>2, <2>2 DEF TypeOK
  <2>3. CASE relay' = [ relay EXCEPT ![d] = [ relay[d] EXCEPT !.at = "report" ] ]
    BY <1>2, <1>3, <2>1, <2>3 DEF TypeOK, Turns
  <2>4. QED  BY <1>1, <2>2, <2>3
<1>7. TypeOK'
  BY <1>1, <1>2, <1>4, <1>5 DEF TypeOK
<1>8. ASSUME NEW e \in Deployments \ { d } PROVE Same(e)
  BY <1>1, <1>4, <1>5 DEF Same
<1>9. Coherent(d)'
  <2>1. /\ dep[d] = "running" /\ relay[d].job \in DOMAIN jobs[d]
        /\ relay[d].value \in { 0, jobs[d][relay[d].job].value }
        /\ jobs[d][relay[d].job].value <= latest /\ relay[d].fetched <= latest
        /\ store[d] <= latest /\ jobs[d][relay[d].job].state # "done"
        /\ relay[d].value # 0 => jobs[d][relay[d].job].names
        /\ TurnsInOrder(d) /\ JobsInOrder(d)
    BY <1>1, <1>2 DEF Coherent, InstallsInOrder, TurnsInOrder, JobsInOrder
  <2>2. JobsInOrder(d)'
    BY <1>1, <2>1 DEF JobsInOrder
  <2>3. InstallsInOrder(d)'
    <3>1. store'[d] <= latest
      BY <1>2, <1>5, <2>1, Typed DEF Merged
    <3>2. QED  BY <1>1, <1>2, <2>1, <3>1 DEF Coherent, InstallsInOrder
  <2>4. TurnsInOrder(d)'
    BY <1>1, <1>4, <2>1 DEF TurnsInOrder, OpenJob
  <2>5. StaleRowGoes(d)'
    BY <1>1, <1>2, <1>4, <1>5, <2>1, Typed DEF Coherent, StaleRowGoes, Merged
  <2>6. ASSUME PromptQueue PROVE MessageComes(d)' /\ PromiseKept(d)'
    <3>1. /\ MessageComes(d) /\ PromiseKept(d)
          /\ d \in owed \/ save.at = "persist" => latest # 0
      BY <1>2, <2>6 DEF Coherent, QueueInOrder, InstallsInOrder
    <3>2. Older(d)' => Older(d)
      BY <1>1, <1>4 DEF Older, OpenJob
    \* Whoever holds the latest value holds the last one.
    <3>3. relay[d].value = latest /\ latest # 0 => ~ Older(d)'
      <4>1. SUFFICES ASSUME relay[d].value = latest, latest # 0
                     PROVE  ~ Older(d)'
        OBVIOUS
      <4>2. jobs[d][relay[d].job].value = latest
        BY <2>1, <4>1
      <4>3. \A n \in DOMAIN queue : ~ (queue[n] < latest)
        BY <1>2, <2>1, <2>6, <4>2, Typed, QueueTyped DEF JobsInOrder
      <4>4. ASSUME NEW k \in DOMAIN jobs[d], jobs[d][k].value < latest,
                   ~ jobs[d][k].sealed, OpenJob(d, k)
            PROVE  FALSE
        <5>1. k > relay[d].job
          BY <1>1, <1>2, <2>1, <4>2, <4>4, Typed DEF TurnsInOrder
        <5>2. jobs[d][k].value # 0
          BY <2>1, <4>4 DEF JobsInOrder
        <5>3. latest < jobs[d][k].value
          BY <2>1, <2>6, <4>2, <5>1, <5>2 DEF JobsInOrder
        <5>4. QED  BY <1>2, <4>4, <5>3, Typed
      <4>5. QED  BY <1>1, <1>4, <4>3, <4>4 DEF Older, OpenJob
    <3>4. Arrived(d) => Arrived(d)'
      BY <1>1, <1>4, <1>5, <3>2 DEF Arrived, Older, Merged
    <3>5. relay[d].value = latest /\ latest # 0 /\ relay'[d].ok => Arrived(d)'
      BY <1>1, <1>4, <1>6, <3>3 DEF Arrived, Merged
    <3>6. Coming(d) /\ latest # 0 /\ d \notin told =>
             Coming(d)' \/ (relay[d].value = latest /\ relay'[d].ok)
      <4>1. CASE relay[d].value = latest
        BY <1>1, <1>2, <1>4, <2>1, <3>1, <4>1, HeldIsOpen DEF Coming, OpenJob
      <4>2. CASE relay[d].value # latest
        BY <1>1, <1>4, <4>2 DEF Coming, OpenJob, InQueue, Fresh
      <4>3. QED  BY <4>1, <4>2
    <3>7. WillFetch(d) /\ latest # 0 => WillFetch(d)' \/ Arrived(d)'
      <4>1. CASE relay'[d].ok
        <5>1. WillFetch(d) /\ latest # 0 /\ ~ relay[d].omitted => store'[d] = latest
          BY <1>1, <1>6, <4>1 DEF WillFetch, Older, Merged
        <5>2. WillFetch(d) /\ relay[d].omitted => WillFetch(d)'
          BY <1>1, <1>4, <3>2 DEF WillFetch, OpenJob
        <5>3. QED  BY <1>1, <1>4, <3>2, <5>1, <5>2 DEF WillFetch, Arrived
      <4>2. CASE ~ relay'[d].ok
        BY <1>1, <1>4, <3>2, <4>2 DEF WillFetch, OpenJob
      <4>3. QED  BY <4>1, <4>2
    <3>8. MessageComes(d)'
      BY <1>1, <3>1, <3>2, <3>3, <3>4, <3>5, <3>6 DEF MessageComes
    <3>9. PromiseKept(d)'
      BY <1>1, <2>1, <3>1, <3>4, <3>5, <3>6, <3>7 DEF PromiseKept
    <3>10. QED  BY <3>8, <3>9
  <2>7. QED  BY <2>2, <2>3, <2>4, <2>5, <2>6 DEF Coherent
<1>10. save.at # "idle" => owed' = {}
  BY <1>1, <1>2 DEF QueueInOrder
<1>11. QED  BY <1>1, <1>7, <1>8, <1>9, <1>10, OneDeployment

\* What a claim does to the job and the relay.
Claims(d, i) ==
    /\ jobs[d][i].state = "offered" /\ dep[d] \in { "failed", "running" }
    /\ \A k \in DOMAIN jobs[d] : k < i => ~ OpenJob(d, k)
    /\ relay[d] = Resting
    /\ \/ /\ Becomes(d, i, "claimed", TRUE)
          /\ relay'[d].at = "fetch" /\ relay'[d].job = i /\ relay'[d].fetched = 0
          /\ relay'[d].ok = FALSE /\ relay'[d].omitted = FALSE /\ dropped' = dropped
          /\ relay'[d].value = IF jobs[d][i].sealed THEN 0 ELSE jobs[d][i].value
       \/ /\ relay' = relay
          /\ \/ Becomes(d, i, "claimed", jobs[d][i].sealed) /\ dropped' = dropped
             \/ /\ Becomes(d, i, "claimed", TRUE)
                /\ dropped' = dropped \cup { d }
             \/ /\ Becomes(d, i, "claimed", TRUE) /\ dropped' = dropped
                /\ jobs[d][i].sealed \/ jobs[d][i].value = 0
    /\ relay' \in [ Deployments -> Turns ]
    /\ \A e \in Deployments \ { d } : relay'[e] = relay[e]

LEMMA ClaimClaims ==
    ASSUME Carried, NEW d \in Deployments, Claim(d)
    PROVE  \E i \in DOMAIN jobs[d] : Claims(d, i)
<1>1. TypeOK /\ relay[d] = Resting /\ dep[d] \in { "failed", "running" }
      /\ \A k \in DOMAIN jobs[d] : jobs[d][k].state # "claimed"
  BY DEF Carried, Claim
<1>2. PICK i \in DOMAIN jobs[d], redacted \in BOOLEAN :
         /\ jobs[d][i].state = "offered"
         /\ \A k \in 1 .. i - 1 : jobs[d][k].state # "offered"
         /\ jobs' = [ jobs EXCEPT ![d][i].state = "claimed", ![d][i].sealed = @ \/ redacted ]
         /\ LET value == IF jobs[d][i].sealed THEN 0 ELSE jobs[d][i].value IN
            \/ /\ redacted
               /\ relay' = [ relay EXCEPT ![d] =
                    [ Resting EXCEPT !.at = "fetch", !.job = i, !.value = value ] ]
               /\ UNCHANGED dropped
            \/ /\ dropped' = IF value # 0 /\ redacted THEN dropped \cup { d } ELSE dropped
               /\ UNCHANGED relay
  BY DEF Claim
<1>3. jobs[d][i] \in JobRows /\ i \in Nat
  BY <1>1, Typed
<1>4. ASSUME NEW k \in DOMAIN jobs[d], k < i PROVE ~ OpenJob(d, k)
  <2>1. k \in 1 .. Len(jobs[d]) /\ Len(jobs[d]) \in Nat
    BY <1>1, Typed
  <2>2. k \in 1 .. i - 1
    BY <1>3, <1>4, <2>1
  <2>3. QED  BY <1>1, <1>2, <2>2 DEF OpenJob
<1> DEFINE claimed == [ jobs[d][i] EXCEPT !.state = "claimed",
                                          !.sealed = jobs[d][i].sealed \/ redacted ]
<1>5. /\ claimed \in JobRows /\ claimed.state = "claimed"
      /\ claimed.value = jobs[d][i].value /\ claimed.names = jobs[d][i].names
      /\ claimed.sealed <=> jobs[d][i].sealed \/ redacted
  BY <1>3 DEF JobRows
<1>6. jobs' = [ jobs EXCEPT ![d] = [ jobs[d] EXCEPT ![i] = claimed ] ]
  BY <1>1, <1>2, <1>3, Typed DEF TypeOK
<1> HIDE DEF claimed
<1>7. PICK job \in JobRows : job = claimed
  BY <1>5
<1>8. Becomes(d, i, job.state, job.sealed)
  BY <1>1, <1>5, <1>6, <1>7, JobBecomes
<1>9. /\ redacted => Becomes(d, i, "claimed", TRUE)
      /\ ~ redacted => Becomes(d, i, "claimed", jobs[d][i].sealed)
  BY <1>5, <1>7, <1>8 DEF Becomes
<1>10. jobs[d][i].value \in Values /\ 0 \in Values
  BY <1>3, BoundsAssumption DEF JobRows, Values
<1>11. CASE /\ redacted /\ UNCHANGED dropped
            /\ relay' = [ relay EXCEPT ![d] =
                 [ Resting EXCEPT !.at = "fetch", !.job = i,
                   !.value = IF jobs[d][i].sealed THEN 0 ELSE jobs[d][i].value ] ]
  <2> DEFINE turn == [ Resting EXCEPT !.at = "fetch", !.job = i,
                       !.value = IF jobs[d][i].sealed THEN 0 ELSE jobs[d][i].value ]
  <2>1. /\ turn \in Turns /\ turn.at = "fetch" /\ turn.job = i /\ turn.fetched = 0
        /\ turn.ok = FALSE /\ turn.omitted = FALSE
        /\ turn.value = IF jobs[d][i].sealed THEN 0 ELSE jobs[d][i].value
    BY <1>3, <1>10 DEF Resting, Turns
  <2>2. relay' = [ relay EXCEPT ![d] = turn ]
    BY <1>11
  <2> HIDE DEF turn
  <2>3. relay' \in [ Deployments -> Turns ] /\ relay'[d] = turn
        /\ \A e \in Deployments \ { d } : relay'[e] = relay[e]
    BY <1>1, <2>1, <2>2 DEF TypeOK
  <2>4. QED  BY <1>1, <1>2, <1>4, <1>9, <1>11, <2>1, <2>3 DEF Claims
<1>12. CASE /\ UNCHANGED relay
            /\ dropped' = IF (IF jobs[d][i].sealed THEN 0 ELSE jobs[d][i].value) # 0 /\ redacted
                          THEN dropped \cup { d } ELSE dropped
  <2>1. relay' \in [ Deployments -> Turns ]
    BY <1>1, <1>12 DEF TypeOK
  <2>2. \/ Becomes(d, i, "claimed", jobs[d][i].sealed) /\ dropped' = dropped
        \/ Becomes(d, i, "claimed", TRUE) /\ dropped' = dropped \cup { d }
        \/ /\ Becomes(d, i, "claimed", TRUE) /\ dropped' = dropped
           /\ jobs[d][i].sealed \/ jobs[d][i].value = 0
    BY <1>9, <1>12
  <2>3. QED  BY <1>1, <1>2, <1>4, <1>12, <2>1, <2>2 DEF Claims
<1>13. QED  BY <1>2, <1>11, <1>12

LEMMA ClaimCarried == ASSUME Carried, NEW d \in Deployments, Claim(d) PROVE Carried'
<1>1. PICK i \in DOMAIN jobs[d] : Claims(d, i)
  BY ClaimClaims
<1>2. UNCHANGED << dep, creating, latest, row, save, queue, staged, bound, store,
                   owed, vaulted, told, cut >>
  BY DEF Claim, vault
<1>3. TypeOK /\ QueueInOrder /\ Coherent(d) /\ faults' \in 0 .. MaxFaults
  BY FaultsBounded DEF Carried, Claim
<1>4. /\ jobs' \in [ Deployments -> Seq(JobRows) ] /\ relay' \in [ Deployments -> Turns ]
      /\ dropped' \in { dropped, dropped \cup { d } }
      /\ \A e \in Deployments \ { d } : jobs'[e] = jobs[e] /\ relay'[e] = relay[e]
  BY <1>1 DEF Claims, Becomes
<1>5. TypeOK'
  BY <1>2, <1>3, <1>4 DEF TypeOK
<1>6. ASSUME NEW e \in Deployments \ { d } PROVE Same(e)
  BY <1>2, <1>4 DEF Same
<1>7. /\ DOMAIN jobs'[d] = DOMAIN jobs[d]
      /\ \A k \in DOMAIN jobs[d] :
            /\ jobs'[d][k].value = jobs[d][k].value /\ jobs'[d][k].names = jobs[d][k].names
            /\ jobs[d][k].sealed => jobs'[d][k].sealed
            /\ k # i => jobs'[d][k] = jobs[d][k]
            /\ OpenJob(d, k)' <=> OpenJob(d, k)
      /\ jobs'[d][i].state = "claimed"
  BY <1>1 DEF Claims, Becomes, OpenJob
<1>8. /\ relay[d] = Resting /\ OpenJob(d, i) /\ dep[d] \in { "failed", "running" }
      /\ \A k \in DOMAIN jobs[d] : k < i => ~ OpenJob(d, k)
  BY <1>1 DEF Claims, OpenJob
<1>9. \/ /\ relay'[d].at = "fetch" /\ relay'[d].job = i /\ relay'[d].fetched = 0
         /\ relay'[d].ok = FALSE /\ relay'[d].omitted = FALSE
         /\ dropped' = dropped /\ jobs'[d][i].sealed
         /\ relay'[d].value = IF jobs[d][i].sealed THEN 0 ELSE jobs[d][i].value
      \/ /\ relay'[d] = Resting
         /\ \/ d \in dropped'
            \/ jobs'[d][i].sealed <=> jobs[d][i].sealed
            \/ jobs[d][i].sealed \/ jobs[d][i].value = 0
  BY <1>1, <1>8 DEF Claims, Becomes
<1>10. Coherent(d)'
  <2>1. JobsInOrder(d) /\ InstallsInOrder(d) /\ TurnsInOrder(d)
    BY <1>3 DEF Coherent
  <2>2. JobsInOrder(d)'
    BY <1>2, <1>7, <2>1 DEF JobsInOrder
  <2>3. InstallsInOrder(d)'
    BY <1>2, <1>8, <2>1 DEF InstallsInOrder, Live
  <2>4. TurnsInOrder(d)'
    <3>1. \A m, k \in DOMAIN jobs'[d] :
             m < k /\ OpenJob(d, m)' => k # i /\ Unclaimed(jobs'[d][k])
      BY <1>7, <1>8, <2>1 DEF TurnsInOrder
    <3>2. \A k \in DOMAIN jobs'[d] : (k < i => ~ OpenJob(d, k)') /\
                                     (k > i => Unclaimed(jobs'[d][k]))
      BY <1>7, <1>8, <2>1 DEF TurnsInOrder
    <3>3. CASE relay'[d].at = "fetch"
      <4>1. /\ relay'[d].job = i /\ relay'[d].fetched <= latest' /\ relay'[d].fetched = 0
            /\ relay'[d].ok = FALSE /\ relay'[d].omitted = FALSE /\ jobs'[d][i].sealed
            /\ relay'[d].value \in { 0, jobs'[d][i].value }
        BY <1>2, <1>3, <1>7, <1>9, <3>3, Typed, RestingFields
      <4>2. QED  BY <1>2, <1>7, <1>8, <3>1, <3>2, <3>3, <4>1 DEF TurnsInOrder
    <3>4. CASE relay'[d] = Resting
      BY <1>2, <1>8, <3>1, <3>4, RestingFields DEF TurnsInOrder
    <3>5. QED  BY <1>9, <3>3, <3>4
  <2>5. StaleRowGoes(d)'
    <3>1. relay'[d].at # "write"
      BY <1>9, RestingFields
    <3>2. \A k \in DOMAIN jobs[d] : jobs[d][k].state # "done" => jobs'[d][k].state # "done"
      BY <1>7
    <3>3. QED  BY <1>2, <1>3, <1>7, <3>1, <3>2 DEF Coherent, StaleRowGoes
  <2>6. ASSUME PromptQueue PROVE MessageComes(d)' /\ PromiseKept(d)'
    <3>1. /\ MessageComes(d) /\ PromiseKept(d)
          /\ d \in owed \/ save.at = "persist" => latest # 0
          /\ d \in dropped => d \in dropped'
      BY <1>3, <1>4, <2>6 DEF Coherent, QueueInOrder, InstallsInOrder
    <3>2. Older(d)' => Older(d)
      <4>1. jobs[d][i].value < latest \/ jobs[d][i].value = latest
        BY <1>3, <2>1, Typed DEF JobsInOrder
      <4>2. QED  BY <1>2, <1>7, <1>8, <1>9, <4>1, RestingFields DEF Older
    <3>3. Coming(d) /\ latest # 0 /\ d \notin dropped' => Coming(d)'
      BY <1>2, <1>7, <1>8, <1>9, RestingFields DEF Coming, InQueue, Fresh
    <3>4. Arrived(d) => Arrived(d)'
      BY <1>2, <1>8, <1>9, <3>2, RestingFields DEF Arrived
    <3>5. WillFetch(d) => WillFetch(d)'
      BY <1>2, <1>7, <1>8, <1>9, <3>2, RestingFields DEF WillFetch
    <3>6. MessageComes(d)'
      BY <1>2, <1>7, <3>1, <3>2, <3>3, <3>4 DEF MessageComes
    <3>7. PromiseKept(d)'
      BY <1>2, <3>1, <3>3, <3>4, <3>5 DEF PromiseKept
    <3>8. QED  BY <3>6, <3>7
  <2>7. QED  BY <2>2, <2>3, <2>4, <2>5, <2>6 DEF Coherent
<1>11. save.at # "idle" => owed' = {}
  BY <1>2, <1>3 DEF QueueInOrder
<1>12. QED  BY <1>2, <1>5, <1>6, <1>10, <1>11, OneDeployment

\* An answer that finds its job settled changes nothing but the relay's turn.
LEMMA LateReportCarried ==
    ASSUME Carried, NEW d \in Deployments, Report(d), ~ OpenJob(d, relay[d].job) PROVE Carried'
<1>1. /\ relay[d].at = "report" /\ relay' = [ relay EXCEPT ![d] = Resting ]
      /\ UNCHANGED << dep, creating, latest, row, save, queue, staged, bound, jobs, store,
                      faults, owed, vaulted, told, dropped, cut >>
  BY DEF Report, NoFault
<1>2. TypeOK /\ QueueInOrder /\ Coherent(d)
  BY DEF Carried
<1>3. TypeOK'
  <2>1. relay' \in [ Deployments -> Turns ]
    BY <1>1, <1>2, RestingFields DEF TypeOK
  <2>2. QED  BY <1>1, <1>2, <2>1 DEF TypeOK
<1>4. ASSUME NEW e \in Deployments \ { d } PROVE Same(e)
  BY <1>1, <1>2 DEF Same, TypeOK
<1>5. relay'[d] = Resting
  BY <1>1, <1>2 DEF TypeOK
<1>6. Coherent(d)'
  <2>1. JobsInOrder(d)' /\ InstallsInOrder(d)'
    BY <1>1, <1>2 DEF Coherent, JobsInOrder, InstallsInOrder
  <2>2. TurnsInOrder(d)' /\ StaleRowGoes(d)'
    BY <1>1, <1>2, <1>5, RestingFields DEF Coherent, TurnsInOrder, StaleRowGoes, OpenJob
  <2>3. ASSUME PromptQueue PROVE MessageComes(d)' /\ PromiseKept(d)'
    <3>1. /\ MessageComes(d) /\ PromiseKept(d) /\ TurnsInOrder(d)
          /\ d \in owed \/ save.at = "persist" => latest # 0
      BY <1>2, <2>3 DEF Coherent, QueueInOrder, InstallsInOrder
    <3>2. relay[d].value = latest /\ latest # 0 => d \in told
      BY <1>1, <1>2, <3>1, HeldIsOpen
    <3>3. Older(d)' => Older(d)
      BY <1>1, <1>5, RestingFields DEF Older, OpenJob
    <3>4. Coming(d) => Coming(d)'
      BY <1>1, <1>5, RestingFields DEF Coming, OpenJob, InQueue, Fresh
    <3>5. Arrived(d) /\ latest # 0 /\ d \notin told => Arrived(d)'
      BY <1>1, <1>5, <3>2, <3>3, RestingFields DEF Arrived
    <3>6. WillFetch(d) => WillFetch(d)'
      BY <1>1, <1>5, <3>3, RestingFields DEF WillFetch, OpenJob
    <3>7. MessageComes(d)'
      BY <1>1, <3>1, <3>3, <3>4, <3>5 DEF MessageComes
    <3>8. PromiseKept(d)'
      BY <1>1, <3>1, <3>4, <3>5, <3>6 DEF PromiseKept
    <3>9. QED  BY <3>7, <3>8
  <2>4. QED  BY <2>1, <2>2, <2>3 DEF Coherent
<1>7. save.at # "idle" => owed' = {}
  BY <1>1, <1>2 DEF QueueInOrder
<1>8. QED  BY <1>1, <1>3, <1>4, <1>6, <1>7, OneDeployment

\* One that settles its job deletes the row it was made from, or is cut off.
LEMMA SettlingReportCarried ==
    ASSUME Carried, NEW d \in Deployments, Report(d), OpenJob(d, relay[d].job) PROVE Carried'
<1>1. TypeOK /\ QueueInOrder /\ Coherent(d) /\ TurnsInOrder(d) /\ JobsInOrder(d)
  BY DEF Carried, Coherent
<1>i. PICK i \in Nat : i = relay[d].job
  BY <1>1, Typed
<1>o. PICK ok \in BOOLEAN : ok <=> relay[d].ok
  OBVIOUS
<1> USE <1>i, <1>o
<1>2. /\ relay[d].at = "report" /\ relay' = [ relay EXCEPT ![d] = Resting ]
      /\ jobs' = [ jobs EXCEPT ![d][i].state = IF ok THEN "done" ELSE "failed" ]
      /\ \/ /\ bound' = [ bound EXCEPT ![d] = IF AckDeletes(d) THEN 0 ELSE bound[d] ]
            /\ dropped' = (IF Omits(d) THEN dropped \cup { d } ELSE dropped) /\ cut' = cut
         \/ /\ AckDeletes(d) /\ bound' = bound
            /\ dropped' = dropped \cup { d } /\ cut' = cut \cup { d }
      /\ told' = IF ok THEN told ELSE told \cup { d }
      /\ UNCHANGED << dep, creating, latest, row, save, queue, staged, store, owed, vaulted >>
  BY DEF Report
<1>3. faults' \in 0 .. MaxFaults
  BY <1>1, FaultsBounded DEF Report
<1>4. /\ i \in DOMAIN jobs[d] /\ jobs[d][i].sealed /\ OpenJob(d, i)
      /\ relay[d].value \in { 0, jobs[d][i].value }
      /\ \A k \in DOMAIN jobs[d] :
            (k < i => ~ OpenJob(d, k)) /\ (k > i => Unclaimed(jobs[d][k]))
      /\ dep[d] \in { "failed", "running" } /\ (ok => dep[d] = "running")
  BY <1>1, <1>2 DEF TurnsInOrder
<1>5. Becomes(d, i, IF ok THEN "done" ELSE "failed", jobs[d][i].sealed)
  BY <1>1, <1>2, <1>4, JobGoesTo
<1>6. /\ relay' \in [ Deployments -> Turns ] /\ relay'[d] = Resting
      /\ \A e \in Deployments \ { d } : relay'[e] = relay[e]
  BY <1>1, <1>2, RestingFields DEF TypeOK
<1>7. /\ bound' \in [ Deployments -> Values ]
      /\ \A e \in Deployments \ { d } : bound'[e] = bound[e]
      /\ \/ /\ bound'[d] = IF AckDeletes(d) THEN 0 ELSE bound[d]
            /\ dropped' = (IF Omits(d) THEN dropped \cup { d } ELSE dropped) /\ cut' = cut
         \/ /\ AckDeletes(d) /\ bound'[d] = bound[d]
            /\ dropped' = dropped \cup { d } /\ cut' = cut \cup { d }
  <2>1. bound \in [ Deployments -> Values ] /\ 0 \in Values /\ bound[d] \in Values
    BY <1>1, BoundsAssumption DEF TypeOK, Values
  <2>2. CASE /\ bound' = [ bound EXCEPT ![d] = IF AckDeletes(d) THEN 0 ELSE bound[d] ]
             /\ dropped' = (IF Omits(d) THEN dropped \cup { d } ELSE dropped) /\ cut' = cut
    BY <2>1, <2>2
  <2>3. CASE /\ AckDeletes(d) /\ bound' = bound
             /\ dropped' = dropped \cup { d } /\ cut' = cut \cup { d }
    BY <2>1, <2>3
  <2>4. QED  BY <1>2, <2>2, <2>3
<1>8. AckDeletes(d) <=> ok /\ jobs[d][i].names
  BY DEF AckDeletes
<1>9. /\ DOMAIN jobs'[d] = DOMAIN jobs[d]
      /\ \A k \in DOMAIN jobs[d] :
            /\ jobs'[d][k].value = jobs[d][k].value /\ jobs'[d][k].names = jobs[d][k].names
            /\ jobs'[d][k].sealed <=> jobs[d][k].sealed
            /\ k # i => jobs'[d][k] = jobs[d][k] /\ (OpenJob(d, k)' <=> OpenJob(d, k))
      /\ ~ OpenJob(d, i)'
      /\ jobs'[d][i].state = IF ok THEN "done" ELSE "failed"
  BY <1>4, <1>5 DEF Becomes, OpenJob
<1>10. TypeOK'
  <2>1. told' \subseteq Deployments /\ dropped' \subseteq Deployments /\ cut' \subseteq Deployments
    BY <1>1, <1>2 DEF TypeOK
  <2>2. jobs' \in [ Deployments -> Seq(JobRows) ]
    BY <1>5 DEF Becomes
  <2>3. QED  BY <1>1, <1>2, <1>3, <1>6, <1>7, <2>1, <2>2 DEF TypeOK
<1>11. ASSUME NEW e \in Deployments \ { d } PROVE Same(e)
  <2>1. jobs'[e] = jobs[e]
    BY <1>5 DEF Becomes
  <2>2. QED  BY <1>2, <1>6, <1>7, <2>1 DEF Same
<1>12. Coherent(d)'
  <2>1. JobsInOrder(d)'
    BY <1>1, <1>2, <1>9 DEF JobsInOrder
  <2>2. InstallsInOrder(d)'
    BY <1>1, <1>2, <1>4, <1>7, Typed DEF Coherent, InstallsInOrder, Live
  <2>3. TurnsInOrder(d)'
    <3>1. \A m, k \in DOMAIN jobs'[d] : m < k /\ OpenJob(d, m)' => k # i /\ Unclaimed(jobs'[d][k])
      BY <1>1, <1>4, <1>9, Typed DEF TurnsInOrder
    <3>2. QED  BY <1>6, <3>1, RestingFields DEF TurnsInOrder
  <2>4. StaleRowGoes(d)'
    <3>1. bound'[d] # 0 /\ d \notin cut' =>
             bound'[d] = bound[d] /\ d \notin cut /\ ~ (ok /\ jobs[d][i].names)
      BY <1>7, <1>8
    <3>2. relay'[d].at # "write"
      BY <1>6, RestingFields
    <3>3. ASSUME ~ (ok /\ jobs[d][i].names), NEW k \in DOMAIN jobs[d],
                 jobs[d][k].names, jobs[d][k].state # "done"
          PROVE  jobs'[d][k].names /\ jobs'[d][k].state # "done"
      BY <1>9, <3>3
    <3>4. QED  BY <1>1, <1>2, <1>9, <3>1, <3>2, <3>3 DEF Coherent, StaleRowGoes
  <2>5. ASSUME PromptQueue PROVE MessageComes(d)' /\ PromiseKept(d)'
    <3>1. /\ MessageComes(d) /\ PromiseKept(d)
          /\ d \in owed \/ save.at = "persist" => latest # 0
          /\ d \in dropped => d \in dropped'
          /\ d \in told => d \in told'
          /\ d \notin told' => ok
          /\ ~ ok => d \in told' /\ bound'[d] = bound[d]
      BY <1>1, <1>2, <1>7, <1>8, <2>5 DEF Coherent, QueueInOrder, InstallsInOrder
    <3>2. Older(d)' => Older(d)
      BY <1>2, <1>6, <1>9, RestingFields DEF Older
    <3>3. Coming(d) /\ d \notin told' => Coming(d)'
      BY <1>2, <1>4, <1>6, <1>9, <3>1 DEF Coming, InQueue, Fresh
    <3>4. Arrived(d) /\ latest # 0 /\ d \notin told' /\ d \notin dropped' => Arrived(d)'
      <4>1. SUFFICES ASSUME Arrived(d), latest # 0, d \notin told', d \notin dropped'
                     PROVE  Arrived(d)'
        OBVIOUS
      <4>2. ok /\ bound'[d] = IF jobs[d][i].names THEN 0 ELSE bound[d]
        BY <1>7, <1>8, <3>1, <4>1
      <4>3. relay[d].value = latest => jobs[d][i].names
        BY <1>1, <1>4, <4>1 DEF JobsInOrder
      <4>4. bound'[d] \in { 0, latest }
        BY <4>1, <4>2, <4>3 DEF Arrived
      <4>5. QED  BY <1>2, <1>6, <3>2, <4>1, <4>4, RestingFields DEF Arrived
    <3>5. WillFetch(d) /\ d \notin told' /\ d \notin dropped' => WillFetch(d)' \/ Arrived(d)'
      <4>1. SUFFICES ASSUME WillFetch(d), d \notin told', d \notin dropped'
                     PROVE  WillFetch(d)' \/ Arrived(d)'
        OBVIOUS
      <4>2. /\ ok /\ bound'[d] = (IF jobs[d][i].names THEN 0 ELSE bound[d])
            /\ ~ Omits(d) /\ bound[d] = latest /\ store[d] <= latest
        BY <1>1, <1>7, <1>8, <3>1, <4>1 DEF WillFetch, Coherent, InstallsInOrder
      <4>3. store[d] = latest
        BY <1>1, <4>1, <4>2, Typed DEF WillFetch, Omits
      <4>4. bound'[d] \in { 0, latest }
        BY <4>2
      <4>5. QED  BY <1>2, <1>6, <3>2, <4>1, <4>3, <4>4, RestingFields DEF WillFetch, Arrived
    <3>6. MessageComes(d)'
      BY <1>2, <1>9, <3>1, <3>2, <3>3, <3>4 DEF MessageComes
    <3>7. PromiseKept(d)'
      <4>1. CASE dep[d] = "failed"
        <5>1. ~ ok
          BY <1>4, <4>1
        <5>2. QED  BY <1>2, <3>1, <4>1, <5>1 DEF PromiseKept
      <4>2. CASE dep[d] = "running"
        BY <1>2, <3>1, <3>3, <3>4, <3>5, <4>2 DEF PromiseKept
      <4>3. QED  BY <1>4, <4>1, <4>2
    <3>8. QED  BY <3>6, <3>7
  <2>6. QED  BY <2>1, <2>2, <2>3, <2>4, <2>5 DEF Coherent
<1>13. save.at # "idle" => owed' = {}
  BY <1>1, <1>2 DEF QueueInOrder
<1>14. QED  BY <1>2, <1>10, <1>11, <1>12, <1>13, OneDeployment

-----------------------------------------------------------------------------
(* The theorems. *)

LEMMA StutterCarried == ASSUME Carried, UNCHANGED vars PROVE Carried'
<1>1. UNCHANGED << dep, creating, latest, row, save, queue, staged, bound, jobs, relay,
                   store, faults, owed, vaulted, told, dropped, cut >>
  BY DEF vars
<1>2. TypeOK' /\ QueueInOrder'
  BY <1>1 DEF Carried, TypeOK, QueueInOrder
<1>3. ASSUME NEW d \in Deployments PROVE Coherent(d)'
  <2>1. Same(d) /\ Coherent(d)
    BY <1>1 DEF Same, Carried
  <2>2. QED  BY <1>1, <2>1, Untouched
<1>4. QED  BY <1>2, <1>3 DEF Carried

LEMMA NextCarried == ASSUME Carried, [Next]_vars PROVE Carried'
<1>1. CASE BeginSave \/ QueueValue \/ PersistValue \/ SaveFails \/ Expire
  BY <1>1, BeginSaveCarried, QueueValueCarried, PersistValueCarried, SaveFailsCarried,
     ExpireCarried
<1>2. CASE \E n \in 1 .. MaxValues : FanOut(n)
  BY <1>2, FanOutCarried
<1>3. ASSUME NEW d \in Deployments,
             Create(d) \/ Materialize(d) \/ BeginInstall(d) \/ EndInstall(d) \/ Teardown(d)
      PROVE  Carried'
  BY <1>3, CreateCarried, MaterializeCarried, BeginInstallCarried, EndInstallCarried,
     TeardownCarried
<1>4. ASSUME NEW d \in Deployments, RelayStep(d) \/ CutOff(d) \/ Requeue(d) \/ GiveUp(d)
      PROVE  Carried'
  BY <1>4, ClaimCarried, FetchCarried, WriteCarried, LateReportCarried,
     SettlingReportCarried, CutOffCarried, RequeueCarried, GiveUpCarried DEF RelayStep
<1>5. CASE UNCHANGED vars
  BY <1>5, StutterCarried
<1>6. QED  BY <1>1, <1>2, <1>3, <1>4, <1>5 DEF Next

\* For every set of deployments and any number of saves and faults, every row has its
\* type, messages, jobs and the relay's turn keep the order of the saves (config.ts,
\* server.ts, config-update.ts), and no vault row outlives the value that replaced it.
THEOREM Consistency == Spec => []Consistent
<1>1. Init => Carried
  BY InitCarried
<1>2. Carried /\ [Next]_vars => Carried'
  BY NextCarried
<1>3. Carried => Consistent
  BY NoRowIsStale DEF Consistent
<1>4. QED  BY <1>1, <1>2, <1>3, PTL DEF Spec

\* With a queue that keeps its order, the value that was saved last is on its way to every
\* deployment it was promised to, unless it was lost or the vendor can see the failure.
THEOREM ValueIsOnItsWayHolds == PromptQueue /\ Spec => []ValueIsOnItsWay
<1>1. Init => Carried
  BY InitCarried
<1>2. Carried /\ [Next]_vars => Carried'
  BY NextCarried
<1>3. SUFFICES ASSUME PromptQueue
               PROVE  Spec => []ValueIsOnItsWay
  OBVIOUS
<1>4. Carried => ValueIsOnItsWay
  BY <1>3, PromiseIsOnItsWay
<1>5. QED  BY <1>1, <1>2, <1>4, PTL DEF Spec

=============================================================================
