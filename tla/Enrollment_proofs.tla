------------------------- MODULE Enrollment_proofs -------------------------
(***************************************************************************)
(* Proofs about Enrollment, for every set of connector stacks, every       *)
(* number of replaced pairs and every number of faults.  The inductive     *)
(* invariant is Consistent.                                                *)
(***************************************************************************)
EXTENDS Enrollment, TLAPS

Rows == [ code: Pairs, credential: 0 .. MaxPairs, hash: Pairs,
          installation: Relays \cup { None }, previous: Relays \cup { None } ]
Stacks == [ code: 0 .. MaxPairs, secret: 0 .. MaxPairs, token: 0 .. MaxPairs,
            registered: BOOLEAN, asks: BOOLEAN ]

\* The type invariant, by the variables.
LEMMA Types ==
    ASSUME TypeOK
    PROVE  /\ row \in Rows /\ relay \in [ Relays -> Stacks ]
           /\ row.code \in Pairs /\ row.hash \in Pairs /\ row.credential \in 0 .. MaxPairs
           /\ row.installation \in Relays \cup { None }
           /\ row.previous \in Relays \cup { None }
           /\ \A r \in Relays : /\ relay[r].code \in 0 .. MaxPairs
                                /\ relay[r].secret \in 0 .. MaxPairs
                                /\ relay[r].token \in 0 .. MaxPairs
BY DEF TypeOK, Rows, Stacks

LEMMA FaultsBounded == ASSUME TypeOK, Fault \/ NoFault PROVE faults' \in 0 .. MaxFaults
BY BoundsAssumption DEF TypeOK, Fault, NoFault

\* What a stack becomes: launched or updated, started anew, or answered.
LEMMA StackLaunched ==
    ASSUME NEW s \in Stacks, NEW p \in 0 .. MaxPairs
    PROVE  LET t == [ s EXCEPT !.code = p, !.secret = p ]
           IN  /\ t \in Stacks /\ t.code = p /\ t.secret = p /\ t.token = s.token
               /\ t.registered = s.registered
BY DEF Stacks

LEMMA StackUpdated ==
    ASSUME NEW s \in Stacks, NEW p \in 0 .. MaxPairs
    PROVE  LET t == [ s EXCEPT !.secret = p ]
           IN  /\ t \in Stacks /\ t.code = s.code /\ t.secret = p /\ t.token = s.token
               /\ t.registered = s.registered
BY DEF Stacks

LEMMA StackNew ==
    ASSUME NEW p \in 0 .. MaxPairs
    PROVE  LET t == [ NoStack EXCEPT !.code = p, !.secret = p ]
           IN  t \in Stacks /\ t.code = p /\ t.secret = p /\ ~ t.registered
<1>1. NoStack \in Stacks /\ ~ NoStack.registered
  BY BoundsAssumption DEF Stacks, NoStack
<1> QED  BY <1>1 DEF Stacks

LEMMA StackCold ==
    ASSUME NEW s \in Stacks
    PROVE  LET t == [ s EXCEPT !.token = 0, !.registered = FALSE, !.asks = FALSE ]
           IN  t \in Stacks /\ t.code = s.code /\ t.secret = s.secret /\ ~ t.registered
<1>1. 0 \in 0 .. MaxPairs
  BY BoundsAssumption
<1> QED  BY <1>1 DEF Stacks

LEMMA StackAnswered ==
    ASSUME NEW s \in Stacks, NEW b \in BOOLEAN
    PROVE  LET t == [ s EXCEPT !.registered = b, !.asks = FALSE ]
           IN  /\ t \in Stacks /\ t.code = s.code /\ t.secret = s.secret /\ t.token = s.token
               /\ t.registered = b
BY DEF Stacks

LEMMA RelayAnswered ==
    ASSUME relay \in [ Relays -> Stacks ], NEW r \in Relays, NEW ok \in BOOLEAN
    PROVE  \E t \in Stacks : /\ Answered(r, ok) = [ relay EXCEPT ![r] = t ]
                             /\ t.code = relay[r].code /\ t.secret = relay[r].secret
                             /\ t.token = relay[r].token
                             /\ t.registered => relay[r].registered \/ ok
<1> DEFINE b == relay[r].registered \/ ok
           s == relay[r]
           t == [ s EXCEPT !.registered = b, !.asks = FALSE ]
<1>1. Answered(r, ok) = [ relay EXCEPT ![r] = [ @ EXCEPT !.registered = b, !.asks = FALSE ] ]
  BY DEF Answered
<1>2. b \in BOOLEAN /\ s \in Stacks
  BY Zenon
<1>3. b => relay[r].registered \/ ok
  OBVIOUS
<1> HIDE DEF b
<1>4. Answered(r, ok) = [ relay EXCEPT ![r] = t ]
  BY <1>1
<1>5. /\ t \in Stacks /\ t.code = s.code /\ t.secret = s.secret /\ t.token = s.token
      /\ t.registered = b
  BY <1>2, StackAnswered
<1> HIDE DEF t
<1> QED  BY <1>3, <1>4, <1>5

\* What the row becomes with a new pair.
LEMMA RowReplaced ==
    ASSUME row \in Rows, row.code < MaxPairs, vendor.seen \in Relays \cup { None }
    PROVE  /\ NewPair \in Rows /\ ResetRow \in Rows
           /\ \A w \in { NewPair, ResetRow } :
                 w.code = row.code + 1 /\ w.credential = w.code /\ w.hash = w.code
           /\ NewPair.installation = row.installation /\ ResetRow.installation = None
<1>1. row.code + 1 \in Pairs /\ row.code + 1 \in 0 .. MaxPairs
  BY BoundsAssumption DEF Rows, Pairs
<1>2. NewPair \in Rows /\ NewPair.installation = row.installation /\ NewPair.code = row.code + 1
      /\ NewPair.credential = row.code + 1 /\ NewPair.hash = row.code + 1
  BY <1>1 DEF NewPair, Rows
<1>3. /\ ResetRow \in Rows /\ ResetRow.installation = None /\ ResetRow.code = NewPair.code
      /\ ResetRow.credential = NewPair.credential /\ ResetRow.hash = NewPair.hash
  <2> HIDE DEF NewPair
  <2> QED  BY <1>2 DEF ResetRow, Rows
<1> QED  BY <1>2, <1>3

\* A step that leaves the row and what was bound as they are, checks no registration
\* but with the row's own pair, and tells no relay that it is registered but the row's.
LEMMA RowKept ==
    ASSUME Consistent, UNCHANGED << row, enrolled, late, crossed >>,
           relay' \in [ Relays -> Stacks ], faults' \in 0 .. MaxFaults,
           vendor' \in [ op: { "none", "reset", "rotate" }, seen: Relays \cup { None } ],
           vendor'.op # "none" => row.code < MaxPairs,
           registers' \subseteq Requests,
           \A q \in registers' : q.token = q.code /\ q.code <= row.code,
           \A r \in Relays :
              /\ relay'[r].code <= row.code /\ relay'[r].secret <= row.code
              /\ relay'[r].registered =>
                    \/ /\ relay[r].registered
                       /\ relay'[r].code = relay[r].code /\ relay'[r].token = relay[r].token
                    \/ row.installation = r /\ row.hash = relay'[r].token
    PROVE  Consistent'
<1> USE DEF Consistent
<1>1. TypeOK'
  <2>1. \A q \in registers' : q.token <= row.code
    OBVIOUS
  <2> QED  BY <2>1 DEF TypeOK, Stacks, Used
<1>2. Registrations'
  BY DEF Registrations, Used
<1>3. CodeBurnsOnce'
  BY DEF CodeBurnsOnce
<1>4. LetInWhileItsLinkIsCurrent'
  <2> SUFFICES ASSUME NEW r \in Relays, relay'[r].registered, relay'[r].code = row.code
               PROVE  row.installation = r /\ row.hash = relay'[r].token
    BY <1>2, NoneAssumption DEF LetInWhileItsLinkIsCurrent, LetIn, Registrations, Used
  <2> QED  BY DEF LetInWhileItsLinkIsCurrent, LetIn
<1> QED  BY <1>1, <1>2, <1>3, <1>4

\* The initial state is consistent.
LEMMA InitConsistent == Init => Consistent
<1> SUFFICES ASSUME Init
             PROVE  Consistent
  OBVIOUS
<1> USE BoundsAssumption, NoneAssumption DEF Init
<1>1. row \in Rows /\ relay \in [ Relays -> Stacks ]
  BY DEF NewRow, NoStack, Rows, Stacks, Pairs
<1>2. /\ row.code = 1 /\ row.credential = 1 /\ row.hash = 1 /\ row.installation = None
      /\ \A r \in Relays : relay[r].code = 0 /\ relay[r].secret = 0 /\ ~ relay[r].registered
  BY DEF NewRow, NoStack
<1>3. vendor.op = "none" /\ vendor \in [ op: { "none", "reset", "rotate" }, seen: Relays \cup { None } ]
  BY DEF Waiting
<1>4. TypeOK
  <2>1. crossed \in BOOLEAN
    OBVIOUS
  <2> QED  BY <1>1, <1>2, <1>3, <2>1 DEF TypeOK, Rows, Stacks
<1>5. Registrations /\ CodeBurnsOnce
  BY <1>2 DEF Registrations, CodeBurnsOnce, Used
<1>6. LetInWhileItsLinkIsCurrent
  BY <1>2 DEF LetInWhileItsLinkIsCurrent, LetIn
<1> QED  BY <1>4, <1>5, <1>6 DEF Consistent

\* The customer's stack, Lambda and the relay's own timeout only take away.
LEMMA StackConsistent ==
    ASSUME Consistent, NEW r \in Relays,
           Launch(r) \/ UpdateSecret(r) \/ UpdateCode(r) \/ ColdStart(r) \/ TimeOut(r)
    PROVE  Consistent'
<1>1. TypeOK
  BY DEF Consistent
<1>2. /\ UNCHANGED << row, vendor, enrolled, late, crossed >> /\ registers' \subseteq registers
      /\ faults' \in 0 .. MaxFaults
  <2>1. UNCHANGED faults => NoFault
    BY DEF NoFault
  <2> QED  BY <1>1, <2>1, FaultsBounded DEF Launch, UpdateSecret, UpdateCode, ColdStart, TimeOut, history
<1>3. /\ relay' \in [ Relays -> Stacks ]
      /\ \A s \in Relays :
            /\ relay'[s].code <= row.code /\ relay'[s].secret <= row.code
            /\ relay'[s].registered => /\ relay[s].registered
                                       /\ relay'[s].code = relay[s].code
                                       /\ relay'[s].token = relay[s].token
  <2>1. /\ relay[r] \in Stacks /\ relay \in [ Relays -> Stacks ] /\ row.code \in 0 .. MaxPairs
        /\ \A s \in Relays : relay[s].code <= row.code /\ relay[s].secret <= row.code
        /\ relay[r].secret \in 0 .. MaxPairs
    BY <1>1, Types DEF TypeOK, Pairs
  <2>2. \E t \in Stacks :
           /\ relay' = [ relay EXCEPT ![r] = t ]
           /\ t.code <= row.code /\ t.secret <= row.code
           /\ t.registered => /\ relay[r].registered
                              /\ t.code = relay[r].code /\ t.token = relay[r].token
    <3>1. CASE Launch(r)
      <4>1. PICK p \in 1 .. row.code :
                relay' = [ relay EXCEPT ![r] = [ @ EXCEPT !.code = p, !.secret = p ] ]
        BY <3>1 DEF Launch
      <4>2. p \in 0 .. MaxPairs /\ p <= row.code
        BY <2>1, BoundsAssumption
      <4>3. ~ relay[r].registered
        <5>1. relay[r] = NoStack
          BY <3>1 DEF Launch
        <5>2. ~ NoStack.registered
          BY DEF NoStack
        <5> QED  BY <5>1, <5>2, Zenon
      <4> DEFINE t == [ relay[r] EXCEPT !.code = p, !.secret = p ]
      <4>4. t \in Stacks /\ t.code = p /\ t.secret = p /\ ~ t.registered
        BY <2>1, <4>2, <4>3, StackLaunched
      <4>5. relay' = [ relay EXCEPT ![r] = t ]
        BY <4>1
      <4> HIDE DEF t
      <4> QED  BY <4>2, <4>4, <4>5
    <3>2. CASE UpdateSecret(r)
      <4>1. PICK p \in relay[r].code + 1 .. row.code :
                relay' = [ relay EXCEPT ![r] = [ @ EXCEPT !.secret = p ] ]
        BY <3>2 DEF UpdateSecret
      <4>2. p \in 0 .. MaxPairs /\ p <= row.code
        BY <1>1, <2>1, Types, BoundsAssumption
      <4> DEFINE t == [ relay[r] EXCEPT !.secret = p ]
      <4>3. /\ t \in Stacks /\ t.code = relay[r].code /\ t.secret = p
            /\ t.token = relay[r].token /\ t.registered = relay[r].registered
        BY <2>1, <4>2, StackUpdated
      <4>4. relay' = [ relay EXCEPT ![r] = t ]
        BY <4>1
      <4> HIDE DEF t
      <4> QED  BY <2>1, <4>2, <4>3, <4>4
    <3>3. CASE UpdateCode(r)
      BY <2>1, <3>3, StackNew DEF UpdateCode
    <3>4. CASE ColdStart(r)
      BY <2>1, <3>4, StackCold DEF ColdStart
    <3>5. CASE TimeOut(r)
      <4>1. relay' = Answered(r, FALSE)
        BY <3>5 DEF TimeOut
      <4> QED  BY <2>1, <4>1, RelayAnswered
    <3> QED  BY <3>1, <3>2, <3>3, <3>4, <3>5
  <2> QED  BY <2>1, <2>2
<1>4. /\ registers' \subseteq Requests
      /\ \A q \in registers' : q.token = q.code /\ q.code <= row.code
  BY <1>2 DEF Consistent, TypeOK, Registrations
<1>5. /\ vendor' \in [ op: { "none", "reset", "rotate" }, seen: Relays \cup { None } ]
      /\ vendor'.op # "none" => row.code < MaxPairs
  BY <1>1, <1>2 DEF TypeOK
<1> QED  BY <1>2, <1>3, <1>4, <1>5, RowKept

\* A registration is checked: an unused row has the credential of its code, so what
\* goes on has the row's pair; what is confirmed is the row's own relay.
LEMMA AskConsistent == ASSUME Consistent, NEW r \in Relays, Ask(r) PROVE Consistent'
<1>1. TypeOK
  BY DEF Consistent
<1> DEFINE q == [ relay |-> r, code |-> relay[r].code, token |-> Token(r) ]
           asking == [ relay EXCEPT ![r] = [ @ EXCEPT !.token = q.token ] ]
           known == row.code = q.code /\ CredentialMatches(q.token)
<1>2. Token(r) \in 0 .. MaxPairs
  BY <1>1, Types DEF Token
<1>3. /\ asking \in [ Relays -> Stacks ]
      /\ \A s \in Relays : /\ asking[s].code = relay[s].code /\ asking[s].secret = relay[s].secret
                           /\ asking[s].registered = relay[s].registered
                           /\ s # r => asking[s] = relay[s]
      /\ asking[r].token = Token(r)
  BY <1>1, <1>2, Types DEF Stacks
<1>4. known /\ ~ Used => q \in Requests /\ q.token = q.code /\ q.code <= row.code
  BY <1>1, <1>2, Types, BoundsAssumption DEF CredentialMatches, TypeOK, Requests, Pairs
<1>5. /\ UNCHANGED << row, vendor, enrolled, late, crossed >>
      /\ faults' \in 0 .. MaxFaults
      /\ ~ relay[r].registered
  BY <1>1, FaultsBounded DEF Ask, history
<1>6. registers' = registers \/ (registers' = registers \cup { q } /\ known /\ ~ Used)
  BY DEF Ask
<1>7. /\ relay' \in [ Relays -> Stacks ]
      /\ \A s \in Relays : relay'[s].code = relay[s].code /\ relay'[s].secret = relay[s].secret
      /\ \A s \in Relays \ { r } : relay'[s] = relay[s]
      /\ relay'[r].registered => row.installation = r /\ row.hash = relay'[r].token
  <2> HIDE DEF asking
  <2>1. \/ relay' = asking
        \/ relay' = [ asking EXCEPT ![r].asks = known /\ ~ Used,
                                    ![r].registered = known /\ Used /\ SameRelay(q) ]
    BY DEF Ask, asking
  <2>2. CASE relay' = asking
    BY <1>3, <1>5, <2>2
  <2>3. CASE relay' = [ asking EXCEPT ![r].asks = known /\ ~ Used,
                                      ![r].registered = known /\ Used /\ SameRelay(q) ]
    <3> DEFINE a == known /\ ~ Used
               b == known /\ Used /\ SameRelay(q)
    <3>1. a \in BOOLEAN /\ b \in BOOLEAN /\ (b => row.installation = r /\ row.hash = Token(r))
      BY DEF SameRelay
    <3> HIDE DEF a, b
    <3>2. relay' = [ asking EXCEPT ![r].asks = a, ![r].registered = b ]
      BY <2>3 DEF a, b
    <3> QED  BY <1>3, <3>1, <3>2 DEF Stacks
  <2> QED  BY <2>1, <2>2, <2>3
<1>8. /\ registers' \subseteq Requests
      /\ \A p \in registers' : p.token = p.code /\ p.code <= row.code
  <2> HIDE DEF q, known
  <2> QED  BY <1>4, <1>6 DEF Consistent, TypeOK, Registrations
<1>9. /\ vendor' \in [ op: { "none", "reset", "rotate" }, seen: Relays \cup { None } ]
      /\ vendor'.op # "none" => row.code < MaxPairs
      /\ \A s \in Relays : relay[s].code <= row.code /\ relay[s].secret <= row.code
  BY <1>1, <1>5 DEF TypeOK
<1> QED  BY <1>5, <1>7, <1>8, <1>9, RowKept

\* A registration is bound where the row is unused; a code that is not the row's any
\* more makes it late.  It is answered with what the row then holds.
LEMMA BindConsistent == ASSUME Consistent, NEW q \in registers, Bind(q) PROVE Consistent'
<1>1. TypeOK /\ q \in Requests /\ q.token = q.code /\ q.code <= row.code /\ q.token \in Pairs
      /\ q.code \in Pairs /\ q.relay \in Relays
  BY DEF Consistent, TypeOK, Registrations, Requests
<1>2. /\ faults' \in 0 .. MaxFaults /\ registers' = registers \ { q }
      /\ UNCHANGED << vendor, crossed >>
  BY <1>1, FaultsBounded DEF Bind
<1>3. /\ row' \in Rows /\ row'.code = row.code /\ row'.hash <= row'.code
      /\ row'.credential # 0 => row'.credential = row'.code /\ row'.hash = row'.code
      /\ row'.installation # None
      /\ \/ /\ Used /\ row' = row /\ enrolled' = enrolled /\ late' = late
         \/ /\ ~ Used /\ row'.installation = q.relay /\ row'.hash = q.token
            /\ enrolled' = enrolled \cup { q }
            /\ late' = IF row.code = q.code THEN late ELSE late \cup { q }
  <2>1. CASE Used
    BY <1>1, <2>1, Types DEF Bind, StillFree, TypeOK, Used
  <2>2. CASE ~ Used
    <3>1. /\ row' = [ row EXCEPT !.installation = q.relay, !.credential = 0, !.hash = q.token ]
          /\ enrolled' = enrolled \cup { q }
          /\ late' = IF row.code = q.code THEN late ELSE late \cup { q }
      BY <2>2 DEF Bind, StillFree
    <3>2. /\ row' \in Rows /\ row'.code = row.code /\ row'.credential = 0
          /\ row'.installation = q.relay /\ row'.hash = q.token
      <4>1. row \in Rows
        BY <1>1, Types
      <4> DEFINE r == q.relay
                 p == q.token
                 v == [ row EXCEPT !.installation = r, !.credential = 0, !.hash = p ]
      <4>2. r \in Relays /\ p \in Pairs /\ row' = v
        BY <1>1, <3>1
      <4> HIDE DEF r, p
      <4>3. /\ v \in Rows /\ v.code = row.code /\ v.credential = 0 /\ v.hash = p
            /\ v.installation = r
        <5>1. 0 \in 0 .. MaxPairs
          BY BoundsAssumption
        <5> QED  BY <4>1, <4>2, <5>1 DEF Rows
      <4> HIDE DEF v
      <4>4. row' \in Rows /\ row'.code = row.code /\ row'.credential = 0 /\ row'.hash = p
            /\ row'.installation = r
        BY <4>2, <4>3
      <4> QED  BY <4>4 DEF r, p
    <3> QED  BY <1>1, <2>2, <3>1, <3>2, NoneAssumption
  <2> QED  BY <2>1, <2>2
<1>4. /\ relay' \in [ Relays -> Stacks ]
      /\ \A s \in Relays :
            /\ relay'[s].code = relay[s].code /\ relay'[s].secret = relay[s].secret
            /\ relay'[s].token = relay[s].token
            /\ relay'[s].registered =>
                  relay[s].registered \/ (row'.installation = s /\ row'.hash = relay[s].token)
  <2> DEFINE answers == relay[q.relay].asks /\ relay[q.relay].token = q.token
             ok == StillFree(q) \/ SameRelay(q)
  <2>1. /\ ok \in BOOLEAN
        /\ ok => row'.installation = q.relay /\ row'.hash = q.token
    BY <1>3 DEF StillFree, SameRelay
  <2> HIDE DEF ok
  <2>2. \/ relay' = relay
        \/ \E told \in { ok, FALSE } : answers /\ relay' = Answered(q.relay, told)
    BY DEF Bind, ok
  <2>3. CASE relay' = relay
    BY <1>1, <2>3, Types
  <2>4. ASSUME NEW told \in { ok, FALSE }, relay' = Answered(q.relay, told)
        PROVE  /\ relay' \in [ Relays -> Stacks ]
               /\ \A s \in Relays :
                     /\ relay'[s].code = relay[s].code /\ relay'[s].secret = relay[s].secret
                     /\ relay'[s].token = relay[s].token
                     /\ relay'[s].registered => relay[s].registered \/ (s = q.relay /\ ok)
    <3>1. relay \in [ Relays -> Stacks ] /\ told \in BOOLEAN /\ (told => ok)
      <4>1. relay \in [ Relays -> Stacks ]
        BY <1>1, Types
      <4>2. told \in BOOLEAN /\ (told => ok)
        <5>1. CASE told = ok
          BY <2>1, <5>1, Zenon
        <5>2. CASE told = FALSE
          BY <5>2, Zenon
        <5> QED  BY <5>1, <5>2, Zenon
      <4> QED  BY <4>1, <4>2, Zenon
    <3>2. PICK t \in Stacks : /\ relay' = [ relay EXCEPT ![q.relay] = t ]
                              /\ t.code = relay[q.relay].code /\ t.secret = relay[q.relay].secret
                              /\ t.token = relay[q.relay].token
                              /\ t.registered => relay[q.relay].registered \/ told
      BY <1>1, <2>4, <3>1, RelayAnswered
    <3> QED  BY <1>1, <3>1, <3>2
  <2>5. ASSUME NEW told \in { ok, FALSE }, answers, relay' = Answered(q.relay, told)
        PROVE  /\ relay' \in [ Relays -> Stacks ]
               /\ \A s \in Relays :
                     /\ relay'[s].code = relay[s].code /\ relay'[s].secret = relay[s].secret
                     /\ relay'[s].token = relay[s].token
                     /\ relay'[s].registered =>
                           relay[s].registered \/ (row'.installation = s /\ row'.hash = relay[s].token)
    BY <2>1, <2>4, <2>5
  <2> QED  BY <2>2, <2>3, <2>5
<1>5. TypeOK'
  <2>1. /\ late' \subseteq enrolled' /\ enrolled' \subseteq Requests /\ crossed' \in BOOLEAN
    BY <1>1, <1>2, <1>3 DEF TypeOK
  <2>2. /\ registers' \subseteq Requests
        /\ \A p \in registers' : p.code <= row'.code /\ p.token <= row'.code
    BY <1>1, <1>2, <1>3 DEF TypeOK
  <2> QED  BY <1>1, <1>2, <1>3, <1>4, <2>1, <2>2 DEF TypeOK, Rows, Stacks, Used
<1>6. Registrations'
  <2>1. \A p \in enrolled' \ late' : p.code = row'.code => row'.installation # None
    BY <1>3
  <2>2. \/ row'.hash = row'.code
        \/ \E p \in late' : p.relay = row'.installation /\ p.token = row'.hash
    BY <1>1, <1>3 DEF Consistent, Registrations, Used
  <2> QED  BY <1>1, <1>2, <1>3, <2>1, <2>2 DEF Consistent, Registrations, Used
<1>7. CodeBurnsOnce'
  BY <1>3 DEF Consistent, Registrations, CodeBurnsOnce
<1>8. LetInWhileItsLinkIsCurrent'
  <2>1. ASSUME NEW s \in Relays, relay'[s].registered, relay'[s].code = row'.code
        PROVE  row'.installation = s /\ row'.hash = relay'[s].token
    BY <1>1, <1>3, <1>4, <2>1, NoneAssumption
       DEF Consistent, LetInWhileItsLinkIsCurrent, LetIn, Used
  <2> QED  BY <1>6, <2>1, NoneAssumption DEF LetInWhileItsLinkIsCurrent, LetIn, Registrations, Used
<1> QED  BY <1>5, <1>6, <1>7, <1>8 DEF Consistent

\* The vendor's request reads the row.
LEMMA BeginConsistent == ASSUME Consistent, BeginReplace PROVE Consistent'
<1>1. TypeOK
  BY DEF Consistent
<1>2. /\ UNCHANGED << row, relay, registers, enrolled, late, crossed, faults >>
      /\ vendor' \in [ op: { "none", "reset", "rotate" }, seen: Relays \cup { None } ]
      /\ row.code < MaxPairs
  BY <1>1, Types DEF BeginReplace, history
<1>3. /\ \A r \in Relays : relay[r].code <= row.code /\ relay[r].secret <= row.code
      /\ faults \in 0 .. MaxFaults /\ registers \subseteq Requests
      /\ \A q \in registers : q.token = q.code /\ q.code <= row.code
  BY DEF Consistent, TypeOK, Registrations
<1> QED  BY <1>1, <1>2, <1>3, Types, RowKept

\* The pair is replaced: no code that is out is the row's any more.
LEMMA ReplaceConsistent == ASSUME Consistent, Replace PROVE Consistent'
<1>1. TypeOK /\ row.code < MaxPairs
  BY DEF Consistent, TypeOK, Replace
<1>2. /\ row' \in Rows /\ row'.code = row.code + 1 /\ row'.credential = row'.code
      /\ row'.hash = row'.code
  BY <1>1, Types, RowReplaced DEF Replace, TypeOK
<1>3. /\ UNCHANGED << relay, registers, faults, enrolled, late >> /\ crossed' \in BOOLEAN
      /\ vendor' \in [ op: { "none", "reset", "rotate" }, seen: Relays \cup { None } ]
      /\ vendor'.op = "none"
  BY Zenon DEF Replace, Waiting
<1>4. TypeOK'
  <2>1. \A r \in Relays : relay'[r].code <= row'.code /\ relay'[r].secret <= row'.code
    BY <1>1, <1>2, <1>3, Types DEF TypeOK, Pairs
  <2>2. /\ registers' \subseteq Requests
        /\ \A q \in registers' : q.code <= row'.code /\ q.token <= row'.code
    BY <1>1, <1>2, <1>3, Types DEF TypeOK, Requests, Pairs
  <2>3. row'.hash <= row'.code /\ row'.credential # 0
    BY <1>1, <1>2, Types DEF Pairs
  <2> QED  BY <1>1, <1>2, <1>3, <2>1, <2>2, <2>3, Types DEF TypeOK, Rows, Stacks, Used
<1>5. Registrations'
  BY <1>1, <1>2, <1>3, Types DEF Consistent, TypeOK, Registrations, Requests, Pairs, Used
<1>6. CodeBurnsOnce'
  BY <1>3 DEF Consistent, CodeBurnsOnce
<1>7. LetInWhileItsLinkIsCurrent'
  <2>1. \A r \in Relays : relay'[r].code # row'.code
    BY <1>1, <1>2, <1>3, Types DEF TypeOK, Pairs
  <2> QED  BY <1>5, <2>1, NoneAssumption DEF LetInWhileItsLinkIsCurrent, LetIn, Registrations, Used
<1> QED  BY <1>4, <1>5, <1>6, <1>7 DEF Consistent

\* The invariant holds in every reachable state.
THEOREM Consistency == Spec => []Consistent
<1>1. ASSUME Consistent, [Next]_vars
      PROVE  Consistent'
  <2>1. CASE UNCHANGED vars
    BY <1>1, <2>1 DEF vars, history, Consistent, TypeOK, Registrations, CodeBurnsOnce,
          LetInWhileItsLinkIsCurrent, LetIn, Used
  <2> QED  BY <1>1, <2>1, StackConsistent, AskConsistent, BindConsistent, BeginConsistent,
              ReplaceConsistent DEF Next
<1> QED  BY InitConsistent, <1>1, PTL DEF Spec

\* "The code burns on first use": however registrations race, are repeated or asked
\* again, a code binds one installation, but for those that a replacement overtook.
THEOREM CodeBurnsOnceHolds == Spec => []CodeBurnsOnce
<1>1. Consistent => CodeBurnsOnce
  BY DEF Consistent
<1> QED  BY Consistency, <1>1, PTL

\* A relay that knows it is registered is let in until its link is replaced, and a
\* relay of a replaced link only if its registration was on its way.
THEOREM LetInWhileItsLinkIsCurrentHolds == Spec => []LetInWhileItsLinkIsCurrent
<1>1. Consistent => LetInWhileItsLinkIsCurrent
  BY DEF Consistent
<1> QED  BY Consistency, <1>1, PTL

=============================================================================
