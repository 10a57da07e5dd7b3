----------------------------- MODULE Enrollment -----------------------------
(***************************************************************************)
(* How a relay becomes the one a deployment listens to: the register route *)
(* of apps/api/src/server.ts, what replaces a deployment's enrollment code *)
(* and credential (relay reset and the install retries, which rotate them  *)
(* alike, and the rotation of the install link), and packages/relay's      *)
(* enrollment on first contact.                                            *)
(*                                                                         *)
(* One deployment.  Codes and credentials are minted in pairs, so both are *)
(* the number of their pair, and a later pair has a larger number.         *)
(***************************************************************************)
EXTENDS Naturals

CONSTANTS
    Relays,   \* connector stacks, each with the installation id it has minted
    None,
    MaxPairs, \* bounds resets, retries and rotations
    MaxFaults \* bounds lost messages, timeouts and failing checks

ASSUME NoneAssumption == None \notin Relays
ASSUME BoundsAssumption == MaxPairs \in Nat \ { 0 } /\ MaxFaults \in Nat

VARIABLES
    row,        \* the deployment's row
    vendor,     \* the request that replaces the pair, and what it has read
    relay,      \* each connector stack and the relay that runs in it
    registers,  \* registrations the API has checked and not bound yet
    faults,
    \* The rest only serves the properties.
    enrolled,   \* the registrations that were bound
    late,       \* those of a pair that was already replaced
    crossed     \* a link was replaced although its relay had enrolled meanwhile

vars == << row, vendor, relay, registers, faults, enrolled, late, crossed >>
history == << enrolled, late, crossed >>

Pairs == 1 .. MaxPairs
Requests == [ relay: Relays, code: Pairs, token: Pairs ]
Waiting == [ op |-> "none", seen |-> None ]
NoStack == [ code |-> 0, secret |-> 0, token |-> 0, registered |-> FALSE, asks |-> FALSE ]

\* The row of createDeploymentRecord.
NewRow == [ code |-> 1, credential |-> 1, hash |-> 1, installation |-> None, previous |-> None ]

\* Enrollment sets enrollmentUsedAt and installationId together, and a reset
\* clears them together.
Used == row.installation # None

\* requireRelayDeployment: what a poll, a report or a heartbeat is let in by.
LetIn(r) == row.installation = r /\ row.hash = relay[r].token

TypeOK ==
    /\ row \in [ code: Pairs, credential: 0 .. MaxPairs, hash: Pairs,
                 installation: Relays \cup { None }, previous: Relays \cup { None } ]
    /\ row.hash <= row.code
    /\ row.credential # 0 => row.credential = row.code /\ row.hash = row.code
    /\ ~ Used => row.credential # 0
    /\ vendor \in [ op: { "none", "reset", "rotate" }, seen: Relays \cup { None } ]
    /\ vendor.op # "none" => row.code < MaxPairs
    /\ relay \in [ Relays -> [ code: 0 .. MaxPairs, secret: 0 .. MaxPairs, token: 0 .. MaxPairs,
                               registered: BOOLEAN, asks: BOOLEAN ] ]
    /\ \A r \in Relays : relay[r].code <= row.code /\ relay[r].secret <= row.code
    /\ registers \subseteq Requests
    /\ \A q \in registers : q.code <= row.code /\ q.token <= row.code
    /\ faults \in 0 .. MaxFaults
    /\ late \subseteq enrolled /\ enrolled \subseteq Requests
    /\ crossed \in BOOLEAN

Fault == faults < MaxFaults /\ faults' = faults + 1
NoFault == UNCHANGED faults

-----------------------------------------------------------------------------
(***************************************************************************)
(* The customer's connector stack.                                         *)
(***************************************************************************)

\* The customer creates the stack from a page that shows, or once showed, the
\* Quick Create link of a pair.
Launch(r) ==
    /\ relay[r] = NoStack
    /\ \E p \in 1 .. row.code :
          relay' = [ relay EXCEPT ![r] = [ @ EXCEPT !.code = p, !.secret = p ] ]
    /\ UNCHANGED << row, vendor, registers, faults, history >>

\* ... or updates it with a later pair.  CloudFormation writes the secret first,
\* as the function's environment refers to it,
UpdateSecret(r) ==
    /\ relay[r].code # 0
    /\ relay[r].secret = relay[r].code
    /\ \E p \in relay[r].code + 1 .. row.code :
          relay' = [ relay EXCEPT ![r] = [ @ EXCEPT !.secret = p ] ]
    /\ UNCHANGED << row, vendor, registers, faults, history >>

\* and a new environment starts the relay anew.
UpdateCode(r) ==
    /\ relay[r].secret # relay[r].code
    /\ relay' = [ relay EXCEPT ![r] = [ NoStack EXCEPT !.code = relay[r].secret,
                                                       !.secret = relay[r].secret ] ]
    /\ UNCHANGED << row, vendor, registers, faults, history >>

\* Lambda discards the process, which remembers its token and that it enrolled.
ColdStart(r) ==
    /\ relay[r].token # 0
    /\ Fault
    /\ relay' = [ relay EXCEPT ![r] = [ @ EXCEPT !.token = 0, !.registered = FALSE, !.asks = FALSE ] ]
    /\ UNCHANGED << row, vendor, registers, history >>

\* relayHandler reads the secret into a process that has no token yet.
Token(r) == IF relay[r].token = 0 THEN relay[r].secret ELSE relay[r].token

-----------------------------------------------------------------------------
(***************************************************************************)
(* POST /api/relay/register.                                               *)
(***************************************************************************)

\* Defects for mutation checks: a relay that registers again is refused, and is
\* known by its installation id alone.
NeverTheSame(q) == FALSE
SameInstallation(q) == row.installation = q.relay

\* Without a credential in the row, the token is not compared.
CredentialMatches(token) == row.credential = 0 \/ row.hash = token

SameRelay(q) == row.installation = q.relay /\ row.hash = q.token

Answered(r, ok) ==
    [ relay EXCEPT ![r] = [ @ EXCEPT !.registered = relay[r].registered \/ ok, !.asks = FALSE ] ]

\* An unregistered relay asks.  The row is read by the code; an unknown code, a
\* wrong token and another relay's enrollment are refused, and the relay's own is
\* confirmed.  Otherwise the preflight, which may refuse, goes on.
Ask(r) ==
    /\ relay[r].code # 0 /\ ~ relay[r].registered /\ ~ relay[r].asks
    /\ LET q == [ relay |-> r, code |-> relay[r].code, token |-> Token(r) ]
           known == row.code = q.code /\ CredentialMatches(q.token)
           asking == [ relay EXCEPT ![r] = [ @ EXCEPT !.token = q.token ] ]
       IN \/ /\ NoFault
             /\ registers' = IF known /\ ~ Used THEN registers \cup { q } ELSE registers
             /\ relay' = [ asking EXCEPT ![r].asks = known /\ ~ Used,
                                         ![r].registered = known /\ Used /\ SameRelay(q) ]
          \/ Fault /\ relay' = asking /\ UNCHANGED registers
    /\ UNCHANGED << row, vendor, history >>

\* Defect for mutation checks: the UPDATE is by id alone.
EvenIfUsed(q) == TRUE

\* WHERE enrollmentUsedAt IS NULL; the code is not compared again.
StillFree(q) == ~ Used

\* The registration is bound, or has lost a race, and is answered.
Bind(q) ==
    /\ q \in registers
    /\ registers' = registers \ { q }
    /\ IF StillFree(q)
       THEN /\ row' = [ row EXCEPT !.installation = q.relay, !.credential = 0, !.hash = q.token ]
            /\ enrolled' = enrolled \cup { q }
            /\ late' = IF row.code = q.code THEN late ELSE late \cup { q }
       ELSE UNCHANGED << row, enrolled, late >>
    /\ LET answers == relay[q.relay].asks /\ relay[q.relay].token = q.token IN
       \/ /\ NoFault
          /\ relay' = IF answers THEN Answered(q.relay, StillFree(q) \/ SameRelay(q)) ELSE relay
       \/ /\ Fault
          /\ answers
          /\ relay' = Answered(q.relay, FALSE)
    /\ UNCHANGED << vendor, crossed >>

\* The relay's request, or the handler, times out.
TimeOut(r) ==
    /\ relay[r].asks
    /\ Fault
    /\ relay' = Answered(r, FALSE)
    /\ registers' \in { registers, { q \in registers : q.relay # r } }
    /\ UNCHANGED << row, vendor, history >>

-----------------------------------------------------------------------------
(***************************************************************************)
(* Replacing the pair: performRelayReset and the install retries, and      *)
(* rotateInstallLink.  They read the row, and write it by id alone.        *)
(***************************************************************************)

\* A started installation keeps its link.
MayRotate == ~ Used

BeginReplace ==
    /\ vendor.op = "none"
    /\ row.code < MaxPairs
    /\ \E op \in { "reset", "rotate" } :
          /\ op = "rotate" => MayRotate
          /\ vendor' = [ op |-> op, seen |-> row.installation ]
    /\ UNCHANGED << row, relay, registers, faults, history >>

\* Defect for mutation checks: only the code is replaced.
CodeOnly == [ row EXCEPT !.code = row.code + 1 ]

NewPair == [ row EXCEPT !.code = row.code + 1, !.credential = row.code + 1,
                        !.hash = row.code + 1 ]

ResetRow == [ NewPair EXCEPT !.installation = None,
                             !.previous = IF vendor.seen = None THEN @ ELSE vendor.seen ]

Replace ==
    /\ vendor.op # "none"
    /\ row' = IF vendor.op = "reset" THEN ResetRow ELSE NewPair
    /\ crossed' = (crossed \/ (vendor.op = "rotate" /\ Used))
    /\ vendor' = Waiting
    /\ UNCHANGED << relay, registers, faults, enrolled, late >>

-----------------------------------------------------------------------------
Init ==
    /\ row = NewRow
    /\ vendor = Waiting
    /\ relay = [ r \in Relays |-> NoStack ]
    /\ registers = {}
    /\ faults = 0
    /\ enrolled = {} /\ late = {} /\ crossed = FALSE

Next ==
    \/ \E r \in Relays : \/ Launch(r) \/ UpdateSecret(r) \/ UpdateCode(r) \/ ColdStart(r)
                         \/ Ask(r) \/ TimeOut(r)
    \/ \E q \in registers : Bind(q)
    \/ BeginReplace \/ Replace

Spec == Init /\ [][Next]_vars

\* The relay is invoked every minute, the API answers, and a stack update ends.
\* Nothing is assumed of the vendor and the customer.
FairSpec ==
    /\ Spec
    /\ \A r \in Relays : WF_vars(Ask(r)) /\ WF_vars(UpdateCode(r))
    /\ WF_vars(\E q \in registers : Bind(q))

-----------------------------------------------------------------------------
(***************************************************************************)
(* Properties.                                                             *)
(***************************************************************************)

\* "The code burns on first use": apart from registrations that were on their way
\* when the pair was replaced, a code binds one installation, whatever is asked
\* at the same time, repeated or asked again.
CodeBurnsOnce ==
    \A q, p \in enrolled \ late : q.code = p.code => q = p

\* A relay that was told that it is registered is let in until the pair it
\* registered with is replaced: no registration that raced it has taken its place.
\* From then on the relay of the old link is locked out, unless its registration
\* was on its way.
LetInWhileItsLinkIsCurrent ==
    \A r \in Relays :
        /\ relay[r].registered /\ relay[r].code = row.code => LetIn(r)
        /\ LetIn(r) =>
              \/ relay[r].token = row.code
              \/ \E q \in late : q.relay = r /\ q.token = relay[r].token

\* What keeps these two.  A registration that is checked has the pair that the row
\* had; one that is bound and was not late spends the pair of the row.
Registrations ==
    /\ \A q \in registers : q.token = q.code
    /\ \A q \in enrolled : q.code <= row.code
    /\ \A q \in enrolled \ late : q.code = row.code => Used
    /\ Used => \/ row.hash = row.code
               \/ \E q \in late : q.relay = row.installation /\ q.token = row.hash

\* The inductive invariant, of which the type invariant is a part.
Consistent == TypeOK /\ Registrations /\ CodeBurnsOnce /\ LetInWhileItsLinkIsCurrent

\* A relay with the current pair gets through, whatever was lost and however
\* often it started anew, unless another one has enrolled or the pair is
\* replaced.  Where a late registration was bound, or a link was rotated under a
\* registration, it does not: the new link's pair is spent or locked out.
HasTheLink(r) == relay[r].code = row.code
NewLinkConnects ==
    \A r \in Relays :
        HasTheLink(r) ~>
            \/ relay[r].registered /\ LetIn(r)
            \/ ~ HasTheLink(r) \/ row.installation \notin { None, r }
            \/ late # {} \/ crossed

\* What the code says and does not hold: "the code burns on first use", also for
\* a registration that the reset has overtaken ...
CodeNeverBindsTwice == \A q, p \in enrolled : q.code = p.code => q = p

\* ... a rotation is "refused once an install has started: the running
\* installation keeps its own link" ...
RunningKeepsItsLink ==
    [][ vendor.op = "rotate" /\ Used => row'.code = row.code ]_vars

\* ... and "the identifiers this reset replaces stay recorded so a later purge
\* can still find the PREVIOUS stack's retained resources".
EveryInstallationIsKnown ==
    \A q \in enrolled : q.relay \in { row.installation, row.previous }

=============================================================================
