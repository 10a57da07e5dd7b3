---------------------------- MODULE DomainHttps ----------------------------
(***************************************************************************)
(* How a deployment gets and loses its HTTPS addresses: the custom domain  *)
(* of the vendor (apps/api/src/domains.ts), the default URL in the zone of *)
(* Deployz (apps/api/src/default-https.ts), and the relay that requests    *)
(* certificates and wires the load balancer (packages/relay/src/domain.ts).*)
(*                                                                         *)
(* Both machines share one 443 listener and one port-80 listener.  Each is *)
(* advanced by heartbeats, by results and by routes, which read a row and  *)
(* write it later.  A certificate is named by the address it is for.       *)
(***************************************************************************)
EXTENDS Naturals, Sequences, SequencesExt

CONSTANTS
    None,        \* no certificate, no listener, no handler under way
    MaxDomains,  \* custom domains ever added to the deployment
    MaxFaults    \* cut-offs, failed calls and refusals

ASSUME LimitsAssumption == MaxDomains \in Nat /\ MaxFaults \in Nat

Default == 0
Domains == 1 .. MaxDomains
Owners == { Default } \cup Domains

ASSUME NoneAssumption == None \notin Owners

VARIABLES
    phase,    \* deployments.state, as far as the machines tell it apart
    row,      \* deployments.default_https and the custom_domains rows
    jobs,     \* the domain jobs not settled yet, in the order of created_at
    removal,  \* the newest REMOVE_DOMAIN job of each address, or that its cycle
              \* has begun and the job is still owed
    aws,      \* certificates and load balancer of the customer account
    dns,      \* published CNAMEs: for validation by ACM and for routing, and
              \* whether Cloudflare refused to delete that of the default URL
    result,   \* what the relay has executed and not reported yet
    handler,  \* the custom-domain check or default-HTTPS driver under way, with
              \* what it read, and whether the relay waits for it
    destroy,  \* a destroy request under way: what it read
    faults

vars == << phase, row, jobs, removal, aws, dns, result, handler, destroy, faults >>

Maybe(S) == S \cup { None }

Row == [ status: { "none", "PENDING", "WAITING_FOR_DNS", "CONFIGURING",
                   "ACTIVE", "ERROR", "REMOVING", "removed" },
         cert: Maybe(Owners), shown: Maybe(Owners), routed: BOOLEAN ]
Job == [ type: { "CONFIGURE_DOMAIN", "REMOVE_DOMAIN" }, of: Owners,
         cert: Maybe(Owners), defer: BOOLEAN, state: { "REQUESTED", "RUNNING" } ]

Phases == { "installing", "serving", "deleting", "deleted" }
Account == [ alb: BOOLEAN, redirect: BOOLEAN,
             cert: [ Owners -> { "none", "pending", "issued", "refused" } ],
             default: Maybe(Owners), extra: SUBSET Owners ]
Zone == [ validation: SUBSET Owners, routing: SUBSET Owners, refused: BOOLEAN ]
Result == [ job: Job, ok: BOOLEAN, row: Row, refused: BOOLEAN, wired: BOOLEAN ]
Pass == [ of: Owners, row: Row, phase: Phases, waited: BOOLEAN ]

NoRow == [ status |-> "none", cert |-> None, shown |-> None, routed |-> FALSE ]
NewRow == [ NoRow EXCEPT !.status = "PENDING" ]

Running == { "installing", "serving" }

\* findActiveDomain: custom domains that are not removed.
Current == { i \in Domains : row[i].status \notin { "none", "removed" } }

Oldest(k, S) == k \in S /\ \A n \in S : k <= n
OpenOf(type, o) == { k \in DOMAIN jobs : jobs[k].type = type /\ jobs[k].of = o }

TypeOK ==
    /\ phase \in Phases
    /\ row \in [ Owners -> Row ]
    /\ jobs \in Seq(Job)
    /\ removal \in [ Owners -> { "none", "owed", "open", "done", "failed" } ]
    /\ aws \in Account
    /\ dns \in Zone
    /\ result \in Maybe(Result)
    /\ handler \in Maybe(Pass)
    /\ destroy \in Maybe([ row: Row, next: { "domain", "default" } ])
    /\ faults \in 0 .. MaxFaults

Init ==
    /\ phase = "installing"
    /\ row = [ o \in Owners |-> NoRow ]
    /\ jobs = << >>
    /\ removal = [ o \in Owners |-> "none" ]
    /\ aws = [ alb |-> FALSE, redirect |-> FALSE, default |-> None, extra |-> {},
               cert |-> [ o \in Owners |-> "none" ] ]
    /\ dns = [ validation |-> {}, routing |-> {}, refused |-> FALSE ]
    /\ result = None /\ handler = None /\ destroy = None
    /\ faults = 0

Fault == faults < MaxFaults /\ faults' = faults + 1

-----------------------------------------------------------------------------
(***************************************************************************)
(* Job rows.  A job is named by its address; the cycle numbers in the keys *)
(* only serve to ask whether the newest job of the address is in flight.   *)
(***************************************************************************)

Queued(type, o, cert, defer) ==
    Append(jobs, [ type |-> type, of |-> o, cert |-> cert, defer |-> defer,
                   state |-> "REQUESTED" ])

\* Defect for mutation checks: every pass begins a new cycle.
MintsAlways(o) == TRUE

\* ensureConfigureJob, ensureDefaultHttpsConfigureJob: whether they mint a job.
MintsConfigure(o) == OpenOf("CONFIGURE_DOMAIN", o) = {}

Configure(o, cert, defer) ==
    jobs' = IF MintsConfigure(o) THEN Queued("CONFIGURE_DOMAIN", o, cert, defer)
                                 ELSE jobs

\* ensureRemoveJob: a first call mints, a repeated one only where the cycle has
\* no job yet or, for a vendor, where the newest failed.
MintsRemove(was, newest, retry) ==
    \/ was # "REMOVING"
    \/ newest = "owed"
    \/ retry /\ newest = "failed"

\* An UPDATE by the row's id: a removed row stays removed.
Marked(o, status) ==
    IF row[o].status = "removed" THEN row ELSE [ row EXCEPT ![o].status = status ]

AskRemoval(o, r, retry) ==
    /\ row' = Marked(o, "REMOVING")
    /\ IF MintsRemove(r.status, removal[o], retry)
       THEN /\ jobs' = Queued("REMOVE_DOMAIN", o, r.cert, FALSE)
            /\ removal' = [ removal EXCEPT ![o] = "open" ]
       ELSE UNCHANGED << jobs, removal >>

-----------------------------------------------------------------------------
(***************************************************************************)
(* What the public sees.                                                   *)
(***************************************************************************)

\* The certificates the 443 listener presents.
Served == IF aws.default = None THEN {} ELSE { aws.default } \cup aws.extra

\* probeHttps of a custom domain: DNS, TLS and routing.  The name of the
\* default URL leads to Cloudflare, which completes a response in any case.
Probe(o) == o \in dns.routing /\ (o = Default \/ o \in Served)

-----------------------------------------------------------------------------
(***************************************************************************)
(* Custom domains: the routes of the vendor, and the check that the        *)
(* heartbeat, the vendor and the customer start.                           *)
(***************************************************************************)

MayAdd == Current = {}

\* POST domain.  No state of the deployment refuses it.
AddDomain ==
    /\ MayAdd
    /\ \E i \in Domains :
           /\ row[i].status = "none" /\ \A j \in Domains : j < i => row[j].status # "none"
           /\ row' = [ row EXCEPT ![i] = NewRow ]
           /\ \/ Configure(i, None, FALSE) /\ UNCHANGED faults
              \/ Fault /\ UNCHANGED jobs
    /\ UNCHANGED << phase, removal, aws, dns, result, handler, destroy >>

\* DELETE domain, also a second time, and cut off before its job is queued.
RemoveDomain ==
    /\ \E i \in Current :
           \/ AskRemoval(i, row[i], TRUE) /\ UNCHANGED faults
           \/ /\ Fault /\ row' = Marked(i, "REMOVING")
              /\ IF MintsRemove(row[i].status, removal[i], TRUE)
                 THEN removal' = [ removal EXCEPT ![i] = "owed" ]
                 ELSE UNCHANGED removal
              /\ UNCHANGED jobs
    /\ UNCHANGED << phase, aws, dns, result, handler, destroy >>

\* runDomainCheck reads the row
\* (a heartbeat, with the relay waiting, "Check now" without it) ...
StartCheck ==
    /\ handler = None
    /\ \E i \in Current :
           /\ row[i].status \notin { "ACTIVE", "ERROR" }
           /\ phase \in Running \/ row[i].status = "REMOVING"
           /\ handler' = [ of |-> i, row |-> row[i], phase |-> phase,
                           waited |-> FALSE ]
    /\ UNCHANGED << phase, row, jobs, removal, aws, dns, result, destroy, faults >>

\* ... and acts on what it read, DNS look-ups and the probe in between: it
\* asks the relay, ...
Asks(c) ==
    /\ c.phase \in Running
    /\ \/ c.row.status = "PENDING"
       \/ /\ c.row.status = "WAITING_FOR_DNS"
          /\ c.row.shown \in dns.validation
          /\ c.row.routed /\ c.of \in dns.routing

\* ... activates the domain, or sees to its removal.  An error is final.
Activates(c) == c.phase \in Running /\ c.row.status = "CONFIGURING" /\ Probe(c.of)
Nudges(c) == c.row.status = "REMOVING"

FinishCheck ==
    /\ handler # None /\ handler.of # Default
    /\ \/ /\ Asks(handler)
          /\ Configure(handler.of, handler.row.cert, FALSE)
          /\ UNCHANGED << row, removal >>
       \/ /\ Activates(handler)
          /\ row' = Marked(handler.of, "ACTIVE")
          /\ UNCHANGED << jobs, removal >>
       \/ Nudges(handler) /\ AskRemoval(handler.of, handler.row, FALSE)
       \/ /\ ~ (Asks(handler) \/ Activates(handler) \/ Nudges(handler))
          /\ UNCHANGED << row, jobs, removal >>
    /\ handler' = None
    /\ UNCHANGED << phase, aws, dns, result, destroy, faults >>

-----------------------------------------------------------------------------
(***************************************************************************)
(* The default URL: its driver, and the vendor's retry.                    *)
(***************************************************************************)

\* runDefaultHttpsCheck reads the whole state, kept as JSON in one column ...
StartDriver ==
    /\ handler = None /\ phase \in Running
    /\ row[Default].status \notin { "ACTIVE", "ERROR", "REMOVING" }
    /\ handler' = [ of |-> Default, row |-> row[Default], phase |-> phase, waited |-> TRUE ]
    /\ UNCHANGED << phase, row, jobs, removal, aws, dns, result, destroy, faults >>

\* While the stack is created, the listener is not asked for.
Deferred(p) == p = "installing"

Starts(r) == r.status \in { "none", "PENDING" }
Reconciles(r) == r.status = "WAITING_FOR_DNS"
Probes(r) == r.status = "CONFIGURING"

\* ... and writes it whole.  A job is minted with what was read.
Overwrite(r) == row' = [ row EXCEPT ![Default] = r ]

RequestCertificate(r, p) ==
    LET started == IF r.status = "none" THEN NewRow ELSE r IN
    /\ IF r.status = "none" \/ MintsConfigure(Default) THEN Overwrite(started)
                                                       ELSE UNCHANGED row
    /\ Configure(Default, started.cert, Deferred(p))
    /\ UNCHANGED << dns, faults >>

\* The two records, in this order; Cloudflare may refuse either.
WriteRecords(r, p) ==
    /\ Overwrite(r)
    /\ \/ /\ dns' = [ dns EXCEPT !.validation = @ \cup { r.shown },
                                  !.routing = IF r.routed THEN @ \cup { Default } ELSE @ ]
          /\ Configure(Default, r.cert, Deferred(p))
          /\ UNCHANGED faults
       \/ /\ Fault /\ UNCHANGED jobs
          /\ dns' \in { dns, [ dns EXCEPT !.validation = @ \cup { r.shown } ] }

ProbeDefault(r) ==
    /\ Overwrite(IF Probe(Default) THEN [ r EXCEPT !.status = "ACTIVE" ] ELSE r)
    /\ UNCHANGED << jobs, dns, faults >>

FinishDriver ==
    /\ handler # None /\ handler.of = Default
    /\ LET r == handler.row IN
           \/ Starts(r) /\ RequestCertificate(r, handler.phase)
           \/ Reconciles(r) /\ WriteRecords(r, handler.phase)
           \/ Probes(r) /\ ProbeDefault(r)
           \/ /\ ~ (Starts(r) \/ Reconciles(r) \/ Probes(r))
              /\ UNCHANGED << row, jobs, dns, faults >>
    /\ handler' = None
    /\ UNCHANGED << phase, removal, aws, result, destroy >>

\* DEFAULT_DNS_TIMEOUT: the budget of attempts, which starts after the install,
\* is spent.
TimeOutDriver ==
    /\ Fault
    /\ handler # None /\ handler.of = Default /\ handler.phase = "serving"
    /\ handler.row.status \in { "PENDING", "WAITING_FOR_DNS" }
    /\ Overwrite([ handler.row EXCEPT !.status = "ERROR" ])
    /\ handler' = None
    /\ UNCHANGED << phase, jobs, removal, aws, dns, result, destroy >>

\* POST default-https/retry, with a pass of its own.
RetryDefault ==
    /\ row[Default].status = "ERROR" /\ handler = None
    /\ LET reset == [ row[Default] EXCEPT !.status = "PENDING" ] IN
           /\ Overwrite(reset)
           /\ handler' = IF phase \in Running
                         THEN [ of |-> Default, row |-> reset, phase |-> phase,
                                waited |-> FALSE ]
                         ELSE None
    /\ UNCHANGED << phase, jobs, removal, aws, dns, result, destroy, faults >>

\* The relay's call of a heartbeat times out while it is still handled.
Abandon ==
    /\ handler # None /\ handler.waited /\ Fault
    /\ handler' = [ handler EXCEPT !.waited = FALSE ]
    /\ UNCHANGED << phase, row, jobs, removal, aws, dns, result, destroy >>

-----------------------------------------------------------------------------
(***************************************************************************)
(* The relay: one command at a time.  An executor is a list of the states  *)
(* the account goes through; a failing one stops at any of them.           *)
(***************************************************************************)

\* configureDomain: request, describe, wire the listener, redirect port 80.
Certificate(j) == IF j.cert = None THEN j.of ELSE j.cert

Requested(a, j) ==
    IF j.cert = None /\ a.cert[j.of] = "none"
    THEN [ a EXCEPT !.cert[j.of] = "pending" ] ELSE a

Wires(a, j) == a.cert[Certificate(j)] = "issued" /\ a.alb /\ ~ j.defer

\* Defect for mutation checks: the listener has room for one certificate.
WiredAlone(a, j) == [ a EXCEPT !.default = Certificate(j) ]

Wired(a, j) ==
    LET c == Certificate(j) IN
    IF a.default = None THEN [ a EXCEPT !.default = c ]
    ELSE IF a.default # c THEN [ a EXCEPT !.extra = @ \cup { c } ] ELSE a

ConfigureStages(j) ==
    LET requested == Requested(aws, j)
        wired == Wired(requested, j) IN
    IF Wires(requested, j)
    THEN << requested, wired, [ wired EXCEPT !.redirect = TRUE ] >>
    ELSE << requested >>

\* Describing a certificate that is gone fails.
Fails(j) ==
    j.type = "CONFIGURE_DOMAIN" /\ j.cert \in { o \in Owners : aws.cert[o] = "none" }

\* removeDomain: detach (the listener goes with its default certificate), put
\* port 80 back, delete the certificate.
Detaches(j) == aws.default # None /\ aws.default = j.cert

Detached(j) ==
    IF Detaches(j) THEN [ aws EXCEPT !.default = None, !.extra = {} ]
                   ELSE [ aws EXCEPT !.extra = @ \ { j.cert } ]

RemoveStages(j) ==
    LET detached == Detached(j)
        forwarded == IF Detaches(j) THEN [ detached EXCEPT !.redirect = FALSE ]
                                    ELSE detached IN
    IF j.cert = None THEN << aws >>
    ELSE << detached, forwarded, [ forwarded EXCEPT !.cert[j.cert] = "none" ] >>

Stages(j) == IF j.type = "CONFIGURE_DOMAIN" THEN ConfigureStages(j)
                                            ELSE RemoveStages(j)

\* What the executor reports: the certificate, its validation record if ACM
\* shows one, and the load balancer if it exists.
Output(a, j, known) ==
    LET c == Certificate(j) IN
    [ NoRow EXCEPT !.cert = c, !.routed = a.alb,
                   !.shown = IF known /\ a.cert[c] # "refused" THEN c ELSE None ]

Answer(j, ok, known) ==
    LET a == Last(Stages(j)) IN
    [ job |-> [ j EXCEPT !.state = "RUNNING" ], ok |-> ok,
      row |-> IF ok /\ j.type = "CONFIGURE_DOMAIN" THEN Output(a, j, known) ELSE NoRow,
      refused |-> ok /\ j.type = "CONFIGURE_DOMAIN" /\ a.cert[Certificate(j)] = "refused",
      wired |-> ok /\ j.type = "CONFIGURE_DOMAIN" /\ Wires(a, j) ]

\* The relay makes one call at a time.
RelayWaits == handler # None /\ handler.waited

Claimable == { k \in DOMAIN jobs : jobs[k].state = "REQUESTED" }

Execute ==
    /\ result = None /\ ~ RelayWaits
    /\ \E k \in DOMAIN jobs :
           LET j == jobs[k] IN
           /\ Oldest(k, Claimable)
           /\ jobs' = [ jobs EXCEPT ![k].state = "RUNNING" ]
           /\ \/ /\ ~ Fails(j)
                 /\ aws' = Last(Stages(j))
                 \* A certificate just requested may not show its record yet.
                 /\ \E known \in { TRUE, aws' = aws } : result' = Answer(j, TRUE, known)
                 /\ UNCHANGED faults
              \/ /\ Fails(j)
                 /\ result' = Answer(j, FALSE, FALSE)
                 /\ UNCHANGED << aws, faults >>
              \* A call fails or the relay is cut off.
              \/ /\ Fault /\ ~ Fails(j)
                 /\ aws' \in { aws } \cup ToSet(Stages(j))
                 /\ result' \in { None, Answer(j, FALSE, FALSE) }
    /\ UNCHANGED << phase, row, removal, dns, handler, destroy >>

-----------------------------------------------------------------------------
(***************************************************************************)
(* Results and the watchdog.                                               *)
(***************************************************************************)

Holding(j) == { k \in DOMAIN jobs : jobs[k] = j }

\* The newest job of the address decides; a job minted later is not affected.
SettledRemoval(j, k, to) ==
    IF j.type = "REMOVE_DOMAIN" /\ \A m \in OpenOf("REMOVE_DOMAIN", j.of) : m <= k
    THEN [ removal EXCEPT ![j.of] = to ] ELSE removal

\* The row a CONFIGURE result leaves: what the relay saw, and how far that
\* brings the machine.
Learned(r, seen) ==
    [ r EXCEPT !.cert = seen.row.cert, !.routed = @ \/ seen.row.routed,
               !.shown = IF seen.row.shown = None THEN @ ELSE seen.row.shown ]

Waits(r) == r.status = "PENDING" /\ r.shown # None

Advanced(r, seen) ==
    LET status == IF Waits(r) THEN "WAITING_FOR_DNS" ELSE r.status IN
    [ r EXCEPT !.status = IF seen.wired /\ status \in { "PENDING", "WAITING_FOR_DNS" }
                          THEN "CONFIGURING" ELSE status ]

Refuses(o, r, seen) ==
    o # Default /\ seen.refused /\ r.status \in { "PENDING", "WAITING_FOR_DNS" }

\* applyDomainJobResult, applyDefaultHttpsJobResult: a configure result.
Configured(o, r, seen) ==
    IF r.status = "REMOVING" \/ (~ seen.ok /\ r.status = "ACTIVE") THEN r
    ELSE IF ~ seen.ok THEN [ r EXCEPT !.status = "ERROR" ]
    ELSE IF Refuses(o, r, seen) THEN [ Learned(r, seen) EXCEPT !.status = "ERROR" ]
    ELSE Advanced(Learned(r, seen), seen)

Removed(o, r) == IF o = Default THEN NoRow ELSE [ NoRow EXCEPT !.status = "removed" ]

Applied(o, seen) ==
    [ row EXCEPT ![o] = IF seen.job.type = "CONFIGURE_DOMAIN" THEN Configured(o, @, seen)
                        ELSE IF seen.ok THEN Removed(o, @) ELSE @ ]

\* The row a result is applied to: a custom one goes to the current domain.
Subject(j) == IF j.of = Default THEN { Default } \cap { o \in Owners : row[o] # NoRow }
                                ELSE Current

\* The records of the default URL go with its certificate, as far as the state
\* names them; a refusal of Cloudflare is only logged.
RecordsDropped ==
    [ dns EXCEPT !.validation = @ \ { row[Default].shown },
                 !.routing = IF row[Default] = NoRow THEN @ ELSE @ \ { Default } ]

DropRecords ==
    \/ dns' = RecordsDropped /\ UNCHANGED faults
    \/ /\ Default \in dns.routing \ RecordsDropped.routing /\ Fault
       /\ dns' = [ RecordsDropped EXCEPT !.routing = dns.routing, !.refused = TRUE ]

Report ==
    /\ result # None /\ ~ RelayWaits
    /\ result' = None
    /\ LET j == result.job IN
       IF Holding(j) = {} THEN UNCHANGED << row, jobs, removal, dns, faults >>
       ELSE \E k \in DOMAIN jobs :
             /\ Oldest(k, Holding(j))
             /\ jobs' = RemoveAt(jobs, k)
             /\ removal' = SettledRemoval(j, k, IF result.ok THEN "done" ELSE "failed")
             /\ row' = IF Subject(j) = {} THEN row
                       ELSE Applied(CHOOSE o \in Subject(j) : TRUE, result)
             /\ IF j.type = "REMOVE_DOMAIN" /\ j.of = Default /\ result.ok
                THEN DropRecords ELSE UNCHANGED << dns, faults >>
    /\ UNCHANGED << phase, aws, handler, destroy >>

\* sweepStuckJobs: a job the relay lost is offered again, or given up.
Held(k) == result # None /\ result.job = jobs[k]
Lost(k) == jobs[k].state = "RUNNING" /\ ~ Held(k)

Requeue ==
    /\ \E k \in DOMAIN jobs : Lost(k) /\ jobs' = [ jobs EXCEPT ![k].state = "REQUESTED" ]
    /\ UNCHANGED << phase, row, removal, aws, dns, result, handler, destroy,
                    faults >>

GiveUp ==
    /\ Fault
    /\ \E k \in DOMAIN jobs :
           /\ ~ Held(k)
           /\ jobs' = RemoveAt(jobs, k)
           /\ removal' = SettledRemoval(jobs[k], k, "failed")
    /\ UNCHANGED << phase, row, aws, dns, result, handler, destroy >>

-----------------------------------------------------------------------------
(***************************************************************************)
(* The deployment, and the world around it.                                *)
(***************************************************************************)

\* CloudFormation creates the load balancer in the course of the install.
CreateLoadBalancer ==
    /\ phase = "installing" /\ ~ aws.alb
    /\ aws' = [ aws EXCEPT !.alb = TRUE ]
    /\ UNCHANGED << phase, row, jobs, removal, dns, result, handler, destroy,
                    faults >>

InstallSucceeds ==
    /\ phase = "installing" /\ aws.alb /\ ~ RelayWaits
    /\ phase' = "serving"
    /\ UNCHANGED << row, jobs, removal, aws, dns, result, handler, destroy,
                    faults >>

\* POST destroy queues the DESTROY job ...
RequestDestroy ==
    /\ phase = "serving"
    /\ phase' = "deleting"
    /\ destroy' = [ row |-> row[Default], next |-> "domain" ]
    /\ UNCHANGED << row, jobs, removal, aws, dns, result, handler, faults >>

\* ... and, after a call to the billing provider, the removal of the domain as
\* it is by then ...
TearDownDomain ==
    /\ destroy # None /\ destroy.next = "domain"
    /\ destroy' = [ destroy EXCEPT !.next = "default" ]
    /\ \/ \E i \in Current : AskRemoval(i, row[i], TRUE)
       \/ Current = {} /\ UNCHANGED << row, jobs, removal >>
    /\ UNCHANGED << phase, aws, dns, result, handler, faults >>

\* ... and of the default URL as it was when the request arrived.
TearDownDefault ==
    /\ destroy # None /\ destroy.next = "default"
    /\ destroy' = None
    /\ IF destroy.row = NoRow THEN UNCHANGED << row, jobs, removal >>
       ELSE /\ Overwrite([ destroy.row EXCEPT !.status = "REMOVING" ])
            /\ jobs' = Queued("REMOVE_DOMAIN", Default, destroy.row.cert, FALSE)
            /\ removal' = [ removal EXCEPT ![Default] = "open" ]
    /\ UNCHANGED << phase, aws, dns, result, handler, faults >>

CutOffDestroy ==
    /\ destroy # None /\ Fault
    /\ destroy' = None
    /\ UNCHANGED << phase, row, jobs, removal, aws, dns, result, handler >>

\* The relay deletes the stack, which outlasts every request under way.
DeleteStack ==
    /\ phase = "deleting" /\ aws.alb
    /\ handler = None /\ destroy = None
    /\ aws' = [ aws EXCEPT !.alb = FALSE, !.redirect = FALSE, !.default = None,
                           !.extra = {} ]
    /\ UNCHANGED << phase, row, jobs, removal, dns, result, handler, destroy,
                    faults >>

\* Defect for mutation checks: the state of the default URL is left to its job.
DefaultKept == row[Default]

\* The result of DESTROY ends both machines whatever their removal jobs did.
DefaultAfterDestroy == NoRow

DestroySucceeds ==
    /\ phase = "deleting" /\ ~ aws.alb
    /\ phase' = "deleted"
    /\ row' = [ o \in Owners |-> IF o = Default THEN DefaultAfterDestroy
                                 ELSE IF o \in Current THEN Removed(o, row[o])
                                 ELSE row[o] ]
    /\ DropRecords
    /\ UNCHANGED << jobs, removal, aws, result, handler, destroy >>

\* The purge of any deployment sweeps the records of those that are gone.
SweepRecords ==
    /\ phase = "deleted" /\ Default \in dns.routing
    /\ dns' = [ dns EXCEPT !.routing = @ \ { Default }, !.refused = FALSE ]
    /\ UNCHANGED << phase, row, jobs, removal, aws, result, handler, destroy,
                    faults >>

\* ACM issues a certificate whose validation record it finds, or gives up.
Issue ==
    /\ \E o \in dns.validation :
           /\ aws.cert[o] = "pending"
           /\ aws' = [ aws EXCEPT !.cert[o] = "issued" ]
    /\ UNCHANGED << phase, row, jobs, removal, dns, result, handler, destroy,
                    faults >>

Refuse ==
    /\ Fault
    /\ \E o \in Owners :
           /\ aws.cert[o] = "pending"
           /\ aws' = [ aws EXCEPT !.cert[o] = "refused" ]
    /\ UNCHANGED << phase, row, jobs, removal, dns, result, handler, destroy >>

\* The customer creates the records that the install page shows.
Publish ==
    /\ \E i \in Current :
           dns' = [ dns EXCEPT !.validation = @ \cup ({ row[i].shown } \ { None }),
                               !.routing = IF row[i].routed THEN @ \cup { i } ELSE @ ]
    /\ dns' # dns
    /\ UNCHANGED << phase, row, jobs, removal, aws, result, handler, destroy,
                    faults >>

-----------------------------------------------------------------------------
Next ==
    \/ AddDomain \/ RemoveDomain \/ StartCheck \/ FinishCheck
    \/ StartDriver \/ FinishDriver \/ TimeOutDriver \/ RetryDefault \/ Abandon
    \/ Execute \/ Report \/ Requeue \/ GiveUp
    \/ CreateLoadBalancer \/ InstallSucceeds
    \/ RequestDestroy \/ TearDownDomain \/ TearDownDefault \/ CutOffDestroy
    \/ DeleteStack \/ DestroySucceeds \/ SweepRecords
    \/ Issue \/ Refuse \/ Publish

Spec == Init /\ [][Next]_vars

\* The relay keeps calling (heartbeats, polls, results), the watchdog sweeps,
\* ACM looks for its records, and the customer creates the ones shown.
FairSpec ==
    /\ Spec
    /\ SF_vars(StartCheck) /\ WF_vars(FinishCheck)
    /\ SF_vars(StartDriver) /\ WF_vars(FinishDriver)
    /\ SF_vars(Execute) /\ SF_vars(Report) /\ WF_vars(Requeue)
    /\ WF_vars(Issue) /\ WF_vars(Publish)

-----------------------------------------------------------------------------
\* An address has one configure job at a time, whichever of the routes, passes
\* and retries asked for it.
OneConfigureJob == \A o \in Owners : \A k, m \in OpenOf("CONFIGURE_DOMAIN", o) : k = m

\* An open removal has its job, and a job that somebody asked for it; nobody but
\* the destroy route asks for that of the default URL.
RemovalsInOrder ==
    \A o \in Owners :
        /\ removal[o] = "open" => OpenOf("REMOVE_DOMAIN", o) # {}
        /\ removal[o] = "none" => OpenOf("REMOVE_DOMAIN", o) = {}
        /\ o = Default /\ phase \in Running => removal[o] = "none"

\* A row without a status has nothing else, and one that waits for its records
\* has one to show.
RowInOrder(r) ==
    /\ r.status = "none" => r = NoRow
    /\ r.status = "WAITING_FOR_DNS" => r.shown # None
RowsInOrder == \A o \in Owners : RowInOrder(row[o])

\* The stack outlasts the install, the destroy request and every pass over the
\* default URL.
PassesInOrder ==
    /\ phase = "serving" => aws.alb
    /\ destroy # None => phase = "deleting" /\ aws.alb
    /\ handler # None =>
          /\ RowInOrder(handler.row)
          /\ handler.of = Default => phase \in Running \/ (phase = "deleting" /\ aws.alb)

\* The records of the default URL are deleted with its state.
RecordsInOrder ==
    row[Default] = NoRow /\ Default \in dns.routing => dns.refused

\* The rows, the jobs and the account agree, and every variable has its type.
Consistent ==
    /\ TypeOK
    /\ OneConfigureJob /\ RemovalsInOrder
    /\ RowsInOrder /\ PassesInOrder /\ RecordsInOrder

\* A custom domain that is shown as ACTIVE has its certificate on the listener,
\* though it is never checked again, as long as nobody asked for its removal
\* and the deployment is not torn down.
ActiveDomainIsServed ==
    \A i \in Domains :
        /\ row[i].status = "ACTIVE" /\ removal[i] = "none"
        /\ phase \in Running
        => i \in Served

\* A deployment that is gone has left nothing of its default URL behind, whatever
\* passes, results and the destroy request overwrote: no state, and no record in
\* the zone that points into the customer's account, unless Cloudflare refused to
\* delete it.
TornDown ==
    phase = "deleted" => /\ row[Default] = NoRow
                         /\ Default \in dns.routing => dns.refused

\* Once both records of a domain are known, it gets past the DNS check unless
\* its certificate is refused, an answer meant for a removed domain overwrites
\* its certificate, or the vendor removes it or the deployment.
DomainComesUp ==
    \A i \in Domains :
        (row[i].status = "WAITING_FOR_DNS" /\ row[i].routed /\ row[i].cert = i)
            ~> \/ row[i].status \in { "ACTIVE", "ERROR", "REMOVING", "removed" }
               \/ row[i].cert # i
               \/ phase \notin Running

\* The default URL of a serving deployment always gets as far as its probe, or
\* says why not, unless its certificate is refused.
DefaultGetsConfigured ==
    (phase = "serving" /\ row[Default].status \in { "none", "PENDING", "WAITING_FOR_DNS" })
        ~> \/ row[Default].status \notin { "none", "PENDING", "WAITING_FOR_DNS" }
           \/ aws.cert[Default] = "refused"
           \/ phase # "serving"

\* A removal ends: the domain is gone, or its job failed and the vendor may ask
\* again.  A cut-off request is made good by the heartbeats.
RemovalEnds ==
    \A i \in Domains :
        row[i].status = "REMOVING" ~> row[i].status # "REMOVING" \/ removal[i] = "failed"

-----------------------------------------------------------------------------
(***************************************************************************)
(* What the repository's documents say and the code does not keep.         *)
(***************************************************************************)

\* The default URL is never disabled while the deployment serves.
DefaultUrlStays ==
    row[Default].status = "ACTIVE" /\ phase = "serving" => Default \in Served

\* Port 80 redirects only to a listener that exists, commands done.
RedirectLeadsSomewhere ==
    aws.redirect /\ (\A k \in DOMAIN jobs : jobs[k].state # "RUNNING") => aws.default # None

\* The routing record is written once the load balancer is known.
RoutingRecordWritten ==
    (phase = "serving" /\ row[Default].routed)
        ~> \/ Default \in dns.routing
           \/ row[Default].status = "ERROR" \/ phase # "serving"

\* A custom domain carries its own certificate.
OwnCertificate == \A i \in Current : row[i].cert \in { None, i }

=============================================================================
