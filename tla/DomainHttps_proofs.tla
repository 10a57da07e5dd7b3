------------------------- MODULE DomainHttps_proofs -------------------------
(***************************************************************************)
(* Proofs about DomainHttps, for every number of custom domains and faults *)
(* unless a theorem says otherwise.                                        *)
(***************************************************************************)
EXTENDS DomainHttps, SequenceTheorems, TLAPS

Types == { "CONFIGURE_DOMAIN", "REMOVE_DOMAIN" }

\* The jobs of an address, written out so that a step can be compared with the
\* one before it.
JobsOf(s, type, o) == { k \in DOMAIN s : s[k].type = type /\ s[k].of = o }

LEMMA OwnersFacts ==
    /\ Default \in Owners /\ None \notin Owners /\ Domains \subseteq Owners
    /\ \A i \in Domains : i # Default
    /\ \A o \in Owners : o # Default => o \in Domains
BY NoneAssumption, LimitsAssumption DEF Owners, Domains, Default

LEMMA NoRowFields ==
    /\ NoRow \in Row /\ NoRow.status = "none" /\ NoRow.cert = None
    /\ NewRow \in Row /\ NewRow.status = "PENDING" /\ NewRow # NoRow
BY DEF NoRow, NewRow, Row, Maybe

\* What an insert and a settlement do to the sequence of jobs.
LEMMA JobAppended ==
    ASSUME NEW s \in Seq(Job), NEW j \in Job
    PROVE  /\ Append(s, j) \in Seq(Job)
           /\ \A type \in Types, o \in Owners :
                 JobsOf(Append(s, j), type, o) =
                     JobsOf(s, type, o) \cup (IF j.type = type /\ j.of = o
                                              THEN { Len(s) + 1 } ELSE {})
<1>1. /\ Append(s, j) \in Seq(Job) /\ Len(Append(s, j)) = Len(s) + 1
      /\ \A i \in 1 .. Len(s) : Append(s, j)[i] = s[i]
      /\ Append(s, j)[Len(s) + 1] = j
      /\ Len(s) \in Nat
      /\ DOMAIN s = 1 .. Len(s) /\ DOMAIN Append(s, j) = 1 .. Len(s) + 1
  OBVIOUS
<1>2. QED  BY <1>1 DEF JobsOf

LEMMA JobReplaced ==
    ASSUME NEW s \in Seq(Job), NEW k \in DOMAIN s,
           NEW state \in { "REQUESTED", "RUNNING" }
    PROVE  /\ [ s EXCEPT ![k].state = state ] \in Seq(Job)
           /\ \A type \in Types, o \in Owners :
                 JobsOf([ s EXCEPT ![k].state = state ], type, o) = JobsOf(s, type, o)
<1> DEFINE t == [ s EXCEPT ![k].state = state ]
<1>1. s \in [ 1 .. Len(s) -> Job ] /\ DOMAIN s = 1 .. Len(s) /\ Len(s) \in Nat
  OBVIOUS
<1>2. t \in [ 1 .. Len(s) -> Job ]
  BY <1>1 DEF Job
<1>3. t \in Seq(Job)
  BY <1>1, <1>2
<1>4. \A i \in 1 .. Len(s) : t[i].type = s[i].type /\ t[i].of = s[i].of
  BY <1>1 DEF Job
<1>5. DOMAIN t = DOMAIN s
  BY <1>1
<1>6. QED  BY <1>1, <1>3, <1>4, <1>5 DEF JobsOf

LEMMA JobTaken ==
    ASSUME NEW s \in Seq(Job), NEW k \in DOMAIN s
    PROVE  /\ RemoveAt(s, k) \in Seq(Job)
           /\ \A type \in Types, o \in Owners :
                 /\ \A m \in JobsOf(RemoveAt(s, k), type, o) :
                       IF m < k THEN m \in JobsOf(s, type, o)
                                ELSE m + 1 \in JobsOf(s, type, o)
                 /\ \A m \in JobsOf(s, type, o) :
                       /\ m < k => m \in JobsOf(RemoveAt(s, k), type, o)
                       /\ m > k => m - 1 \in JobsOf(RemoveAt(s, k), type, o)
<1> DEFINE t == RemoveAt(s, k)
<1>1. DOMAIN s = 1 .. Len(s) /\ Len(s) \in Nat /\ k \in 1 .. Len(s)
  OBVIOUS
<1>2. /\ t \in Seq(Job) /\ Len(t) = Len(s) - 1
      /\ \A i \in 1 .. Len(s) - 1 : t[i] = IF i < k THEN s[i] ELSE s[i + 1]
  <2> DEFINE a == SubSeq(s, 1, k - 1)
             b == SubSeq(s, k + 1, Len(s))
  <2>1. /\ a \in Seq(Job) /\ Len(a) = k - 1
        /\ \A i \in 1 .. k - 1 : a[i] = s[i]
    BY <1>1
  <2>2. /\ b \in Seq(Job) /\ Len(b) = Len(s) - k
        /\ \A i \in 1 .. Len(s) - k : b[i] = s[k + i]
    BY <1>1
  <2>3. /\ t \in Seq(Job) /\ Len(t) = Len(a) + Len(b)
        /\ \A i \in 1 .. Len(a) + Len(b) :
              t[i] = IF i <= Len(a) THEN a[i] ELSE b[i - Len(a)]
    <3>1. t = a \o b  BY DEF RemoveAt
    <3> HIDE DEF t, a, b
    <3>2. QED  BY <3>1, <2>1, <2>2, ConcatProperties
  <2> HIDE DEF t, a, b
  <2>4. ASSUME NEW i \in 1 .. Len(s) - 1
        PROVE  t[i] = IF i < k THEN s[i] ELSE s[i + 1]
    <3>1. CASE i < k
      BY <3>1, <1>1, <2>1, <2>2, <2>3
    <3>2. CASE ~ (i < k)
      <4>1. i - (k - 1) \in 1 .. Len(s) - k /\ k + (i - (k - 1)) = i + 1
        BY <3>2, <1>1
      <4>2. b[i - (k - 1)] = s[i + 1]
        BY <4>1, <2>2
      <4>3. QED  BY <3>2, <4>2, <1>1, <2>1, <2>2, <2>3
    <3>3. QED  BY <3>1, <3>2
  <2>5. Len(t) = Len(s) - 1
    <3>1. Len(a) = k - 1 /\ Len(b) = Len(s) - k /\ Len(t) = Len(a) + Len(b)
      BY <2>1, <2>2, <2>3
    <3>2. QED  BY ONLY <3>1, <1>1
  <2>6. t \in Seq(Job)
    BY <2>3
  <2>7. QED  BY ONLY <2>4, <2>5, <2>6
<1> HIDE DEF t
<1>3. DOMAIN t = 1 .. Len(s) - 1
  BY <1>1, <1>2
<1>4. QED
  <2>1. t \in Seq(Job)  BY <1>2
  <2>2. ASSUME NEW type \in Types, NEW o \in Owners, NEW m \in JobsOf(t, type, o)
        PROVE  IF m < k THEN m \in JobsOf(s, type, o) ELSE m + 1 \in JobsOf(s, type, o)
    BY <1>1, <1>2, <1>3 DEF JobsOf
  <2>3. ASSUME NEW type \in Types, NEW o \in Owners, NEW m \in JobsOf(s, type, o)
        PROVE  /\ m < k => m \in JobsOf(t, type, o)
               /\ m > k => m - 1 \in JobsOf(t, type, o)
    BY <1>1, <1>2, <1>3 DEF JobsOf
  <2>4. QED  BY <2>1, <2>2, <2>3 DEF t

-----------------------------------------------------------------------------
\* What the job rows and the bookkeeping of removals say of each other.
Agree(s, asked, ph) ==
    \A o \in Owners :
        /\ \A k, m \in JobsOf(s, "CONFIGURE_DOMAIN", o) : k = m
        /\ asked[o] = "open" => JobsOf(s, "REMOVE_DOMAIN", o) # {}
        /\ asked[o] = "none" => JobsOf(s, "REMOVE_DOMAIN", o) = {}
        /\ o = Default /\ ph \in Running => asked[o] = "none"

LEMMA AgreeIs ==
    /\ OneConfigureJob /\ RemovalsInOrder <=> Agree(jobs, removal, phase)
    /\ (OneConfigureJob /\ RemovalsInOrder)' <=> Agree(jobs', removal', phase')
BY DEF OneConfigureJob, RemovalsInOrder, Agree, OpenOf, JobsOf

\* A configure job is minted where there is none.
LEMMA ConfigureKeeps ==
    ASSUME TypeOK, Agree(jobs, removal, phase),
           NEW o \in Owners, NEW cert \in Maybe(Owners), NEW defer \in BOOLEAN,
           Configure(o, cert, defer)
    PROVE  jobs' \in Seq(Job) /\ Agree(jobs', removal, phase)
<1>1. jobs \in Seq(Job)  BY DEF TypeOK
<1>2. CASE MintsConfigure(o)
  <2> DEFINE j == [ type |-> "CONFIGURE_DOMAIN", of |-> o, cert |-> cert,
                    defer |-> defer, state |-> "REQUESTED" ]
  <2>1. j \in Job /\ j.type = "CONFIGURE_DOMAIN" /\ j.of = o
    BY DEF Job
  <2>2. jobs' = Append(jobs, j)
    BY <1>2 DEF Configure, Queued
  <2> HIDE DEF j
  <2>3. JobsOf(jobs, "CONFIGURE_DOMAIN", o) = {}
    BY <1>2 DEF MintsConfigure, OpenOf, JobsOf
  <2>4. /\ jobs' \in Seq(Job)
        /\ \A type \in Types, p \in Owners :
              JobsOf(jobs', type, p) =
                  JobsOf(jobs, type, p) \cup (IF j.type = type /\ j.of = p
                                              THEN { Len(jobs) + 1 } ELSE {})
    BY <1>1, <2>1, <2>2, JobAppended
  <2>5. /\ jobs' \in Seq(Job)
        /\ \A p \in Owners :
              /\ JobsOf(jobs', "REMOVE_DOMAIN", p) = JobsOf(jobs, "REMOVE_DOMAIN", p)
              /\ JobsOf(jobs', "CONFIGURE_DOMAIN", p) =
                    JobsOf(jobs, "CONFIGURE_DOMAIN", p)
                        \cup (IF p = o THEN { Len(jobs) + 1 } ELSE {})
    <3>1. "CONFIGURE_DOMAIN" \in Types /\ "REMOVE_DOMAIN" \in Types
      BY DEF Types
    <3>2. ASSUME NEW p \in Owners
          PROVE  /\ JobsOf(jobs', "REMOVE_DOMAIN", p) =
                       JobsOf(jobs, "REMOVE_DOMAIN", p) \cup {}
                 /\ JobsOf(jobs', "CONFIGURE_DOMAIN", p) =
                       JobsOf(jobs, "CONFIGURE_DOMAIN", p)
                           \cup (IF o = p THEN { Len(jobs) + 1 } ELSE {})
      BY ONLY <2>1, <2>4, <3>1, p \in Owners
    <3>3. \A S : S \cup {} = S
      OBVIOUS
    <3>4. QED  BY <2>4, <3>2, <3>3
  <2>6. QED  BY <2>3, <2>5 DEF Agree
<1>3. CASE ~ MintsConfigure(o)
  BY <1>1, <1>3 DEF Configure
<1>4. QED  BY <1>2, <1>3

LEMMA RemovalQueued ==
    ASSUME NEW s \in Seq(Job), NEW o \in Owners, NEW cert \in Maybe(Owners),
           NEW asked \in [ Owners -> { "none", "owed", "open", "done", "failed" } ],
           NEW ph, Agree(s, asked, ph), o = Default => ph \notin Running,
           NEW t, t = Append(s, [ type |-> "REMOVE_DOMAIN", of |-> o, cert |-> cert,
                                  defer |-> FALSE, state |-> "REQUESTED" ])
    PROVE  t \in Seq(Job) /\ Agree(t, [ asked EXCEPT ![o] = "open" ], ph)
<1> DEFINE j == [ type |-> "REMOVE_DOMAIN", of |-> o, cert |-> cert,
                  defer |-> FALSE, state |-> "REQUESTED" ]
<1>1. j \in Job /\ j.type = "REMOVE_DOMAIN" /\ j.of = o /\ t = Append(s, j)
  BY DEF Job
<1> HIDE DEF j
<1>2. /\ t \in Seq(Job)
      /\ \A type \in Types, p \in Owners :
            JobsOf(t, type, p) =
                JobsOf(s, type, p) \cup (IF j.type = type /\ j.of = p
                                         THEN { Len(s) + 1 } ELSE {})
  <2>1. /\ Append(s, j) \in Seq(Job)
        /\ \A type \in Types, p \in Owners :
              JobsOf(Append(s, j), type, p) =
                  JobsOf(s, type, p) \cup (IF j.type = type /\ j.of = p
                                           THEN { Len(s) + 1 } ELSE {})
    BY ONLY s \in Seq(Job), <1>1, JobAppended
  <2>2. QED  BY ONLY <1>1, <2>1
<1>3. /\ t \in Seq(Job)
      /\ \A p \in Owners :
            /\ JobsOf(t, "CONFIGURE_DOMAIN", p) = JobsOf(s, "CONFIGURE_DOMAIN", p)
            /\ JobsOf(t, "REMOVE_DOMAIN", p) =
                  JobsOf(s, "REMOVE_DOMAIN", p)
                      \cup (IF p = o THEN { Len(s) + 1 } ELSE {})
  <2>1. "CONFIGURE_DOMAIN" \in Types /\ "REMOVE_DOMAIN" \in Types
    BY DEF Types
  <2>2. ASSUME NEW p \in Owners
        PROVE  /\ JobsOf(t, "CONFIGURE_DOMAIN", p) =
                     JobsOf(s, "CONFIGURE_DOMAIN", p) \cup {}
               /\ JobsOf(t, "REMOVE_DOMAIN", p) =
                     JobsOf(s, "REMOVE_DOMAIN", p)
                         \cup (IF o = p THEN { Len(s) + 1 } ELSE {})
    BY ONLY <1>1, <1>2, <2>1, p \in Owners
  <2>3. \A S : S \cup {} = S
    OBVIOUS
  <2>4. QED  BY <1>2, <2>2, <2>3
<1>4. QED  BY <1>3 DEF Agree

\* A settled job goes; the newest removal of its address says how it ended.
LEMMA TakenKeeps ==
    ASSUME TypeOK, Agree(jobs, removal, phase), NEW k \in DOMAIN jobs,
           NEW to \in { "done", "failed" },
           jobs' = RemoveAt(jobs, k), removal' = SettledRemoval(jobs[k], k, to)
    PROVE  /\ jobs' \in Seq(Job)
           /\ removal' \in [ Owners -> { "none", "owed", "open", "done", "failed" } ]
           /\ Agree(jobs', removal', phase)
           /\ \A o \in Owners : removal'[o] = "none" <=> removal[o] = "none"
<1> DEFINE j == jobs[k]
<1>1. jobs \in Seq(Job) /\ j \in Job /\ j.type \in Types /\ j.of \in Owners
  <2>1. jobs \in Seq(Job)  BY DEF TypeOK
  <2>2. j \in Job  BY <2>1
  <2>3. QED  BY <2>1, <2>2 DEF Job, Types
<1>2. /\ jobs' \in Seq(Job)
      /\ \A type \in Types, o \in Owners :
            /\ \A m \in JobsOf(jobs', type, o) :
                  IF m < k THEN m \in JobsOf(jobs, type, o)
                           ELSE m + 1 \in JobsOf(jobs, type, o)
            /\ \A m \in JobsOf(jobs, type, o) :
                  /\ m < k => m \in JobsOf(jobs', type, o)
                  /\ m > k => m - 1 \in JobsOf(jobs', type, o)
  BY <1>1, JobTaken
<1>3. removal \in [ Owners -> { "none", "owed", "open", "done", "failed" } ]
  BY DEF TypeOK
<1>4. \A o \in Owners : removal'[o] = "none" <=> removal[o] = "none"
  <2>1. ASSUME j.type = "REMOVE_DOMAIN"
        PROVE  removal[j.of] # "none"
    <3>1. k \in JobsOf(jobs, "REMOVE_DOMAIN", j.of)
      BY <2>1 DEF JobsOf
    <3>2. QED  BY <3>1, <1>1 DEF Agree
  <2>2. QED  BY <2>1, <1>1, <1>3 DEF SettledRemoval
<1>5. removal' \in [ Owners -> { "none", "owed", "open", "done", "failed" } ]
  BY <1>1, <1>3 DEF SettledRemoval
<1>6. \A type \in Types, o \in Owners :
          \A m \in JobsOf(jobs, type, o) \cup JobsOf(jobs', type, o) : m \in Nat /\ m >= 1
  BY <1>1, <1>2 DEF JobsOf
<1>7. k \in Nat
  BY <1>1
<1>8. ASSUME NEW o \in Owners
      PROVE  \A m, n \in JobsOf(jobs', "CONFIGURE_DOMAIN", o) : m = n
  <2> SUFFICES ASSUME NEW m \in JobsOf(jobs', "CONFIGURE_DOMAIN", o),
                      NEW n \in JobsOf(jobs', "CONFIGURE_DOMAIN", o)
               PROVE  m = n
    OBVIOUS
  <2>1. \A a, b \in JobsOf(jobs, "CONFIGURE_DOMAIN", o) : a = b
    BY DEF Agree
  <2>2. /\ IF m < k THEN m \in JobsOf(jobs, "CONFIGURE_DOMAIN", o)
                    ELSE m + 1 \in JobsOf(jobs, "CONFIGURE_DOMAIN", o)
        /\ IF n < k THEN n \in JobsOf(jobs, "CONFIGURE_DOMAIN", o)
                    ELSE n + 1 \in JobsOf(jobs, "CONFIGURE_DOMAIN", o)
        /\ m \in Nat /\ n \in Nat
    BY <1>2, <1>6 DEF Types
  <2>3. QED  BY ONLY <2>1, <2>2, <1>7
<1>9. ASSUME NEW o \in Owners, removal'[o] = "open"
      PROVE  JobsOf(jobs', "REMOVE_DOMAIN", o) # {}
  <2>1. PICK m \in JobsOf(jobs, "REMOVE_DOMAIN", o) : m # k
    <3>1. CASE j.type = "REMOVE_DOMAIN" /\ j.of = o
      <4>1. ~ \A m \in OpenOf("REMOVE_DOMAIN", o) : m <= k
        BY <3>1, <1>9, <1>3 DEF SettledRemoval
      <4>2. PICK m \in JobsOf(jobs, "REMOVE_DOMAIN", o) : ~ (m <= k)
        BY <4>1 DEF OpenOf, JobsOf
      <4>3. m # k
        BY <4>2, <1>7
      <4>4. QED  BY <4>2, <4>3
    <3>2. CASE ~ (j.type = "REMOVE_DOMAIN" /\ j.of = o)
      <4>1. removal[o] = "open"
        BY <3>2, <1>9, <1>3 DEF SettledRemoval
      <4>2. JobsOf(jobs, "REMOVE_DOMAIN", o) # {}
        BY <4>1 DEF Agree
      <4>3. k \notin JobsOf(jobs, "REMOVE_DOMAIN", o)
        BY <3>2 DEF JobsOf
      <4>4. QED  BY <4>2, <4>3
    <3>3. QED  BY <3>1, <3>2
  <2>2. m < k \/ m > k
    BY <2>1, <1>6, <1>7 DEF Types
  <2>3. QED  BY <2>1, <2>2, <1>2 DEF Types
<1>10. ASSUME NEW o \in Owners, removal'[o] = "none"
       PROVE  JobsOf(jobs', "REMOVE_DOMAIN", o) = {}
  <2>1. JobsOf(jobs, "REMOVE_DOMAIN", o) = {}
    BY <1>4, <1>10 DEF Agree
  <2>2. QED  BY <2>1, <1>2 DEF Types
<1>11. phase \in Running => removal'[Default] = "none"
  BY <1>4, OwnersFacts DEF Agree
<1>12. QED
  BY <1>2, <1>4, <1>5, <1>8, <1>9, <1>10, <1>11 DEF Agree

\* The removal of a custom domain is asked for.
LEMMA AskKeeps ==
    ASSUME TypeOK, RowsInOrder, Agree(jobs, removal, phase),
           NEW i \in Domains, NEW r \in Row, NEW retry \in BOOLEAN, AskRemoval(i, r, retry)
    PROVE  /\ jobs' \in Seq(Job)
           /\ removal' \in [ Owners -> { "none", "owed", "open", "done", "failed" } ]
           /\ row' \in [ Owners -> Row ] /\ RowsInOrder'
           /\ row'[Default] = row[Default]
           /\ \A o \in Owners : row'[o].status = "ACTIVE" => row[o].status = "ACTIVE"
           /\ \A o \in Owners : removal'[o] = "none" => removal[o] = "none"
           /\ Agree(jobs', removal', phase)
<1>1. /\ i \in Owners /\ i # Default /\ Default \in Owners
      /\ jobs \in Seq(Job) /\ r.cert \in Maybe(Owners)
      /\ removal \in [ Owners -> { "none", "owed", "open", "done", "failed" } ]
      /\ row \in [ Owners -> Row ]
  BY OwnersFacts DEF TypeOK, Row
<1>2. /\ row' \in [ Owners -> Row ] /\ RowsInOrder'
      /\ row'[Default] = row[Default]
      /\ \A o \in Owners : row'[o].status = "ACTIVE" => row[o].status = "ACTIVE"
  BY <1>1 DEF AskRemoval, Marked, RowsInOrder, RowInOrder, Row
<1>3. CASE MintsRemove(r.status, removal[i], retry)
  <2>1. /\ jobs' = Append(jobs, [ type |-> "REMOVE_DOMAIN", of |-> i, cert |-> r.cert,
                                  defer |-> FALSE, state |-> "REQUESTED" ])
        /\ removal' = [ removal EXCEPT ![i] = "open" ]
    BY <1>3 DEF AskRemoval, Queued
  <2>2. jobs' \in Seq(Job) /\ Agree(jobs', removal', phase)
    BY <1>1, <2>1, RemovalQueued
  <2>3. QED  BY <1>1, <1>2, <2>1, <2>2
<1>4. CASE ~ MintsRemove(r.status, removal[i], retry)
  BY <1>1, <1>2, <1>4 DEF AskRemoval
<1>5. QED  BY <1>3, <1>4

\* An executor leaves the account in order, and a configuring one takes nothing
\* off the listener.
ServedBy(a) == IF a.default = None THEN {} ELSE { a.default } \cup a.extra

LEMMA CertificateTyped ==
    ASSUME NEW j \in Job PROVE Certificate(j) \in Owners
BY DEF Certificate, Job, Maybe

\* The members of a sequence of one, or of three.
LEMMA MembersOfStages ==
    ASSUME NEW d, NEW a, NEW b, NEW c, NEW s, s = << d >> \/ s = << a, b, c >>
    PROVE  \A x \in ToSet(s) \cup { Last(s) } : x \in { a, b, c, d }
<1>1. CASE s = << a, b, c >>
  <2>1. DOMAIN s = { 1, 2, 3 } /\ Len(s) = 3
    BY <1>1
  <2>2. s[1] = a /\ s[2] = b /\ s[3] = c
    BY <1>1
  <2>3. QED  BY <2>1, <2>2 DEF ToSet, Last
<1>2. CASE s = << d >>
  <2>1. DOMAIN s = { 1 } /\ Len(s) = 1
    BY <1>2
  <2>2. s[1] = d
    BY <1>2
  <2>3. QED  BY <2>1, <2>2 DEF ToSet, Last
<1>3. QED  BY <1>1, <1>2

LEMMA StagesKeep ==
    ASSUME TypeOK, NEW j \in Job
    PROVE  \A a \in ToSet(Stages(j)) \cup { Last(Stages(j)) } :
              /\ a \in Account /\ a.alb = aws.alb
              /\ j.type = "CONFIGURE_DOMAIN" => ServedBy(aws) \subseteq ServedBy(a)
<1> DEFINE Good(a) == /\ a \in Account /\ a.alb = aws.alb
                      /\ j.type = "CONFIGURE_DOMAIN" => ServedBy(aws) \subseteq ServedBy(a)
<1>1. aws \in Account /\ j.of \in Owners /\ j.cert \in Owners \cup { None }
  BY DEF TypeOK, Job, Maybe
<1>2. Good(aws)
  BY <1>1
<1>3. CASE j.type = "CONFIGURE_DOMAIN"
  <2> DEFINE requested == Requested(aws, j)
             wired == Wired(requested, j)
             redirected == [ wired EXCEPT !.redirect = TRUE ]
  <2>1. Good(requested)
    BY <1>1 DEF Requested, Account, ServedBy
  <2>2. Good(wired)
    BY <2>1, CertificateTyped, <1>3 DEF Wired, Account, ServedBy, Maybe
  <2>3. Good(redirected)
    BY <2>2 DEF Account, ServedBy
  <2>4. Stages(j) = << requested, wired, redirected >> \/ Stages(j) = << requested >>
    BY <1>3 DEF Stages, ConfigureStages
  <2> HIDE DEF requested, wired, redirected, Good
  <2>5. \A a \in ToSet(Stages(j)) \cup { Last(Stages(j)) } :
           a \in { requested, wired, redirected, requested }
    BY <2>4, MembersOfStages, Zenon
  <2>6. \A a \in ToSet(Stages(j)) \cup { Last(Stages(j)) } : Good(a)
    BY <2>1, <2>2, <2>3, <2>5
  <2>7. QED  BY <2>6 DEF Good
<1>4. CASE j.type # "CONFIGURE_DOMAIN"
  <2> DEFINE detached == Detached(j)
             forwarded == IF Detaches(j) THEN [ detached EXCEPT !.redirect = FALSE ]
                                         ELSE detached
             deleted == [ forwarded EXCEPT !.cert[j.cert] = "none" ]
  <2>1. Good(detached)
    BY <1>1, <1>4 DEF Detached, Account, Maybe
  <2>2. Good(forwarded)
    BY <2>1, <1>4 DEF Account
  <2>3. Good(deleted)
    BY <2>2, <1>4 DEF Account
  <2>4. Stages(j) = << aws >> \/ Stages(j) = << detached, forwarded, deleted >>
    BY <1>4 DEF Stages, RemoveStages
  <2> HIDE DEF detached, forwarded, deleted, Good
  <2>5. \A a \in ToSet(Stages(j)) \cup { Last(Stages(j)) } :
           a \in { detached, forwarded, deleted, aws }
    BY <2>4, MembersOfStages, Zenon
  <2>6. \A a \in ToSet(Stages(j)) \cup { Last(Stages(j)) } : Good(a)
    BY <1>2, <2>1, <2>2, <2>3, <2>5
  <2>7. QED  BY <2>6 DEF Good
<1>5. QED  BY <1>3, <1>4

LEMMA AnswerTyped ==
    ASSUME TypeOK, NEW j \in Job, NEW ok \in BOOLEAN, NEW known \in BOOLEAN
    PROVE  Answer(j, ok, known) \in Result
<1> DEFINE a == Last(Stages(j))
<1>1. a \in Account
  BY StagesKeep
<1> HIDE DEF a
<1>2. Output(a, j, known) \in Row
  BY <1>1, CertificateTyped, NoRowFields DEF Output, NoRow, Row, Account, Maybe
<1>3. [ j EXCEPT !.state = "RUNNING" ] \in Job
  BY DEF Job
<1>4. QED
  BY <1>2, <1>3, NoRowFields DEF Answer, Result, a

\* The rows that a result leaves.
LEMMA ConfiguredRow ==
    ASSUME NEW o \in Owners, NEW r \in Row, NEW seen \in Result
    PROVE  /\ Configured(o, r, seen) \in Row
           /\ RowInOrder(r) /\ r.status # "none" => RowInOrder(Configured(o, r, seen))
           /\ Configured(o, r, seen).status = "none" => r.status = "none"
           /\ Configured(o, r, seen).status = "ACTIVE" => r.status = "ACTIVE"
<1>1. /\ seen.row \in Row /\ seen.row.cert \in Maybe(Owners)
      /\ seen.row.shown \in Maybe(Owners) /\ seen.row.routed \in BOOLEAN
  BY DEF Result, Row
<1>2. /\ Learned(r, seen) \in Row /\ Learned(r, seen).status = r.status
      /\ r.shown # None => Learned(r, seen).shown # None
  BY <1>1 DEF Learned, Row
<1>3. /\ Advanced(Learned(r, seen), seen) \in Row
      /\ Advanced(Learned(r, seen), seen).status = "none" => r.status = "none"
      /\ Advanced(Learned(r, seen), seen).status = "ACTIVE" => r.status = "ACTIVE"
      /\ Advanced(Learned(r, seen), seen).shown = Learned(r, seen).shown
      /\ Advanced(Learned(r, seen), seen).status = "WAITING_FOR_DNS" =>
            r.status = "WAITING_FOR_DNS" \/ Learned(r, seen).shown # None
  BY <1>2 DEF Advanced, Waits, Row
<1>4. /\ [ r EXCEPT !.status = "ERROR" ] \in Row
      /\ [ Learned(r, seen) EXCEPT !.status = "ERROR" ] \in Row
      /\ [ r EXCEPT !.status = "ERROR" ].status = "ERROR"
      /\ [ Learned(r, seen) EXCEPT !.status = "ERROR" ].status = "ERROR"
  BY <1>2 DEF Row
<1>5. QED
  <2>1. CASE r.status = "none"
    BY <1>2, <1>3, <1>4, <2>1, NoRowFields DEF Configured
  <2>2. CASE r.status # "none"
    BY <1>2, <1>3, <1>4, <2>2, NoRowFields DEF Configured, RowInOrder
  <2>3. QED  BY <2>1, <2>2


-----------------------------------------------------------------------------
\* The inductive invariant, and what a step that leaves a part alone keeps.
Inv == Consistent /\ TornDown

LEMMA InvFacts ==
    ASSUME Inv
    PROVE  /\ TypeOK /\ RowsInOrder /\ PassesInOrder /\ RecordsInOrder /\ TornDown
           /\ Agree(jobs, removal, phase)
           /\ jobs \in Seq(Job) /\ row \in [ Owners -> Row ]
           /\ removal \in [ Owners -> { "none", "owed", "open", "done", "failed" } ]
BY AgreeIs DEF Inv, Consistent, TypeOK

LEMMA InvIs ==
    ASSUME TypeOK', RowsInOrder', PassesInOrder', RecordsInOrder', TornDown',
           Agree(jobs', removal', phase')
    PROVE  Inv'
BY AgreeIs DEF Inv, Consistent

LEMMA FaultBounded ==
    ASSUME TypeOK, Fault \/ UNCHANGED faults
    PROVE  faults' \in 0 .. MaxFaults
BY LimitsAssumption DEF TypeOK, Fault

LEMMA AgreeLater ==
    ASSUME NEW s, NEW asked, NEW p, NEW q, Agree(s, asked, p), q \in Running => p \in Running
    PROVE  Agree(s, asked, q)
BY DEF Agree

\* A step that moves neither the rows, nor the records, nor the deployment.
LEMMA RowsKept ==
    ASSUME Inv, UNCHANGED << row, dns, phase >>
    PROVE  RowsInOrder' /\ RecordsInOrder' /\ TornDown'
BY InvFacts DEF RowsInOrder, RowInOrder, RecordsInOrder, TornDown

\* A step that moves the row of custom domains only.
LEMMA DefaultKeptInOrder ==
    ASSUME Inv, row'[Default] = row[Default], dns' = dns, phase' = phase
    PROVE  RecordsInOrder' /\ TornDown'
BY InvFacts DEF RecordsInOrder, TornDown

\* A pass over the default URL ends: its row has a state, its deployment is
\* there.
LEMMA DefaultHasState ==
    ASSUME Inv, row'[Default] # NoRow, phase \in Running \/ phase = "deleting",
           UNCHANGED phase
    PROVE  RecordsInOrder' /\ TornDown'
BY DEF RecordsInOrder, TornDown, Running

LEMMA PassesKept ==
    ASSUME Inv, UNCHANGED << phase, destroy >>, aws'.alb = aws.alb,
           handler' = handler \/ handler' = None
    PROVE  PassesInOrder'
BY InvFacts DEF PassesInOrder, RowInOrder

LEMMA InitInv == Init => Inv
<1> SUFFICES ASSUME Init PROVE Inv
  OBVIOUS
<1>1. TypeOK
  BY NoRowFields, LimitsAssumption, OwnersFacts
     DEF Init, TypeOK, Phases, Account, Zone, Maybe
<1>2. \A type \in Types, o \in Owners : JobsOf(jobs, type, o) = {}
  BY DEF Init, JobsOf
<1>3. OneConfigureJob /\ RemovalsInOrder
  BY <1>2, AgreeIs DEF Init, Agree, Types
<1>4. RowsInOrder /\ PassesInOrder /\ RecordsInOrder /\ TornDown
  BY OwnersFacts, NoRowFields DEF Init, RowsInOrder, RowInOrder, PassesInOrder, RecordsInOrder, TornDown
<1>5. QED  BY <1>1, <1>3, <1>4 DEF Inv, Consistent

-----------------------------------------------------------------------------
\* One lemma per action.  The vendor's routes.
LEMMA AddDomainInv == ASSUME Inv, AddDomain PROVE Inv'
<1>1. PICK i \in Domains :
          /\ row[i].status = "none"
          /\ row' = [ row EXCEPT ![i] = NewRow ]
          /\ \/ Configure(i, None, FALSE) /\ UNCHANGED faults
             \/ Fault /\ UNCHANGED jobs
  BY DEF AddDomain
<1>2. /\ i \in Owners /\ i # Default /\ Default \in Owners
      /\ None \in Maybe(Owners) /\ FALSE \in BOOLEAN
  BY OwnersFacts DEF Maybe
<1>3. UNCHANGED << phase, removal, aws, dns, result, handler, destroy >>
  BY DEF AddDomain
<1>4. jobs' \in Seq(Job) /\ Agree(jobs', removal', phase')
  BY <1>1, <1>2, <1>3, InvFacts, ConfigureKeeps
<1>5. row' \in [ Owners -> Row ] /\ RowsInOrder' /\ row'[Default] = row[Default]
  BY <1>1, <1>2, InvFacts, NoRowFields DEF RowsInOrder, RowInOrder
<1>6. TypeOK'
  BY <1>1, <1>3, <1>4, <1>5, InvFacts, FaultBounded DEF TypeOK
<1>7. QED
  BY <1>3, <1>4, <1>5, <1>6, DefaultKeptInOrder, PassesKept, InvIs

LEMMA RemoveDomainInv == ASSUME Inv, RemoveDomain PROVE Inv'
<1>1. PICK i \in Current :
          \/ AskRemoval(i, row[i], TRUE) /\ UNCHANGED faults
          \/ /\ Fault /\ row' = Marked(i, "REMOVING")
             /\ removal' = [ removal EXCEPT ![i] = "owed" ] \/ UNCHANGED removal
             /\ UNCHANGED jobs
  BY DEF RemoveDomain
<1>2. i \in Domains /\ i \in Owners /\ i # Default /\ row[i] \in Row /\ Default \in Owners
  BY OwnersFacts, InvFacts DEF Current
<1>3. UNCHANGED << phase, aws, dns, result, handler, destroy >>
  BY DEF RemoveDomain
<1>4. /\ jobs' \in Seq(Job) /\ Agree(jobs', removal', phase')
      /\ removal' \in [ Owners -> { "none", "owed", "open", "done", "failed" } ]
      /\ row' \in [ Owners -> Row ] /\ RowsInOrder' /\ row'[Default] = row[Default]
  <2>1. CASE AskRemoval(i, row[i], TRUE)
    BY <1>2, <1>3, <2>1, InvFacts, AskKeeps
  <2>2. CASE /\ row' = Marked(i, "REMOVING")
             /\ removal' = [ removal EXCEPT ![i] = "owed" ] \/ UNCHANGED removal
             /\ UNCHANGED jobs
    <3>1. row' \in [ Owners -> Row ] /\ RowsInOrder' /\ row'[Default] = row[Default]
      BY <1>2, <2>2, InvFacts DEF Marked, RowsInOrder, RowInOrder, Row
    <3>2. Agree(jobs', removal', phase')
      BY <1>2, <1>3, <2>2, InvFacts DEF Agree
    <3>3. QED  BY <2>2, <3>1, <3>2, InvFacts
  <2>3. QED  BY <1>1, <2>1, <2>2
<1>5. TypeOK'
  BY <1>1, <1>3, <1>4, InvFacts, FaultBounded DEF TypeOK
<1>6. QED
  BY <1>3, <1>4, <1>5, DefaultKeptInOrder, PassesKept, InvIs

\* The checks of custom domains.
LEMMA StartCheckInv == ASSUME Inv, StartCheck PROVE Inv'
<1>1. PICK i \in Current :
          handler' = [ of |-> i, row |-> row[i], phase |-> phase, waited |-> FALSE ]
  BY DEF StartCheck
<1>2. i \in Domains /\ i \in Owners /\ i # Default /\ row[i] \in Row
  BY OwnersFacts, InvFacts DEF Current
<1>3. UNCHANGED << phase, row, jobs, removal, aws, dns, result, destroy, faults >>
  BY DEF StartCheck
<1>4. TypeOK'
  BY <1>1, <1>2, <1>3, InvFacts DEF TypeOK, Pass, Maybe
<1>5. PassesInOrder'
  BY <1>1, <1>2, <1>3, InvFacts DEF PassesInOrder, RowsInOrder, RowInOrder
<1>6. QED  BY <1>3, <1>4, <1>5, InvFacts, RowsKept, InvIs

LEMMA FinishCheckInv == ASSUME Inv, FinishCheck PROVE Inv'
<1> DEFINE i == handler.of
<1>1. /\ handler # None /\ i # Default /\ handler' = None
      /\ UNCHANGED << phase, aws, dns, result, destroy, faults >>
  BY DEF FinishCheck
<1>2. /\ handler \in Pass /\ i \in Owners /\ i \in Domains /\ Default \in Owners
      /\ handler.row \in Row /\ handler.row.cert \in Maybe(Owners) /\ FALSE \in BOOLEAN
  BY <1>1, InvFacts, OwnersFacts DEF TypeOK, Maybe, Pass, Row
<1>3. /\ jobs' \in Seq(Job) /\ Agree(jobs', removal', phase')
      /\ removal' \in [ Owners -> { "none", "owed", "open", "done", "failed" } ]
      /\ row' \in [ Owners -> Row ] /\ RowsInOrder' /\ row'[Default] = row[Default]
  <2>1. CASE Configure(i, handler.row.cert, FALSE) /\ UNCHANGED << row, removal >>
    <3>1. jobs' \in Seq(Job) /\ Agree(jobs', removal, phase)
      BY <1>2, <2>1, InvFacts, ConfigureKeeps
    <3>2. QED  BY <1>1, <2>1, <3>1, InvFacts DEF RowsInOrder, RowInOrder
  <2>2. CASE row' = Marked(i, "ACTIVE") /\ UNCHANGED << jobs, removal >>
    <3>1. row' \in [ Owners -> Row ] /\ RowsInOrder' /\ row'[Default] = row[Default]
      BY <1>1, <1>2, <2>2, InvFacts DEF Marked, RowsInOrder, RowInOrder, Row
    <3>2. QED  BY <1>1, <2>2, <3>1, InvFacts
  <2>3. CASE AskRemoval(i, handler.row, FALSE)
    BY <1>1, <1>2, <2>3, InvFacts, AskKeeps
  <2>4. CASE UNCHANGED << row, jobs, removal >>
    BY <1>1, <2>4, InvFacts DEF RowsInOrder, RowInOrder
  <2>5. QED  BY <2>1, <2>2, <2>3, <2>4 DEF FinishCheck
<1>4. TypeOK'
  BY <1>1, <1>3, InvFacts DEF TypeOK, Maybe
<1>5. QED
  BY <1>1, <1>3, <1>4, DefaultKeptInOrder, PassesKept, InvIs


\* The driver of the default URL.
LEMMA StartDriverInv == ASSUME Inv, StartDriver PROVE Inv'
<1>1. /\ phase \in Running
      /\ handler' = [ of |-> Default, row |-> row[Default], phase |-> phase, waited |-> TRUE ]
      /\ UNCHANGED << phase, row, jobs, removal, aws, dns, result, destroy, faults >>
  BY DEF StartDriver
<1>2. TypeOK'
  BY <1>1, InvFacts, OwnersFacts DEF TypeOK, Pass, Maybe
<1>3. PassesInOrder'
  BY <1>1, InvFacts, OwnersFacts DEF PassesInOrder, RowsInOrder, RowInOrder
<1>4. QED  BY <1>1, <1>2, <1>3, InvFacts, RowsKept, InvIs

\* What a pass over the default URL may still find.
LEMMA DriverFacts ==
    ASSUME Inv, handler # None, handler.of = Default
    PROVE  /\ handler.row \in Row /\ handler.row.cert \in Maybe(Owners)
           /\ Deferred(handler.phase) \in BOOLEAN /\ Default \in Owners
           /\ phase \in Running \/ phase = "deleting"
BY InvFacts, OwnersFacts DEF TypeOK, Maybe, Pass, Row, PassesInOrder, RowInOrder, Deferred

LEMMA FinishDriverInv == ASSUME Inv, FinishDriver PROVE Inv'
<1> DEFINE r == handler.row
<1>1. /\ handler # None /\ handler.of = Default /\ handler' = None
      /\ UNCHANGED << phase, removal, aws, result, destroy >>
  BY DEF FinishDriver
<1>2. /\ r \in Row /\ r.cert \in Maybe(Owners) /\ Deferred(handler.phase) \in BOOLEAN
      /\ Default \in Owners
      /\ phase \in Running \/ phase = "deleting"
  BY <1>1, DriverFacts
<1>3. dns \in Zone /\ row \in [ Owners -> Row ] /\ r.shown \in Maybe(Owners)
  BY <1>2, InvFacts DEF TypeOK, Row
<1>4. /\ row' \in [ Owners -> Row ] /\ RowsInOrder' /\ dns' \in Zone
      /\ jobs' \in Seq(Job) /\ Agree(jobs', removal', phase')
      /\ Fault \/ UNCHANGED faults
      /\ row'[Default] # NoRow \/ (row' = row /\ dns' = dns)
  <2>1. CASE Starts(r) /\ RequestCertificate(r, handler.phase)
    <3> DEFINE started == IF r.status = "none" THEN NewRow ELSE r
    <3>1. /\ started \in Row /\ started.status = "PENDING"
          /\ started.cert \in Maybe(Owners)
      BY <1>2, <2>1, NoRowFields DEF Row, Starts
    <3>2. /\ row' = [ row EXCEPT ![Default] = started ] \/ row' = row
          /\ Configure(Default, started.cert, Deferred(handler.phase))
          /\ UNCHANGED << dns, faults >>
      BY <2>1 DEF RequestCertificate, Overwrite
    <3> HIDE DEF started
    <3>3. jobs' \in Seq(Job) /\ Agree(jobs', removal, phase)
      BY <1>2, <3>1, <3>2, InvFacts, ConfigureKeeps
    <3>4. row' \in [ Owners -> Row ] /\ RowsInOrder'
      BY <1>2, <1>3, <3>1, <3>2, InvFacts DEF RowsInOrder, RowInOrder
    <3>5. row'[Default] # NoRow \/ row' = row
      BY <1>2, <1>3, <3>1, <3>2, NoRowFields
    <3>6. QED  BY <1>1, <1>3, <3>2, <3>3, <3>4, <3>5
  <2>2. CASE Reconciles(r) /\ WriteRecords(r, handler.phase)
    <3>1. row' = [ row EXCEPT ![Default] = r ] /\ r.status = "WAITING_FOR_DNS"
      BY <2>2 DEF Reconciles, WriteRecords, Overwrite
    <3>2. r.shown \in Owners
      BY <1>1, <1>3, <3>1, InvFacts DEF Maybe, PassesInOrder, RowInOrder
    <3>3. row' \in [ Owners -> Row ] /\ RowsInOrder' /\ row'[Default] # NoRow
      BY <1>2, <1>3, <3>1, <3>2, InvFacts, NoRowFields, OwnersFacts DEF RowsInOrder, RowInOrder
    <3>4. CASE /\ dns' = [ dns EXCEPT !.validation = @ \cup { r.shown },
                                      !.routing = IF r.routed THEN @ \cup { Default } ELSE @ ]
               /\ Configure(Default, r.cert, Deferred(handler.phase))
               /\ UNCHANGED faults
      <4>1. jobs' \in Seq(Job) /\ Agree(jobs', removal, phase)
        BY <1>2, <3>4, InvFacts, ConfigureKeeps
      <4>2. dns' \in Zone
        BY <1>2, <1>3, <3>2, <3>4 DEF Zone
      <4>3. QED  BY <1>1, <3>3, <3>4, <4>1, <4>2
    <3>5. CASE /\ Fault /\ UNCHANGED jobs
               /\ dns' \in { dns, [ dns EXCEPT !.validation = @ \cup { r.shown } ] }
      <4>1. dns' \in Zone
        BY <1>3, <3>2, <3>5 DEF Zone
      <4>2. QED  BY <1>1, <3>3, <3>5, <4>1, InvFacts
    <3>6. QED  BY <2>2, <3>4, <3>5 DEF WriteRecords
  <2>3. CASE Probes(r) /\ ProbeDefault(r)
    <3> DEFINE s == IF Probe(Default) THEN [ r EXCEPT !.status = "ACTIVE" ] ELSE r
    <3>1. /\ row' = [ row EXCEPT ![Default] = s ]
          /\ s \in Row /\ s.status \in { "ACTIVE", "CONFIGURING" }
      BY <1>2, <2>3 DEF Probes, ProbeDefault, Overwrite, Row
    <3> HIDE DEF s
    <3>2. row' \in [ Owners -> Row ] /\ RowsInOrder' /\ row'[Default] # NoRow
      BY <1>2, <1>3, <3>1, InvFacts, NoRowFields DEF RowsInOrder, RowInOrder
    <3>3. UNCHANGED << jobs, dns, faults >>
      BY <2>3 DEF ProbeDefault
    <3>4. QED  BY <1>1, <1>3, <3>2, <3>3, InvFacts
  <2>4. CASE UNCHANGED << row, jobs, dns, faults >>
    BY <1>1, <1>3, <2>4, InvFacts DEF RowsInOrder, RowInOrder
  <2>5. QED  BY <2>1, <2>2, <2>3, <2>4 DEF FinishDriver
<1>5. TypeOK'
  BY <1>1, <1>4, InvFacts, FaultBounded DEF TypeOK, Maybe
<1>6. RecordsInOrder' /\ TornDown'
  <2>1. CASE row'[Default] # NoRow
    BY <1>1, <1>2, <2>1, DefaultHasState
  <2>2. CASE row' = row /\ dns' = dns
    BY <1>1, <2>2, RowsKept
  <2>3. QED  BY <1>4, <2>1, <2>2
<1>7. QED  BY <1>1, <1>4, <1>5, <1>6, PassesKept, InvIs

LEMMA TimeOutDriverInv == ASSUME Inv, TimeOutDriver PROVE Inv'
<1> DEFINE r == [ handler.row EXCEPT !.status = "ERROR" ]
<1>1. /\ handler # None /\ handler.of = Default /\ handler' = None
      /\ row' = [ row EXCEPT ![Default] = r ] /\ Fault
      /\ UNCHANGED << phase, jobs, removal, aws, dns, result, destroy >>
  BY DEF TimeOutDriver, Overwrite
<1>2. /\ r \in Row /\ r.status = "ERROR" /\ Default \in Owners
      /\ phase \in Running \/ phase = "deleting"
  BY <1>1, DriverFacts DEF Row
<1>3. row' \in [ Owners -> Row ] /\ RowsInOrder' /\ row'[Default] # NoRow
  BY <1>1, <1>2, InvFacts, NoRowFields DEF RowsInOrder, RowInOrder
<1>4. TypeOK'
  BY <1>1, <1>3, InvFacts, FaultBounded DEF TypeOK, Maybe
<1>5. QED
  BY <1>1, <1>2, <1>3, <1>4, InvFacts, DefaultHasState, PassesKept, InvIs

LEMMA RetryDefaultInv == ASSUME Inv, RetryDefault PROVE Inv'
<1> DEFINE r == [ row[Default] EXCEPT !.status = "PENDING" ]
<1>1. /\ row[Default].status = "ERROR" /\ handler = None
      /\ row' = [ row EXCEPT ![Default] = r ]
      /\ handler' = IF phase \in Running
                    THEN [ of |-> Default, row |-> r, phase |-> phase, waited |-> FALSE ]
                    ELSE None
      /\ UNCHANGED << phase, jobs, removal, aws, dns, result, destroy, faults >>
  BY DEF RetryDefault, Overwrite
<1>2. r \in Row /\ r.status = "PENDING" /\ Default \in Owners
  BY InvFacts, OwnersFacts DEF Row
<1>3. phase \in Running \/ phase = "deleting"
  BY <1>1, InvFacts, NoRowFields DEF TornDown, TypeOK, Phases, Running
<1>4. row' \in [ Owners -> Row ] /\ RowsInOrder' /\ row'[Default] # NoRow
  BY <1>1, <1>2, InvFacts, NoRowFields DEF RowsInOrder, RowInOrder
<1>5. TypeOK'
  BY <1>1, <1>2, <1>4, InvFacts DEF TypeOK, Maybe, Pass
<1>6. PassesInOrder'
  BY <1>1, InvFacts DEF PassesInOrder, RowInOrder
<1>7. QED
  BY <1>1, <1>3, <1>4, <1>5, <1>6, InvFacts, DefaultHasState, InvIs

LEMMA AbandonInv == ASSUME Inv, Abandon PROVE Inv'
<1>1. /\ handler # None /\ Fault /\ handler' = [ handler EXCEPT !.waited = FALSE ]
      /\ UNCHANGED << phase, row, jobs, removal, aws, dns, result, destroy >>
  BY DEF Abandon
<1>2. handler \in Pass
  BY <1>1, InvFacts DEF TypeOK, Maybe
<1>3. TypeOK'
  BY <1>1, <1>2, InvFacts, FaultBounded DEF TypeOK, Maybe, Pass
<1>4. handler'.of = handler.of
  BY <1>1, <1>2 DEF Pass
<1>5. PassesInOrder'
  BY <1>1, <1>4, InvFacts DEF PassesInOrder, RowInOrder
<1>6. QED  BY <1>1, <1>3, <1>5, InvFacts, RowsKept, InvIs

\* The relay.
LEMMA ExecuteFacts ==
    ASSUME Inv, Execute
    PROVE  \E k \in DOMAIN jobs :
              /\ jobs' = [ jobs EXCEPT ![k].state = "RUNNING" ]
              /\ aws' \in { aws } \cup ToSet(Stages(jobs[k])) \cup { Last(Stages(jobs[k])) }
              /\ result' \in Maybe(Result)
              /\ Fault \/ UNCHANGED faults
              /\ UNCHANGED << phase, row, removal, dns, handler, destroy >>
<1>1. PICK k \in DOMAIN jobs :
        LET j == jobs[k] IN
        /\ jobs' = [ jobs EXCEPT ![k].state = "RUNNING" ]
        /\ \/ /\ aws' = Last(Stages(j))
              /\ \E known \in { TRUE, aws' = aws } : result' = Answer(j, TRUE, known)
              /\ UNCHANGED faults
           \/ /\ result' = Answer(j, FALSE, FALSE)
              /\ UNCHANGED << aws, faults >>
           \/ /\ Fault
              /\ aws' \in { aws } \cup ToSet(Stages(j))
              /\ result' \in { None, Answer(j, FALSE, FALSE) }
  BY Zenon DEF Execute
<1> DEFINE j == jobs[k]
<1>2. j \in Job
  BY InvFacts
<1>3. /\ Answer(j, FALSE, FALSE) \in Result
      /\ \A known \in { TRUE, aws' = aws } : Answer(j, TRUE, known) \in Result
  <2>1. \A known \in { TRUE, aws' = aws } : known \in BOOLEAN
    OBVIOUS
  <2>2. QED  BY <1>2, <2>1, InvFacts, AnswerTyped
<1>4. result' \in Maybe(Result)
  BY <1>1, <1>3 DEF Maybe
<1>5. QED
  BY <1>1, <1>4 DEF Execute

LEMMA ExecuteInv == ASSUME Inv, Execute PROVE Inv'
<1>1. PICK k \in DOMAIN jobs :
          /\ jobs' = [ jobs EXCEPT ![k].state = "RUNNING" ]
          /\ aws' \in { aws } \cup ToSet(Stages(jobs[k])) \cup { Last(Stages(jobs[k])) }
          /\ result' \in Maybe(Result)
          /\ Fault \/ UNCHANGED faults
          /\ UNCHANGED << phase, row, removal, dns, handler, destroy >>
  BY ExecuteFacts
<1>2. jobs[k] \in Job
  BY InvFacts
<1>3. aws' \in Account /\ aws'.alb = aws.alb
  BY <1>1, <1>2, InvFacts, StagesKeep DEF TypeOK
<1>4. /\ jobs' \in Seq(Job)
      /\ \A type \in Types, o \in Owners : JobsOf(jobs', type, o) = JobsOf(jobs, type, o)
  <2>1. "RUNNING" \in { "REQUESTED", "RUNNING" } /\ jobs \in Seq(Job)
    BY InvFacts
  <2>2. /\ [ jobs EXCEPT ![k].state = "RUNNING" ] \in Seq(Job)
        /\ \A type \in Types, o \in Owners :
              JobsOf([ jobs EXCEPT ![k].state = "RUNNING" ], type, o) = JobsOf(jobs, type, o)
    BY ONLY <2>1, k \in DOMAIN jobs, JobReplaced
  <2>3. QED  BY ONLY <1>1, <2>2
<1>5. Agree(jobs', removal', phase')
  BY <1>1, <1>4, InvFacts DEF Agree, Types
<1>6. TypeOK'
  BY <1>1, <1>3, <1>4, InvFacts, FaultBounded DEF TypeOK
<1>7. QED
  BY <1>1, <1>3, <1>5, <1>6, RowsKept, PassesKept, InvIs


\* Results and the watchdog.
LEMMA DropRecordsFacts ==
    ASSUME Inv, DropRecords
    PROVE  /\ dns' \in Zone
           /\ Fault \/ UNCHANGED faults
           /\ row[Default] # NoRow => (Default \in dns'.routing => dns'.refused)
           /\ row[Default] = NoRow =>
                 dns'.routing = dns.routing /\ dns'.refused = dns.refused
<1>1. dns \in Zone /\ Default \in Owners
  BY InvFacts, OwnersFacts DEF TypeOK
<1>2. /\ RecordsDropped \in Zone /\ RecordsDropped.refused = dns.refused
      /\ row[Default] # NoRow => Default \notin RecordsDropped.routing
      /\ row[Default] = NoRow => RecordsDropped.routing = dns.routing
  BY <1>1 DEF RecordsDropped, Zone
<1>3. CASE dns' = RecordsDropped /\ UNCHANGED faults
  BY <1>2, <1>3
<1>4. CASE /\ Default \in dns.routing \ RecordsDropped.routing /\ Fault
           /\ dns' = [ RecordsDropped EXCEPT !.routing = dns.routing, !.refused = TRUE ]
  BY <1>1, <1>2, <1>4 DEF Zone
<1>5. QED  BY <1>3, <1>4 DEF DropRecords

\* The row of a result, where it has one.
LEMMA SubjectFacts ==
    ASSUME Inv, NEW j \in Job, Subject(j) # {}, NEW o, o = CHOOSE p \in Subject(j) : TRUE
    PROVE  /\ o \in Owners /\ row[o] # NoRow /\ row[o].status # "none"
           /\ o = Default <=> j.of = Default
           /\ o # Default => o \in Current
<1>1. o \in Subject(j)
  BY Zenon
<1>2. CASE j.of = Default
  BY <1>1, <1>2, InvFacts, OwnersFacts DEF Subject, RowsInOrder, RowInOrder
<1>3. CASE j.of # Default
  BY <1>1, <1>3, OwnersFacts, NoRowFields DEF Subject, Current
<1>4. QED  BY <1>2, <1>3

LEMMA AppliedFacts ==
    ASSUME Inv, NEW o \in Owners, row[o].status # "none", NEW seen \in Result,
           row' = Applied(o, seen)
    PROVE  /\ row' \in [ Owners -> Row ] /\ RowsInOrder'
           /\ \A p \in Owners : row'[p].status = "ACTIVE" => row[p].status = "ACTIVE"
           /\ o # Default => row'[Default] = row[Default]
           /\ row'[o] = NoRow => o = Default /\ seen.job.type # "CONFIGURE_DOMAIN" /\ seen.ok
<1> DEFINE r == IF seen.job.type = "CONFIGURE_DOMAIN" THEN Configured(o, row[o], seen)
                ELSE IF seen.ok THEN Removed(o, row[o]) ELSE row[o]
<1>1. row' = [ row EXCEPT ![o] = r ]
  BY DEF Applied
<1>2. row[o] \in Row /\ RowInOrder(row[o]) /\ row \in [ Owners -> Row ] /\ Default \in Owners
  BY InvFacts, OwnersFacts DEF RowsInOrder
<1>3. /\ Configured(o, row[o], seen) \in Row /\ RowInOrder(Configured(o, row[o], seen))
      /\ Configured(o, row[o], seen).status # "none"
      /\ Configured(o, row[o], seen).status = "ACTIVE" => row[o].status = "ACTIVE"
  BY <1>2, ConfiguredRow
<1>4. /\ Removed(o, row[o]) \in Row /\ RowInOrder(Removed(o, row[o]))
      /\ Removed(o, row[o]).status # "ACTIVE"
      /\ Removed(o, row[o]) = NoRow => o = Default
  BY <1>2, NoRowFields DEF Removed, Row, NoRow, RowInOrder
<1>5. /\ r \in Row /\ RowInOrder(r)
      /\ r.status = "ACTIVE" => row[o].status = "ACTIVE"
      /\ r = NoRow => o = Default /\ seen.job.type # "CONFIGURE_DOMAIN" /\ seen.ok
  BY <1>2, <1>3, <1>4, NoRowFields
<1> HIDE DEF r
<1>6. row' \in [ Owners -> Row ] /\ RowsInOrder'
  BY <1>1, <1>2, <1>5, InvFacts DEF RowsInOrder, RowInOrder
<1>7. QED  BY <1>1, <1>2, <1>5, <1>6

LEMMA ReportFacts ==
    ASSUME Inv, Report
    PROVE  /\ result # None /\ result' = None /\ UNCHANGED << phase, aws, handler, destroy >>
           /\ \/ UNCHANGED << row, jobs, removal, dns, faults >>
              \/ \E k \in DOMAIN jobs, to \in { "done", "failed" } :
                    /\ jobs' = RemoveAt(jobs, k)
                    /\ removal' = SettledRemoval(jobs[k], k, to)
                    /\ row' = IF Subject(jobs[k]) = {} THEN row
                              ELSE Applied(CHOOSE o \in Subject(jobs[k]) : TRUE, result)
                    /\ result.job = jobs[k]
                    /\ IF jobs[k].type = "REMOVE_DOMAIN" /\ jobs[k].of = Default /\ result.ok
                       THEN DropRecords ELSE UNCHANGED << dns, faults >>
<1>1. CASE Holding(result.job) = {}
  BY <1>1 DEF Report
<1>2. CASE Holding(result.job) # {}
  <2>1. PICK k \in DOMAIN jobs :
            /\ Oldest(k, Holding(result.job))
            /\ jobs' = RemoveAt(jobs, k)
            /\ removal' = SettledRemoval(result.job, k, IF result.ok THEN "done" ELSE "failed")
            /\ row' = IF Subject(result.job) = {} THEN row
                      ELSE Applied(CHOOSE o \in Subject(result.job) : TRUE, result)
            /\ IF result.job.type = "REMOVE_DOMAIN" /\ result.job.of = Default /\ result.ok
               THEN DropRecords ELSE UNCHANGED << dns, faults >>
    BY <1>2, Zenon DEF Report
  <2>2. jobs[k] = result.job
    BY <2>1 DEF Oldest, Holding
  <2>3. (IF result.ok THEN "done" ELSE "failed") \in { "done", "failed" }
    OBVIOUS
  <2>4. QED  BY <2>1, <2>2, <2>3 DEF Report
<1>3. QED  BY <1>1, <1>2

LEMMA ReportInv == ASSUME Inv, Report PROVE Inv'
<1>1. /\ result # None /\ result' = None
      /\ UNCHANGED << phase, aws, handler, destroy >>
  BY ReportFacts
<1>2. PassesInOrder'
  BY <1>1, PassesKept
<1>3. CASE UNCHANGED << row, jobs, removal, dns, faults >>
  <2>1. TypeOK' /\ Agree(jobs', removal', phase')
    BY <1>1, <1>3, InvFacts DEF TypeOK, Maybe
  <2>2. QED  BY <1>1, <1>2, <1>3, <2>1, RowsKept, InvIs
<1>4. CASE \E k \in DOMAIN jobs, to \in { "done", "failed" } :
              /\ jobs' = RemoveAt(jobs, k)
              /\ removal' = SettledRemoval(jobs[k], k, to)
              /\ row' = IF Subject(jobs[k]) = {} THEN row
                        ELSE Applied(CHOOSE o \in Subject(jobs[k]) : TRUE, result)
              /\ result.job = jobs[k]
              /\ IF jobs[k].type = "REMOVE_DOMAIN" /\ jobs[k].of = Default /\ result.ok
                 THEN DropRecords ELSE UNCHANGED << dns, faults >>
  <2>1. PICK k \in DOMAIN jobs, to \in { "done", "failed" } :
              /\ jobs' = RemoveAt(jobs, k)
              /\ removal' = SettledRemoval(jobs[k], k, to)
              /\ row' = IF Subject(jobs[k]) = {} THEN row
                        ELSE Applied(CHOOSE o \in Subject(jobs[k]) : TRUE, result)
              /\ result.job = jobs[k]
              /\ IF jobs[k].type = "REMOVE_DOMAIN" /\ jobs[k].of = Default /\ result.ok
                 THEN DropRecords ELSE UNCHANGED << dns, faults >>
    BY <1>4
  <2> DEFINE j == jobs[k]
  <2>2. /\ jobs' \in Seq(Job) /\ Agree(jobs', removal', phase)
        /\ removal' \in [ Owners -> { "none", "owed", "open", "done", "failed" } ]
    BY <2>1, InvFacts, TakenKeeps
  <2>3. j \in Job /\ result \in Result
    BY <1>1, InvFacts DEF TypeOK, Maybe
  <2>4. dns' \in Zone
    <3>1. CASE DropRecords
      BY <3>1, DropRecordsFacts
    <3>2. CASE dns' = dns
      BY <3>2, InvFacts DEF TypeOK
    <3>3. QED  BY <2>1, <3>1, <3>2
  <2>5. Fault \/ UNCHANGED faults
    BY <2>1, DropRecordsFacts
  <2>6. /\ row' \in [ Owners -> Row ] /\ RowsInOrder'
        /\ RecordsInOrder' /\ TornDown'
    <3>1. CASE Subject(j) = {}
      <4>1. row' = row
        BY <2>1, <3>1
      <4>2. j.of = Default => row[Default] = NoRow
        BY <3>1, OwnersFacts DEF Subject
      <4>3. CASE dns' = dns
        BY <1>1, <4>1, <4>3, InvFacts, RowsKept
      <4>4. CASE j.of = Default /\ DropRecords
        BY <1>1, <4>1, <4>2, <4>4, InvFacts, DropRecordsFacts
           DEF RecordsInOrder, TornDown, RowsInOrder, RowInOrder
      <4>5. QED  BY <2>1, <4>3, <4>4
    <3>2. CASE Subject(j) # {}
      <4>1. PICK o : o = CHOOSE p \in Subject(j) : TRUE
        OBVIOUS
      <4>2. /\ o \in Owners /\ row[o] # NoRow /\ row[o].status # "none"
            /\ o = Default <=> j.of = Default
        BY <2>3, <3>2, <4>1, SubjectFacts
      <4>3. row' = Applied(o, result)
        BY <2>1, <3>2, <4>1
      <4>4. /\ row' \in [ Owners -> Row ] /\ RowsInOrder'
            /\ o # Default => row'[Default] = row[Default]
            /\ row'[o] = NoRow =>
                  o = Default /\ result.job.type # "CONFIGURE_DOMAIN" /\ result.ok
        BY <2>3, <4>2, <4>3, AppliedFacts
      <4>5. CASE o # Default
        <5>1. dns' = dns
          BY <2>1, <4>2, <4>5
        <5>2. QED  BY <1>1, <4>4, <4>5, <5>1, DefaultKeptInOrder
      <4>6. CASE o = Default
        <5>1. phase # "deleted"
          BY <4>2, <4>6, InvFacts DEF TornDown
        <5>2. CASE row'[Default] = NoRow
          <6>1. j.type = "REMOVE_DOMAIN" /\ j.of = Default /\ result.ok
            BY <2>1, <2>3, <4>2, <4>4, <4>6, <5>2 DEF Job
          <6>2. DropRecords
            BY <2>1, <6>1
          <6>3. QED
            BY <1>1, <4>2, <4>4, <4>6, <5>1, <6>2, DropRecordsFacts DEF RecordsInOrder, TornDown
        <5>3. CASE row'[Default] # NoRow
          BY <1>1, <4>4, <5>1, <5>3 DEF RecordsInOrder, TornDown
        <5>4. QED  BY <5>2, <5>3
      <4>7. QED  BY <4>5, <4>6
    <3>3. QED  BY <3>1, <3>2
  <2>7. TypeOK'
    BY <1>1, <2>2, <2>4, <2>5, <2>6, InvFacts, FaultBounded DEF TypeOK, Maybe
  <2>8. Agree(jobs', removal', phase')
    BY <1>1, <2>2
  <2>9. QED  BY <1>2, <2>6, <2>7, <2>8, InvIs
<1>5. QED  BY <1>3, <1>4, ReportFacts

LEMMA RequeueInv == ASSUME Inv, Requeue PROVE Inv'
<1>1. PICK k \in DOMAIN jobs : jobs' = [ jobs EXCEPT ![k].state = "REQUESTED" ]
  BY DEF Requeue
<1>2. UNCHANGED << phase, row, removal, aws, dns, result, handler, destroy, faults >>
  BY DEF Requeue
<1>3. /\ jobs' \in Seq(Job)
      /\ \A type \in Types, o \in Owners : JobsOf(jobs', type, o) = JobsOf(jobs, type, o)
  <2>1. "REQUESTED" \in { "REQUESTED", "RUNNING" } /\ jobs \in Seq(Job)
    BY InvFacts
  <2>2. /\ [ jobs EXCEPT ![k].state = "REQUESTED" ] \in Seq(Job)
        /\ \A type \in Types, o \in Owners :
              JobsOf([ jobs EXCEPT ![k].state = "REQUESTED" ], type, o) = JobsOf(jobs, type, o)
    BY ONLY <2>1, k \in DOMAIN jobs, JobReplaced
  <2>3. QED  BY ONLY <1>1, <2>2
<1>4. Agree(jobs', removal', phase')
  BY <1>2, <1>3, InvFacts DEF Agree, Types
<1>5. TypeOK'
  BY <1>2, <1>3, InvFacts DEF TypeOK
<1>6. QED  BY <1>2, <1>4, <1>5, RowsKept, PassesKept, InvIs

LEMMA GiveUpInv == ASSUME Inv, GiveUp PROVE Inv'
<1>1. PICK k \in DOMAIN jobs :
          jobs' = RemoveAt(jobs, k) /\ removal' = SettledRemoval(jobs[k], k, "failed")
  BY DEF GiveUp
<1>2. Fault /\ UNCHANGED << phase, row, aws, dns, result, handler, destroy >>
  BY DEF GiveUp
<1>3. /\ jobs' \in Seq(Job) /\ Agree(jobs', removal', phase)
      /\ removal' \in [ Owners -> { "none", "owed", "open", "done", "failed" } ]
  BY <1>1, InvFacts, TakenKeeps
<1>4. TypeOK'
  BY <1>2, <1>3, InvFacts, FaultBounded DEF TypeOK
<1>5. QED  BY <1>2, <1>3, <1>4, RowsKept, PassesKept, InvIs


\* The deployment.
LEMMA CreateLoadBalancerInv == ASSUME Inv, CreateLoadBalancer PROVE Inv'
<1>1. /\ phase = "installing" /\ aws' = [ aws EXCEPT !.alb = TRUE ]
      /\ UNCHANGED << phase, row, jobs, removal, dns, result, handler, destroy, faults >>
  BY DEF CreateLoadBalancer
<1>2. aws' \in Account /\ aws'.alb
  BY <1>1, InvFacts DEF TypeOK, Account
<1>3. TypeOK' /\ Agree(jobs', removal', phase')
  BY <1>1, <1>2, InvFacts DEF TypeOK
<1>4. PassesInOrder'
  BY <1>1, <1>2, InvFacts DEF PassesInOrder, RowInOrder, Running
<1>5. QED  BY <1>1, <1>3, <1>4, RowsKept, InvIs

LEMMA InstallSucceedsInv == ASSUME Inv, InstallSucceeds PROVE Inv'
<1>1. /\ phase = "installing" /\ aws.alb /\ phase' = "serving"
      /\ UNCHANGED << row, jobs, removal, aws, dns, result, handler, destroy, faults >>
  BY DEF InstallSucceeds
<1>2. TypeOK'
  BY <1>1, InvFacts DEF TypeOK, Phases
<1>3. Agree(jobs', removal', phase')
  BY <1>1, InvFacts DEF Agree, Running
<1>4. PassesInOrder'
  BY <1>1, InvFacts DEF PassesInOrder, RowInOrder, Running
<1>5. RowsInOrder' /\ RecordsInOrder' /\ TornDown'
  BY <1>1, InvFacts DEF RowsInOrder, RowInOrder, RecordsInOrder, TornDown
<1>6. QED  BY <1>2, <1>3, <1>4, <1>5, InvIs

LEMMA RequestDestroyInv == ASSUME Inv, RequestDestroy PROVE Inv'
<1>1. /\ phase = "serving" /\ phase' = "deleting"
      /\ destroy' = [ row |-> row[Default], next |-> "domain" ]
      /\ UNCHANGED << row, jobs, removal, aws, dns, result, handler, faults >>
  BY DEF RequestDestroy
<1>2. TypeOK'
  BY <1>1, InvFacts, OwnersFacts DEF TypeOK, Phases, Maybe
<1>3. Agree(jobs', removal', phase')
  BY <1>1, InvFacts DEF Agree, Running
<1>4. PassesInOrder'
  BY <1>1, InvFacts DEF PassesInOrder, RowInOrder, Running
<1>5. RowsInOrder' /\ RecordsInOrder' /\ TornDown'
  BY <1>1, InvFacts DEF RowsInOrder, RowInOrder, RecordsInOrder, TornDown
<1>6. QED  BY <1>2, <1>3, <1>4, <1>5, InvIs

LEMMA TearDownDomainInv == ASSUME Inv, TearDownDomain PROVE Inv'
<1>1. /\ destroy # None /\ destroy' = [ destroy EXCEPT !.next = "default" ]
      /\ \/ \E i \in Current : AskRemoval(i, row[i], TRUE)
         \/ UNCHANGED << row, jobs, removal >>
      /\ UNCHANGED << phase, aws, dns, result, handler, faults >>
  BY DEF TearDownDomain
<1>2. /\ jobs' \in Seq(Job) /\ Agree(jobs', removal', phase)
      /\ removal' \in [ Owners -> { "none", "owed", "open", "done", "failed" } ]
      /\ row' \in [ Owners -> Row ] /\ RowsInOrder' /\ row'[Default] = row[Default]
  <2>1. ASSUME NEW i \in Current, AskRemoval(i, row[i], TRUE)
        PROVE  <1>2!:
    <3>1. i \in Domains /\ row[i] \in Row
      BY InvFacts, OwnersFacts DEF Current
    <3>2. QED  BY <2>1, <3>1, InvFacts, AskKeeps
  <2>2. ASSUME UNCHANGED << row, jobs, removal >>
        PROVE  <1>2!:
    BY <2>2, InvFacts DEF RowsInOrder, RowInOrder
  <2>3. QED  BY <1>1, <2>1, <2>2
<1>3. TypeOK'
  BY <1>1, <1>2, InvFacts DEF TypeOK, Maybe
<1>4. PassesInOrder'
  BY <1>1, InvFacts DEF PassesInOrder, RowInOrder
<1>5. QED  BY <1>1, <1>2, <1>3, <1>4, DefaultKeptInOrder, InvIs

LEMMA TearDownDefaultInv == ASSUME Inv, TearDownDefault PROVE Inv'
<1>1. /\ destroy # None /\ destroy' = None
      /\ UNCHANGED << phase, aws, dns, result, handler, faults >>
  BY DEF TearDownDefault
<1>2. phase = "deleting" /\ Default \in Owners
  BY <1>1, InvFacts, OwnersFacts DEF PassesInOrder
<1>3. PassesInOrder'
  BY <1>1, InvFacts DEF PassesInOrder, RowInOrder
<1>4. CASE destroy.row = NoRow
  <2>1. UNCHANGED << row, jobs, removal >>
    BY <1>4 DEF TearDownDefault
  <2>2. TypeOK' /\ Agree(jobs', removal', phase')
    BY <1>1, <2>1, InvFacts DEF TypeOK, Maybe
  <2>3. QED  BY <1>1, <1>3, <2>1, <2>2, RowsKept, InvIs
<1>5. CASE destroy.row # NoRow
  <2> DEFINE r == [ destroy.row EXCEPT !.status = "REMOVING" ]
  <2>1. /\ row' = [ row EXCEPT ![Default] = r ]
        /\ jobs' = Append(jobs, [ type |-> "REMOVE_DOMAIN", of |-> Default,
                                  cert |-> destroy.row.cert, defer |-> FALSE,
                                  state |-> "REQUESTED" ])
        /\ removal' = [ removal EXCEPT ![Default] = "open" ]
    BY <1>5 DEF TearDownDefault, Overwrite, Queued
  <2>2. destroy.row \in Row /\ destroy.row.cert \in Maybe(Owners)
    BY <1>1, InvFacts DEF TypeOK, Maybe, Row
  <2>3. r \in Row /\ r.status = "REMOVING"
    BY <2>2 DEF Row
  <2> HIDE DEF r
  <2>4. row' \in [ Owners -> Row ] /\ RowsInOrder' /\ row'[Default] # NoRow
    BY <1>2, <2>1, <2>3, InvFacts, NoRowFields DEF RowsInOrder, RowInOrder
  <2>5. jobs' \in Seq(Job) /\ Agree(jobs', removal', phase)
    <3>1. phase \notin Running
      BY <1>2 DEF Running
    <3>2. QED  BY <1>2, <2>1, <2>2, <3>1, InvFacts, RemovalQueued
  <2>6. TypeOK'
    BY <1>1, <1>2, <2>1, <2>4, <2>5, InvFacts DEF TypeOK, Maybe
  <2>7. RecordsInOrder' /\ TornDown'
    BY <1>1, <1>2, <2>4 DEF RecordsInOrder, TornDown
  <2>8. QED  BY <1>1, <1>3, <2>4, <2>5, <2>6, <2>7, InvIs
<1>6. QED  BY <1>4, <1>5

LEMMA CutOffDestroyInv == ASSUME Inv, CutOffDestroy PROVE Inv'
<1>1. /\ Fault /\ destroy' = None
      /\ UNCHANGED << phase, row, jobs, removal, aws, dns, result, handler >>
  BY DEF CutOffDestroy
<1>2. TypeOK' /\ Agree(jobs', removal', phase')
  BY <1>1, InvFacts, FaultBounded DEF TypeOK, Maybe
<1>3. PassesInOrder'
  BY <1>1, InvFacts DEF PassesInOrder, RowInOrder
<1>4. QED  BY <1>1, <1>2, <1>3, RowsKept, InvIs

LEMMA DeleteStackInv == ASSUME Inv, DeleteStack PROVE Inv'
<1>1. /\ phase = "deleting" /\ handler = None /\ destroy = None
      /\ aws' = [ aws EXCEPT !.alb = FALSE, !.redirect = FALSE, !.default = None,
                             !.extra = {} ]
      /\ UNCHANGED << phase, row, jobs, removal, dns, result, handler, destroy, faults >>
  BY DEF DeleteStack
<1>2. TypeOK' /\ Agree(jobs', removal', phase')
  BY <1>1, InvFacts DEF TypeOK, Account, Maybe
<1>3. PassesInOrder'
  BY <1>1 DEF PassesInOrder
<1>4. QED  BY <1>1, <1>2, <1>3, RowsKept, InvIs

LEMMA DestroySucceedsInv == ASSUME Inv, DestroySucceeds PROVE Inv'
<1>1. /\ phase = "deleting" /\ ~ aws.alb /\ phase' = "deleted" /\ DropRecords
      /\ row' = [ o \in Owners |-> IF o = Default THEN NoRow
                                   ELSE IF o \in Current THEN Removed(o, row[o])
                                   ELSE row[o] ]
      /\ UNCHANGED << jobs, removal, aws, result, handler, destroy >>
  BY DEF DestroySucceeds, DefaultAfterDestroy
<1>2. /\ row' \in [ Owners -> Row ] /\ RowsInOrder' /\ row'[Default] = NoRow
  BY <1>1, InvFacts, OwnersFacts, NoRowFields
     DEF Removed, Row, NoRow, RowsInOrder, RowInOrder
<1>3. dns' \in Zone /\ (Default \in dns'.routing => dns'.refused)
  BY <1>1, InvFacts, DropRecordsFacts DEF RecordsInOrder
<1>4. TypeOK'
  BY <1>1, <1>2, <1>3, InvFacts, DropRecordsFacts, FaultBounded DEF TypeOK, Phases
<1>5. Agree(jobs', removal', phase')
  BY <1>1, InvFacts DEF Agree, Running
<1>6. PassesInOrder'
  BY <1>1, InvFacts DEF PassesInOrder, RowInOrder, Running
<1>7. RecordsInOrder' /\ TornDown'
  BY <1>2, <1>3 DEF RecordsInOrder, TornDown
<1>8. QED  BY <1>2, <1>4, <1>5, <1>6, <1>7, InvIs

LEMMA SweepRecordsInv == ASSUME Inv, SweepRecords PROVE Inv'
<1>1. /\ dns' = [ dns EXCEPT !.routing = @ \ { Default }, !.refused = FALSE ]
      /\ UNCHANGED << phase, row, jobs, removal, aws, result, handler, destroy, faults >>
  BY DEF SweepRecords
<1>2. dns' \in Zone /\ Default \notin dns'.routing
  BY <1>1, InvFacts DEF TypeOK, Zone
<1>3. TypeOK' /\ Agree(jobs', removal', phase')
  BY <1>1, <1>2, InvFacts DEF TypeOK
<1>4. RowsInOrder' /\ RecordsInOrder' /\ TornDown'
  BY <1>1, <1>2, InvFacts DEF RowsInOrder, RowInOrder, RecordsInOrder, TornDown
<1>5. QED  BY <1>1, <1>3, <1>4, PassesKept, InvIs

\* The world around it.
LEMMA CertificatesInv == ASSUME Inv, Issue \/ Refuse PROVE Inv'
<1>1. PICK o \in Owners, to \in { "issued", "refused" } :
          aws' = [ aws EXCEPT !.cert[o] = to ]
  <2>1. dns.validation \subseteq Owners
    BY InvFacts DEF TypeOK, Zone
  <2>2. QED  BY <2>1 DEF Issue, Refuse
<1>2. /\ UNCHANGED << phase, row, jobs, removal, dns, result, handler, destroy >>
      /\ Fault \/ UNCHANGED faults
  BY DEF Issue, Refuse
<1>3. aws' \in Account /\ aws'.alb = aws.alb
  BY <1>1, InvFacts DEF TypeOK, Account
<1>4. TypeOK' /\ Agree(jobs', removal', phase')
  BY <1>2, <1>3, InvFacts, FaultBounded DEF TypeOK
<1>5. QED  BY <1>2, <1>3, <1>4, RowsKept, PassesKept, InvIs

LEMMA PublishInv == ASSUME Inv, Publish PROVE Inv'
<1>1. PICK i \in Current :
          dns' = [ dns EXCEPT !.validation = @ \cup ({ row[i].shown } \ { None }),
                              !.routing = IF row[i].routed THEN @ \cup { i } ELSE @ ]
  BY DEF Publish
<1>2. UNCHANGED << phase, row, jobs, removal, aws, result, handler, destroy, faults >>
  BY DEF Publish
<1>3. i \in Domains /\ i \in Owners /\ i # Default /\ row[i].shown \in Maybe(Owners)
  BY InvFacts, OwnersFacts DEF Current, Row
<1>4. /\ dns' \in Zone /\ dns'.refused = dns.refused
      /\ Default \in dns'.routing => Default \in dns.routing
  BY <1>1, <1>3, InvFacts DEF TypeOK, Zone, Maybe
<1>5. TypeOK' /\ Agree(jobs', removal', phase')
  BY <1>2, <1>4, InvFacts DEF TypeOK
<1>6. RowsInOrder' /\ RecordsInOrder' /\ TornDown'
  BY <1>2, <1>4, InvFacts DEF RowsInOrder, RowInOrder, RecordsInOrder, TornDown
<1>7. QED  BY <1>2, <1>5, <1>6, PassesKept, InvIs

LEMMA StutterInv == ASSUME Inv, UNCHANGED vars PROVE Inv'
<1>1. UNCHANGED << phase, row, jobs, removal, aws, dns, result, handler, destroy, faults >>
  BY DEF vars
<1>2. TypeOK' /\ Agree(jobs', removal', phase')
  BY <1>1, InvFacts DEF TypeOK
<1>3. QED  BY <1>1, <1>2, RowsKept, PassesKept, InvIs

LEMMA StepInv == ASSUME Inv, [Next]_vars PROVE Inv'
BY AddDomainInv, RemoveDomainInv, StartCheckInv, FinishCheckInv, StartDriverInv,
   FinishDriverInv, TimeOutDriverInv, RetryDefaultInv, AbandonInv, ExecuteInv, ReportInv,
   RequeueInv, GiveUpInv, CreateLoadBalancerInv, InstallSucceedsInv, RequestDestroyInv,
   TearDownDomainInv, TearDownDefaultInv, CutOffDestroyInv, DeleteStackInv,
   DestroySucceedsInv, SweepRecordsInv, CertificatesInv, PublishInv, StutterInv
   DEF Next

LEMMA Invariance == Spec => []Inv
<1>1. Init => Inv  BY InitInv
<1>2. Inv /\ [Next]_vars => Inv'  BY StepInv
<1>3. QED  BY <1>1, <1>2, PTL DEF Spec

\* The rows, the jobs and the account agree: an address has one configure job at a
\* time, a removal that was asked for has its job (domains.ts, default-https.ts).
THEOREM Consistency == Spec => []Consistent
<1>1. Inv => Consistent  BY DEF Inv
<1>2. QED  BY <1>1, Invariance, PTL

\* Nothing of the default URL outlives its deployment, whatever passes, results
\* and destroy requests overwrite each other (destroy of server.ts, the zone sweep
\* of default-https.ts).
THEOREM TornDownHolds == Spec => []TornDown
<1>1. Inv => TornDown  BY DEF Inv
<1>2. QED  BY <1>1, Invariance, PTL

-----------------------------------------------------------------------------
\* Whom the listener serves.
LEMMA ServedIs == Served = ServedBy(aws) /\ Served' = ServedBy(aws')
BY DEF Served, ServedBy


\* A step that activates nothing, asks for every removal it was asked for, and
\* takes nothing off the listener.
LEMMA ServedKept ==
    ASSUME ActiveDomainIsServed,
           \A i \in Domains : row'[i].status = "ACTIVE" => row[i].status = "ACTIVE",
           \A i \in Domains : removal'[i] = "none" => removal[i] = "none",
           phase' \in Running => phase \in Running,
           ServedBy(aws) \subseteq ServedBy(aws')
    PROVE  ActiveDomainIsServed'
BY ServedIs DEF ActiveDomainIsServed

LEMMA RoutesServe ==
    ASSUME Inv, ActiveDomainIsServed, AddDomain \/ RemoveDomain \/ TearDownDomain
    PROVE  ActiveDomainIsServed'
<1>1. UNCHANGED << phase, aws >>
  BY DEF AddDomain, RemoveDomain, TearDownDomain
<1>2. /\ \A o \in Owners : row'[o].status = "ACTIVE" => row[o].status = "ACTIVE"
      /\ \A o \in Owners : removal'[o] = "none" => removal[o] = "none"
  <2>1. CASE AddDomain
    BY <2>1, InvFacts, NoRowFields, OwnersFacts DEF AddDomain
  <2>2. ASSUME NEW i \in Current, NEW retry \in BOOLEAN, AskRemoval(i, row[i], retry)
        PROVE  <1>2!:
    <3>1. i \in Domains /\ row[i] \in Row
      BY InvFacts, OwnersFacts DEF Current
    <3>2. QED  BY <2>2, <3>1, InvFacts, AskKeeps
  <2>3. ASSUME NEW i \in Current, row' = Marked(i, "REMOVING"),
               removal' = [ removal EXCEPT ![i] = "owed" ] \/ UNCHANGED removal
        PROVE  <1>2!:
    <3>1. i \in Owners
      BY OwnersFacts DEF Current
    <3>2. QED  BY <2>3, <3>1, InvFacts DEF Marked, Row
  <2>4. ASSUME UNCHANGED << row, removal >>
        PROVE  <1>2!:
    BY <2>4
  <2>5. CASE RemoveDomain
    BY <2>5, <2>2, <2>3 DEF RemoveDomain
  <2>6. CASE TearDownDomain
    BY <2>6, <2>2, <2>4 DEF TearDownDomain
  <2>7. QED  BY <2>1, <2>5, <2>6
<1>3. QED  BY <1>1, <1>2, OwnersFacts, ServedKept

\* A domain becomes ACTIVE when the probe reaches it.
LEMMA FinishCheckServes ==
    ASSUME Inv, ActiveDomainIsServed, FinishCheck
    PROVE  ActiveDomainIsServed'
<1> DEFINE i == handler.of
<1>1. handler # None /\ i # Default /\ UNCHANGED << phase, aws >>
  BY DEF FinishCheck
<1>2. i \in Domains /\ i \in Owners /\ handler.row \in Row /\ FALSE \in BOOLEAN
  BY <1>1, InvFacts, OwnersFacts DEF TypeOK, Maybe, Pass
<1>3. CASE UNCHANGED << row, removal >>
  BY <1>1, <1>3, ServedKept
<1>4. CASE AskRemoval(i, handler.row, FALSE)
  <2>1. /\ \A o \in Owners : row'[o].status = "ACTIVE" => row[o].status = "ACTIVE"
        /\ \A o \in Owners : removal'[o] = "none" => removal[o] = "none"
    BY <1>2, <1>4, InvFacts, AskKeeps
  <2>2. QED  BY <1>1, <2>1, OwnersFacts, ServedKept
<1>5. CASE Activates(handler) /\ row' = Marked(i, "ACTIVE") /\ UNCHANGED removal
  <2>1. i \in Served
    BY <1>1, <1>5 DEF Activates, Probe
  <2>2. \A p \in Domains : p # i => row'[p] = row[p]
    BY <1>2, <1>5, InvFacts DEF Marked
  <2>3. ASSUME NEW p \in Domains, row'[p].status = "ACTIVE", removal'[p] = "none",
               phase' \in Running
        PROVE  p \in Served'
    BY <1>1, <1>5, <2>1, <2>2, <2>3, ServedIs DEF ActiveDomainIsServed
  <2>4. QED  BY <2>3 DEF ActiveDomainIsServed
<1>6. QED  BY <1>3, <1>4, <1>5 DEF FinishCheck

\* The passes over the default URL, and the teardown of its state.
LEMMA DefaultServes ==
    ASSUME Inv, ActiveDomainIsServed,
           FinishDriver \/ TimeOutDriver \/ RetryDefault \/ TearDownDefault
    PROVE  ActiveDomainIsServed'
<1>1. UNCHANGED << phase, aws >>
  BY DEF FinishDriver, TimeOutDriver, RetryDefault, TearDownDefault
<1>2. \A i \in Domains : row'[i] = row[i] /\ removal'[i] = removal[i]
  <2>1. CASE row' = row \/ (\E r : row' = [ row EXCEPT ![Default] = r ])
    <3>1. \A i \in Domains : row'[i] = row[i]
      BY <2>1, InvFacts, OwnersFacts
    <3>2. \A i \in Domains : removal'[i] = removal[i]
      BY InvFacts, OwnersFacts
         DEF FinishDriver, TimeOutDriver, RetryDefault, TearDownDefault
    <3>3. QED  BY <3>1, <3>2
  <2>2. row' = row \/ (\E r : row' = [ row EXCEPT ![Default] = r ])
    BY DEF FinishDriver, TimeOutDriver, RetryDefault, TearDownDefault, RequestCertificate,
           WriteRecords, ProbeDefault, Overwrite
  <2>3. QED  BY <2>1, <2>2
<1>3. QED  BY <1>1, <1>2, ServedKept

\* The only domain a removal may take off the listener is the one it is for.
LEMMA ExecuteServes ==
    ASSUME Inv, ActiveDomainIsServed, MaxDomains = 1, Execute
    PROVE  ActiveDomainIsServed'
<1>1. PICK k \in DOMAIN jobs :
          /\ aws' \in { aws } \cup ToSet(Stages(jobs[k])) \cup { Last(Stages(jobs[k])) }
          /\ UNCHANGED << phase, row, removal >>
  BY ExecuteFacts
<1>2. jobs[k] \in Job
  BY InvFacts
<1>3. CASE jobs[k].type = "CONFIGURE_DOMAIN"
  <2>1. ServedBy(aws) \subseteq ServedBy(aws')
    BY <1>1, <1>2, <1>3, InvFacts, StagesKeep
  <2>2. QED  BY <1>1, <2>1, ServedKept
<1>4. CASE jobs[k].type = "REMOVE_DOMAIN"
  <2>1. k \in JobsOf(jobs, "REMOVE_DOMAIN", jobs[k].of) /\ jobs[k].of \in Owners
    BY <1>2, <1>4 DEF JobsOf, Job
  <2>2. removal[jobs[k].of] # "none"
    BY <2>1, InvFacts DEF Agree
  <2>3. jobs[k].of = Default => phase \notin Running
    BY <2>1, <2>2, InvFacts DEF Agree
  <2>4. \A i \in Domains : jobs[k].of # Default => i = jobs[k].of
    BY <2>1, OwnersFacts DEF Domains
  <2>5. QED  BY <1>1, <2>2, <2>3, <2>4 DEF ActiveDomainIsServed
<1>5. QED  BY <1>2, <1>3, <1>4 DEF Job

LEMMA ResultsServe ==
    ASSUME Inv, ActiveDomainIsServed, Report \/ GiveUp
    PROVE  ActiveDomainIsServed'
<1>1. UNCHANGED << phase, aws >>
  BY ReportFacts DEF GiveUp
<1>2. \A o \in Owners : removal'[o] = "none" => removal[o] = "none"
  <2>1. ASSUME NEW k \in DOMAIN jobs, NEW to \in { "done", "failed" },
               jobs' = RemoveAt(jobs, k), removal' = SettledRemoval(jobs[k], k, to)
        PROVE  <1>2
    BY <2>1, InvFacts, TakenKeeps
  <2>2. CASE Report
    BY <2>1, <2>2, ReportFacts
  <2>3. CASE GiveUp
    BY <2>1, <2>3 DEF GiveUp
  <2>4. QED  BY <2>2, <2>3
<1>3. \A o \in Owners : row'[o].status = "ACTIVE" => row[o].status = "ACTIVE"
  <2>1. CASE row' = row
    BY <2>1
  <2>2. ASSUME NEW j \in Job, Subject(j) # {}, result \in Result,
               row' = Applied(CHOOSE o \in Subject(j) : TRUE, result)
        PROVE  <1>3
    <3>1. PICK p : p = CHOOSE o \in Subject(j) : TRUE
      OBVIOUS
    <3>2. p \in Owners /\ row[p].status # "none"
      BY <2>2, <3>1, SubjectFacts
    <3>3. QED  BY <2>2, <3>1, <3>2, AppliedFacts
  <2>3. CASE Report
    <3>1. result \in Result
      BY <2>3, ReportFacts, InvFacts DEF TypeOK, Maybe
    <3>2. row' = row \/ \E k \in DOMAIN jobs :
              /\ Subject(jobs[k]) # {}
              /\ row' = Applied(CHOOSE o \in Subject(jobs[k]) : TRUE, result)
      BY <2>3, ReportFacts
    <3>3. \A k \in DOMAIN jobs : jobs[k] \in Job
      BY InvFacts
    <3>4. QED  BY <2>1, <2>2, <3>1, <3>2, <3>3
  <2>4. QED  BY <2>1, <2>3 DEF GiveUp
<1>4. QED  BY <1>1, <1>2, <1>3, OwnersFacts, ServedKept

\* Everything else leaves the custom domains, their removals and the listener
\* alone, or comes when the deployment no longer serves.
LEMMA OthersServe ==
    ASSUME Inv, ActiveDomainIsServed,
           \/ StartCheck \/ StartDriver \/ Abandon \/ Requeue
           \/ CreateLoadBalancer \/ InstallSucceeds \/ RequestDestroy \/ CutOffDestroy
           \/ DeleteStack \/ DestroySucceeds \/ SweepRecords
           \/ Issue \/ Refuse \/ Publish \/ UNCHANGED vars
    PROVE  ActiveDomainIsServed'
<1>1. CASE DeleteStack \/ DestroySucceeds
  BY <1>1 DEF DeleteStack, DestroySucceeds, ActiveDomainIsServed, Running
<1>2. CASE CreateLoadBalancer \/ Issue \/ Refuse
  <2>1. UNCHANGED << phase, row, removal >>
    BY <1>2 DEF CreateLoadBalancer, Issue, Refuse
  <2>2. aws'.default = aws.default /\ aws'.extra = aws.extra
    BY <1>2, InvFacts DEF CreateLoadBalancer, Issue, Refuse, TypeOK, Account
  <2>3. QED  BY <2>1, <2>2, ServedKept DEF ServedBy
<1>3. CASE InstallSucceeds \/ RequestDestroy
  BY <1>3, ServedKept DEF InstallSucceeds, RequestDestroy, Running
<1>4. CASE \/ StartCheck \/ StartDriver \/ Abandon \/ Requeue
           \/ CutOffDestroy \/ SweepRecords \/ Publish \/ UNCHANGED vars
  <2>1. UNCHANGED << phase, row, removal, aws >>
    BY <1>4 DEF StartCheck, StartDriver, Abandon, Requeue, CutOffDestroy, SweepRecords,
                Publish, vars
  <2>2. QED  BY <2>1, ServedKept
<1>5. QED  BY <1>1, <1>2, <1>3, <1>4

\* A custom domain that is shown as ACTIVE has its certificate on the listener
\* until somebody asks for its removal (runDomainCheck of domains.ts never checks it
\* again).  This is about a deployment that has one custom domain in its life: a
\* removal that is repeated may outlive its domain.
THEOREM ActiveDomainIsServedHolds ==
    ASSUME MaxDomains = 1
    PROVE  Spec => []ActiveDomainIsServed
<1>1. Init => ActiveDomainIsServed
  BY OwnersFacts, NoRowFields DEF Init, ActiveDomainIsServed
<1>2. ActiveDomainIsServed /\ Inv /\ [Next]_vars => ActiveDomainIsServed'
  BY RoutesServe, FinishCheckServes, DefaultServes, ExecuteServes, ResultsServe, OthersServe
     DEF Next
<1>3. QED  BY <1>1, <1>2, Invariance, PTL DEF Spec


=============================================================================
