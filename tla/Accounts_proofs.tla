-------------------------- MODULE Accounts_proofs --------------------------
(* Sessions and second factors, for any number of requests, e-mails and      *)
(* providers' users: what has to hold between the statements of a handler    *)
(* for the invariants TLC checks to be kept by the next one.                 *)
EXTENDS Accounts, TLAPS

\* The account that k is about to be, or was, let into, and what it showed.
Entitled(k) ==
  \E a \in account :
    /\ a.id = k.user
    /\ \/ k.password # None /\ a.email = k.email /\ a.password = k.password
       \/ <<k.subject, a.id>> \in identity

\* Between its statements a request keeps what its session rests on.
ClaimInv ==
  \A r \in Requests :
    /\ req[r].at = "issue" => Entitled(req[r])
    /\ req[r].at = "link" => \E a \in account : a.id = req[r].user

\* A verification past its check has a factor to mark, and, unless its user
\* enrolled again since, one whose secret was shown.
MarkInv ==
  \A r \in Requests : req[r].at = "mark" =>
    /\ factor[req[r].user] \in Factor
    /\ req[r].user \notin crossed => factor[req[r].user].secret \in proved

\* A counter without a TTL is one whose first hit is about to set it, or
\* one that was lost.
CounterExpires ==
  hits > 0 => armed \/ stuck \/ \E r \in Requests : req[r].at = "arm"

\* A session rests on a password or on an identity.
GroundInv == \A g \in granted : Entitled(g)

ServingOne(r) == Serve(r) \/ Limiting(r) \/ Fail(r)
Arriving(r) ==
  \E k \in Request : /\ k.at \in {"limit", "enroll", "verify"} /\ Arrive(r, k)
                     /\ k.at = "limit" => k.kind # "mfa"
                     /\ k.at # "limit" => k.kind = "mfa"
                     /\ CASE k.kind = "mfa" -> k.user \in Ids
                          [] k.kind = "oauth" -> k.email \in Emails /\ k.subject \in Subjects
                          [] OTHER -> k.email \in Emails /\ k.password \in Passwords

-----------------------------------------------------------------------------

\* What arrives is well formed.
LEMMA Arrivals ==
  ASSUME TypeOK, NEW r \in Requests,
         \/ \E e \in Emails, p \in Passwords : SignUp(r, e, p) \/ LogIn(r, e, p)
         \/ \E s \in Subjects : LoginWithOAuth(r, s)
         \/ \E a \in account : AskEnroll(r, a.id) \/ \E s \in 0..secrets : AskVerify(r, a.id, s)
  PROVE  Arriving(r)
<1>0. /\ 0 \in 0..MaxSecrets /\ 0 \in Ids \cup {0} /\ secrets \in 0..MaxSecrets
      /\ 0..secrets \subseteq 0..MaxSecrets
  BY AccountsAssumption DEF TypeOK
<1>. /\ EmailOf \in [Subjects -> Emails]
     /\ 0 \in 0..MaxSecrets /\ 0 \in Ids \cup {0}
  BY <1>0, AccountsAssumption
<1> USE DEF Request, Points, Nobody, Arriving
<1>1. ASSUME NEW e \in Emails, NEW p \in Passwords, SignUp(r, e, p) PROVE Arriving(r)
  <2> DEFINE k == [Nobody EXCEPT !.at = "limit", !.kind = "signup", !.email = e, !.password = p]
  <2>1. k \in Request OBVIOUS
  <2>2. Arrive(r, k) BY <1>1 DEF SignUp
  <2> QED BY <2>1, <2>2
<1>2. ASSUME NEW e \in Emails, NEW p \in Passwords, LogIn(r, e, p) PROVE Arriving(r)
  <2> DEFINE k == [Nobody EXCEPT !.at = "limit", !.kind = "login", !.email = e, !.password = p]
  <2>1. k \in Request OBVIOUS
  <2>2. Arrive(r, k) BY <1>2 DEF LogIn
  <2> QED BY <2>1, <2>2
<1>3. ASSUME NEW s \in Subjects, LoginWithOAuth(r, s) PROVE Arriving(r)
  <2> DEFINE k == [Nobody EXCEPT !.at = "limit", !.kind = "oauth",
                     !.email = EmailOf[s], !.subject = s]
  <2>1. k \in Request OBVIOUS
  <2>2. Arrive(r, k) BY <1>3 DEF LoginWithOAuth
  <2> QED BY <2>1, <2>2
<1>4. ASSUME NEW a \in account, AskEnroll(r, a.id) PROVE Arriving(r)
  <2> DEFINE k == [Nobody EXCEPT !.at = "enroll", !.kind = "mfa", !.user = a.id]
  <2>1. a.id \in Ids BY DEF TypeOK, Account
  <2>2. k \in Request BY <2>1
  <2>3. Arrive(r, k) BY <1>4 DEF AskEnroll
  <2> QED BY <2>1, <2>2, <2>3
<1>5. ASSUME NEW a \in account, NEW s \in 0..secrets, AskVerify(r, a.id, s) PROVE Arriving(r)
  <2> DEFINE k == [Nobody EXCEPT !.at = "verify", !.kind = "mfa", !.user = a.id, !.code = s]
  <2>1. a.id \in Ids BY DEF TypeOK, Account
  <2>2. s \in 0..MaxSecrets BY <1>0
  <2>3. k \in Request BY <2>1, <2>2
  <2>4. Arrive(r, k) BY <1>5 DEF AskVerify
  <2> QED BY <2>1, <2>3, <2>4
<1> QED BY <1>1, <1>2, <1>3, <1>4, <1>5

\* Every step is that of one request, or the end of the limiter's window.
LEMMA Steps ==
  ASSUME TypeOK, Next
  PROVE  Window \/ \E r \in Requests : Arriving(r) \/ ServingOne(r)
BY Arrivals, Zenon DEF Next, ServingOne

\* Every step keeps the types.
LEMMA TypeStep ==
  ASSUME TypeOK, ClaimInv, MarkInv, [Next]_vars
  PROVE  TypeOK'
<1> USE AccountsAssumption DEF TypeOK, tables, limiter, history, Goto, Leave, Request, Points
<1>0. CASE UNCHANGED vars
  BY <1>0 DEF vars
<1>w. CASE Window
  BY <1>w DEF Window
<1>n. Nobody \in Request /\ Nobody.at = "idle"
  BY DEF Nobody
<1>1. ASSUME NEW r \in Requests, Arriving(r) PROVE TypeOK'
  <2>1. PICK k \in Request :
          /\ k.at \in {"limit", "enroll", "verify"} /\ Arrive(r, k)
          /\ k.at = "limit" => k.kind # "mfa"
          /\ k.at # "limit" => k.kind = "mfa"
          /\ CASE k.kind = "mfa" -> k.user \in Ids
               [] k.kind = "oauth" -> k.email \in Emails /\ k.subject \in Subjects
               [] OTHER -> k.email \in Emails /\ k.password \in Passwords
    BY <1>1 DEF Arriving
  <2>2. /\ req' = [req EXCEPT ![r] = k] /\ UNCHANGED <<tables, limiter>>
        /\ begun' \in 0..MaxRequests
    BY <2>1 DEF Arrive
  <2> QED BY <2>1, <2>2
<1>2. ASSUME NEW r \in Requests, Limiting(r) PROVE TypeOK'
  <2>1. CASE Count(r) BY <2>1, <1>n DEF Count
  <2>2. CASE Arm(r) BY <2>2, <1>n DEF Arm
  <2>3. CASE LimiterFails(r) BY <2>3 DEF LimiterFails
  <2> QED BY <1>2, <2>1, <2>2, <2>3 DEF Limiting
<1>3. ASSUME NEW r \in Requests, Fail(r) PROVE TypeOK'
  BY <1>3, <1>n DEF Fail
<1>4. ASSUME NEW r \in Requests, Serve(r) PROVE TypeOK'
  <2>1. CASE Create(r) BY <2>1, <1>n DEF Create, CreateUser, Account
  <2>2. CASE CheckPassword(r) BY <2>2, <1>n DEF CheckPassword, Account
  <2>3. CASE FindIdentity(r) BY <2>3, <1>n DEF FindIdentity, Linked, Account
  <2>4. CASE Provision(r)
    <3>1. CASE Leave(r) /\ UNCHANGED account
      BY <2>4, <3>1, <1>n DEF Provision
    <3>2. CASE CreateUser(r, "link")
      <4>1. PICK u \in Ids :
              /\ account' = account \cup
                   {[id |-> u, email |-> req[r].email, password |-> req[r].password]}
              /\ req' = [req EXCEPT ![r].at = "link", ![r].user = u]
        BY <3>2 DEF CreateUser
      <4>2. account' \subseteq Account
        <5>1. account \subseteq Account /\ req[r].email \in Emails
              /\ req[r].password \in Passwords \cup {None}
          BY <2>4 DEF Provision
        <5> QED BY ONLY <4>1, <5>1 DEF Account
      <4>3. /\ req[r].at = "provision" /\ req[r].kind = "oauth"
            /\ req[r].email \in Emails /\ req[r].subject \in Subjects
        BY <2>4 DEF Provision
      <4>4. /\ req' \in [Requests -> Request]
            /\ \A q \in Requests : q # r => req'[q] = req[q]
            /\ req'[r].at = "link" /\ req'[r].kind = "oauth"
            /\ req'[r].email \in Emails /\ req'[r].subject \in Subjects
        <5> DEFINE k == [req[r] EXCEPT !.at = "link", !.user = u]
        <5>1. req \in [Requests -> Request] /\ req[r] \in Request
          OBVIOUS
        <5>2. k \in Request
          BY ONLY <5>1, u \in Ids DEF Request, Points
        <5>3. k.at = "link" /\ k.kind = "oauth" /\ k.email \in Emails /\ k.subject \in Subjects
          BY ONLY <4>3, <5>1 DEF Request
        <5>4. req' = [req EXCEPT ![r] = k]
          BY <4>1
        <5> HIDE DEF k
        <5> QED BY ONLY <5>1, <5>2, <5>3, <5>4
      <4> QED BY <2>4, <4>2, <4>4 DEF Provision
    <3> QED BY <2>4, <3>1, <3>2 DEF Provision
  <2>5. CASE Link(r) BY <2>5, <1>n DEF Link, ClaimInv, Account
  <2>6. CASE Issue(r) BY <2>6, <1>n DEF Issue
  <2>7. CASE Enroll(r) BY <2>7, <1>n DEF Enroll, Enrolled, Factor
  <2>8. CASE Verify(r) BY <2>8, <1>n DEF Verify
  <2>9. CASE MarkVerified(r)
    <3>1. factor' \in [Ids -> Factor \cup {None}]
      <4>1. factor \in [Ids -> Factor \cup {None}] /\ factor[req[r].user] \in Factor
        BY <2>9 DEF MarkVerified, MarkInv
      <4>2. factor' = [factor EXCEPT ![req[r].user].on = TRUE]
        BY <2>9 DEF MarkVerified
      <4> QED BY ONLY <4>1, <4>2 DEF Factor
    <3>2. req' = [req EXCEPT ![r] = Nobody]
          /\ UNCHANGED <<account, identity, secrets, hits, armed, stuck, begun>>
      BY <2>9 DEF MarkVerified
    <3> QED BY <3>1, <3>2, <1>n
  <2> QED BY <1>4, <2>1, <2>2, <2>3, <2>4, <2>5, <2>6, <2>7, <2>8, <2>9 DEF Serve
<1> QED BY <1>0, <1>w, <1>1, <1>2, <1>3, <1>4, Steps DEF ServingOne

\* Accounts and links are only added: who was entitled stays so.
LEMMA Grow ==
  ASSUME TypeOK, [Next]_vars
  PROVE  account \subseteq account' /\ identity \subseteq identity'
<1>0. CASE UNCHANGED vars
  BY <1>0 DEF vars, tables
<1>w. CASE Window
  BY <1>w DEF Window, tables
<1>1. ASSUME NEW r \in Requests, Arriving(r)
      PROVE  account \subseteq account' /\ identity \subseteq identity'
  BY <1>1 DEF Arriving, Arrive, tables
<1>2. ASSUME NEW r \in Requests, ServingOne(r)
      PROVE  account \subseteq account' /\ identity \subseteq identity'
  BY <1>2, SMTT(30) DEF ServingOne, Serve, Limiting, Create, CheckPassword, FindIdentity,
     Provision, CreateUser, Link, Issue, Enroll, Verify, MarkVerified, Fail, Count, Arm,
     LimiterFails, tables
<1> QED BY <1>0, <1>w, <1>1, <1>2, Steps

\* A request gets as far as "issue" and "link" only with what it needs.
LEMMA ClaimStep ==
  ASSUME TypeOK, ClaimInv, [Next]_vars
  PROVE  ClaimInv'
<1> USE DEF tables, limiter, history, Goto, Leave
<1>g. account \subseteq account' /\ identity \subseteq identity'
  BY Grow
<1>k. ASSUME NEW q \in Requests,
             \/ req'[q] = req[q]
             \/ req'[q].at \notin {"issue", "link"}
      PROVE  /\ req'[q].at = "issue" => Entitled(req[q])'
             /\ req'[q].at = "link" => \E a \in account' : a.id = req'[q].user
  <2>1. CASE req'[q] = req[q]
    <3>1. req[q].at = "issue" => Entitled(req[q])
      BY DEF ClaimInv
    <3>2. req[q].at = "link" => \E a \in account : a.id = req[q].user
      BY DEF ClaimInv
    <3>3. req'[q].at = "issue" => Entitled(req[q])'
      BY <2>1, <3>1, <1>g DEF Entitled
    <3> QED BY <2>1, <3>2, <3>3, <1>g
  <2> QED BY <1>k, <2>1
<1>s. SUFFICES ASSUME NEW q \in Requests,
                      req'[q] # req[q], req'[q].at \in {"issue", "link"}
               PROVE  /\ req'[q].at = "issue" => Entitled(req[q])'
                      /\ req'[q].at = "link" => \E a \in account' : a.id = req'[q].user
  BY <1>k DEF ClaimInv
<1>t. req \in [Requests -> Request]
  BY DEF TypeOK
<1>n. Nobody.at = "idle"
  BY DEF Nobody
<1>0. ~UNCHANGED vars
  BY <1>s DEF vars
<1>w. ~Window
  BY <1>s DEF Window
<1>1. ASSUME NEW r \in Requests, Arriving(r) PROVE FALSE
  BY <1>1, <1>s, <1>t DEF Arriving, Arrive
<1>2. ASSUME NEW r \in Requests, Fail(r) \/ Limiting(r) PROVE FALSE
  BY <1>2, <1>s, <1>t, <1>n DEF Fail, Limiting, Count, Arm, LimiterFails, TypeOK, Request
<1>3. ASSUME NEW r \in Requests, Serve(r)
      PROVE  /\ req'[q].at = "issue" => Entitled(req[q])'
             /\ req'[q].at = "link" => \E a \in account' : a.id = req'[q].user
  <2>1. CASE Create(r)
    <3>1. /\ CreateUser(r, "issue") /\ r = q /\ req[r].kind = "signup"
          /\ req[r].password \in Passwords
      <4>1. r = q
        BY <2>1, <1>s, <1>t DEF Create, CreateUser
      <4>2. CreateUser(r, "issue")
        BY <2>1, <4>1, <1>s, <1>t, <1>n DEF Create
      <4>3. req[r].kind = "signup" /\ req[r].password \in Passwords
        BY <2>1 DEF Create, TypeOK
      <4> QED BY <4>1, <4>2, <4>3
    <3>2. PICK u \in Ids :
            /\ account' = account \cup
                 {[id |-> u, email |-> req[r].email, password |-> req[r].password]}
            /\ req' = [req EXCEPT ![r].at = "issue", ![r].user = u]
      BY <3>1 DEF CreateUser
    <3>3. /\ req'[q].user = u /\ req'[q].email = req[q].email /\ req'[q].at = "issue"
          /\ req'[q].password = req[q].password /\ req[q].password # None
      BY <3>1, <3>2, <1>t, AccountsAssumption DEF Request
    <3> DEFINE a == [id |-> u, email |-> req[r].email, password |-> req[r].password]
    <3>4. a \in account' /\ a.id = u /\ a.email = req[r].email /\ a.password = req[r].password
      BY <3>2
    <3> HIDE DEF a
    <3> QED BY <3>1, <3>3, <3>4 DEF Entitled
  <2>2. CASE CheckPassword(r)
    <3>1. PICK a \in account :
            /\ a.email = req[r].email /\ a.password = req[r].password
            /\ req' = [req EXCEPT ![r].at = "issue", ![r].user = a.id]
      BY <2>2, <1>s, <1>t, <1>n DEF CheckPassword
    <3>2. r = q /\ req[r].kind = "login" /\ req[r].password \in Passwords
      BY <2>2, <3>1, <1>s, <1>t DEF CheckPassword, TypeOK
    <3>3. /\ req'[q].user = a.id /\ req'[q].email = req[q].email /\ req'[q].at = "issue"
          /\ req'[q].password = req[q].password /\ req[q].password # None
      BY <3>1, <3>2, <1>t, AccountsAssumption DEF Request
    <3> QED BY <3>1, <3>2, <3>3, <1>g DEF Entitled
  <2>3. CASE FindIdentity(r)
    <3>0. r = q
      BY <2>3, <1>s, <1>t DEF FindIdentity
    <3>a. ~Leave(r) /\ ~Goto(r, "provision")
      BY <3>0, <1>s, <1>t, <1>n DEF Request
    <3>1. PICK u \in Linked(req[r]) : req' = [req EXCEPT ![r].at = "issue", ![r].user = u]
      BY <2>3, <3>a DEF FindIdentity
    <3>2. PICK a \in account : a.id = u /\ <<req[r].subject, a.id>> \in identity
      BY <3>1 DEF Linked
    <3>3. /\ r = q /\ req'[q].user = a.id /\ req'[q].subject = req[q].subject
          /\ req'[q].at = "issue"
      BY <3>1, <3>2, <1>s, <1>t DEF Request
    <3> QED BY <3>2, <3>3, <1>g DEF Entitled
  <2>4. CASE Provision(r)
    <3>0. r = q
      BY <2>4, <1>s, <1>t DEF Provision, CreateUser
    <3>1. CreateUser(r, "link")
      BY <2>4, <3>0, <1>s, <1>t, <1>n DEF Provision
    <3>2. PICK u \in Ids :
            /\ account' = account \cup
                 {[id |-> u, email |-> req[r].email, password |-> req[r].password]}
            /\ req' = [req EXCEPT ![r].at = "link", ![r].user = u]
      BY <3>1 DEF CreateUser
    <3>3. req'[q].at = "link" /\ req'[q].user = u
      BY <3>0, <3>2, <1>t DEF Request
    <3> DEFINE a == [id |-> u, email |-> req[r].email, password |-> req[r].password]
    <3>4. a \in account' /\ a.id = u
      BY <3>2
    <3> QED BY <3>3, <3>4
  <2>5. CASE Link(r)
    <3>1. /\ req[r].at = "link" /\ identity' = identity \cup {<<req[r].subject, req[r].user>>}
          /\ req' = [req EXCEPT ![r].at = "issue"] /\ r = q
      BY <2>5, <1>s, <1>t, <1>n DEF Link
    <3>2. PICK a \in account : a.id = req[r].user
      BY <3>1 DEF ClaimInv
    <3>3. /\ req'[q].at = "issue" /\ req'[q].user = a.id
          /\ req'[q].subject = req[q].subject
      BY <3>1, <3>2, <1>t DEF Request
    <3> QED BY <3>1, <3>2, <3>3, <1>g DEF Entitled
  <2>6. CASE Issue(r) \/ Enroll(r) \/ Verify(r) \/ MarkVerified(r)
    <3>1. Leave(r) \/ Goto(r, "mark")
      BY <2>6 DEF Issue, Enroll, Verify, MarkVerified
    <3> QED BY <3>1, <1>s, <1>t, <1>n DEF Request
  <2> QED BY <1>3, <2>1, <2>2, <2>3, <2>4, <2>5, <2>6 DEF Serve
<1> QED BY <1>0, <1>w, <1>1, <1>2, <1>3, Steps DEF ServingOne

\* A verification gets as far as "mark" with a factor, and only another
\* enrolment of its user can take the secret it checked away.
LEMMA MarkStep ==
  ASSUME TypeOK, MarkInv, [Next]_vars
  PROVE  MarkInv'
<1> USE DEF tables, limiter, history, Goto, Leave
<1>t. req \in [Requests -> Request] /\ factor \in [Ids -> Factor \cup {None}]
  BY DEF TypeOK
<1>n. Nobody.at = "idle"
  BY DEF Nobody
<1>m. ASSUME NEW r \in Requests, req[r].at = "mark" PROVE req[r].user \in Ids
  BY <1>m DEF TypeOK
<1>0. CASE UNCHANGED vars
  BY <1>0 DEF vars, MarkInv
<1>w. CASE Window
  BY <1>w DEF Window, MarkInv
<1>1. ASSUME NEW r \in Requests, Arriving(r) PROVE MarkInv'
  BY <1>1, <1>t DEF Arriving, Arrive, MarkInv
<1>2. ASSUME NEW r \in Requests, Fail(r) \/ Limiting(r) PROVE MarkInv'
  <2>1. /\ UNCHANGED <<factor, crossed, proved>>
        /\ \A q \in Requests : req'[q].at = "mark" => req'[q] = req[q]
    BY <1>2, <1>t, <1>n DEF Fail, Limiting, Count, Arm, LimiterFails, TypeOK, Request
  <2> QED BY <2>1 DEF MarkInv
<1>3. ASSUME NEW r \in Requests, Serve(r) PROVE MarkInv'
  <2>1. CASE Create(r) \/ CheckPassword(r) \/ FindIdentity(r) \/ Provision(r) \/ Link(r)
             \/ Issue(r)
    <3>1. UNCHANGED <<factor, crossed, proved>>
      BY <2>1 DEF Create, CheckPassword, FindIdentity, Provision, Link, Issue
    <3>2. ASSUME NEW q \in Requests, req'[q].at = "mark" PROVE req'[q] = req[q]
      BY <2>1, <3>2, <1>t, <1>n DEF Create, CreateUser, CheckPassword, FindIdentity,
         Provision, Link, Issue, Request
    <3> QED BY <3>1, <3>2 DEF MarkInv
  <2>2. CASE Enroll(r)
    <3>1. ASSUME NEW q \in Requests, req'[q].at = "mark"
          PROVE  req'[q] = req[q] /\ q # r /\ req[q].user \in Ids
      BY <2>2, <3>1, <1>t, <1>n, <1>m DEF Enroll
    <3>2. ASSUME NEW q \in Requests, req[q].at = "mark", req[q].user = req[r].user
          PROVE  req[q].user \in crossed' /\ factor'[req[q].user] \in Factor
      BY <2>2, <3>2, <1>t, <1>m, AccountsAssumption DEF Enroll, Enrolled, Factor, TypeOK
    <3>3. ASSUME NEW q \in Requests, req[q].at = "mark", req[q].user # req[r].user
          PROVE  factor'[req[q].user] = factor[req[q].user]
      BY <2>2, <3>3, <1>t, <1>m DEF Enroll
    <3>4. crossed \subseteq crossed' /\ proved' = proved
      BY <2>2 DEF Enroll
    <3> QED BY <3>1, <3>2, <3>3, <3>4 DEF MarkInv
  <2>3. CASE Verify(r)
    <3>1. proved \subseteq proved' /\ UNCHANGED <<factor, crossed>>
      BY <2>3 DEF Verify
    <3>2. ASSUME NEW q \in Requests, req'[q].at = "mark", q # r PROVE req'[q] = req[q]
      BY <2>3, <3>2, <1>t DEF Verify
    <3>3. ASSUME req'[r].at = "mark"
          PROVE  /\ req'[r].user = req[r].user /\ factor[req[r].user] \in Factor
                 /\ factor[req[r].user].secret \in proved'
      <4>1. req[r].user \in Ids
        BY <2>3 DEF Verify, TypeOK
      <4>2. factor[req[r].user] # None /\ factor[req[r].user].secret \in proved'
        BY <2>3, <3>3, <1>t, <1>n DEF Verify
      <4>3. req'[r].user = req[r].user
        BY <2>3, <3>3, <1>t, <1>n DEF Verify, Request
      <4> QED BY <4>1, <4>2, <4>3, <1>t
    <3> QED BY <3>1, <3>2, <3>3 DEF MarkInv
  <2>4. CASE MarkVerified(r)
    <3>1. ASSUME NEW q \in Requests, req'[q].at = "mark"
          PROVE  req'[q] = req[q] /\ req[q].user \in Ids
      BY <2>4, <3>1, <1>t, <1>n, <1>m DEF MarkVerified
    <3>2. ASSUME NEW u \in Ids, factor[u] \in Factor
          PROVE  factor'[u] \in Factor /\ factor'[u].secret = factor[u].secret
      BY <2>4, <3>2, <1>t DEF MarkVerified, Factor
    <3>3. UNCHANGED <<crossed, proved>>
      BY <2>4 DEF MarkVerified
    <3> QED BY <3>1, <3>2, <3>3 DEF MarkInv
  <2> QED BY <1>3, <2>1, <2>2, <2>3, <2>4 DEF Serve
<1> QED BY <1>0, <1>w, <1>1, <1>2, <1>3, Steps DEF ServingOne

\* A session is issued from "issue" only, and nothing takes its ground away.
LEMMA EarnedStep ==
  ASSUME TypeOK, ClaimInv, GroundInv, [Next]_vars
  PROVE  GroundInv'
<1>g. account \subseteq account' /\ identity \subseteq identity'
  BY Grow
<1>k. ASSUME granted' = granted PROVE GroundInv'
  BY <1>g, <1>k DEF GroundInv, Entitled
<1>0. CASE UNCHANGED vars
  BY <1>0, <1>k DEF vars, history
<1>w. CASE Window
  BY <1>w, <1>k DEF Window, history
<1>1. ASSUME NEW r \in Requests, Arriving(r) PROVE GroundInv'
  BY <1>1, <1>k DEF Arriving, Arrive, history
<1>2. ASSUME NEW r \in Requests, ServingOne(r), ~Issue(r) PROVE GroundInv'
  BY <1>2, <1>k DEF ServingOne, Serve, Limiting, Create, CheckPassword, FindIdentity,
     Provision, Link, Enroll, Verify, MarkVerified, Fail, Count, Arm, LimiterFails, history
<1>3. ASSUME NEW r \in Requests, Issue(r) PROVE GroundInv'
  <2> DEFINE new == [user |-> req[r].user, email |-> req[r].email,
                     password |-> req[r].password, subject |-> req[r].subject]
  <2>1. granted' = granted \cup {new} /\ UNCHANGED <<account, identity>>
    BY <1>3 DEF Issue, tables
  <2>2. Entitled(req[r])
    BY <1>3 DEF Issue, ClaimInv
  <2>3. Entitled(new)
    BY <2>2 DEF Entitled
  <2> HIDE DEF new
  <2> QED BY <2>1, <2>3 DEF GroundInv, Entitled
<1> QED BY <1>0, <1>w, <1>1, <1>2, <1>3, Steps

\* Only a verification that found its secret unchanged sets a factor on,
\* outside the users that are excepted.
LEMMA FactorStep ==
  ASSUME TypeOK, MarkInv, FactorsProved, [Next]_vars
  PROVE  FactorsProved'
<1> USE DEF tables, limiter, history
<1>t. factor \in [Ids -> Factor \cup {None}]
  BY DEF TypeOK
<1>0. CASE UNCHANGED vars
  BY <1>0 DEF vars, FactorsProved
<1>w. CASE Window
  BY <1>w DEF Window, FactorsProved
<1>1. ASSUME NEW r \in Requests, Arriving(r) PROVE FactorsProved'
  BY <1>1 DEF Arriving, Arrive, FactorsProved
<1>2. ASSUME NEW r \in Requests, Enroll(r) PROVE FactorsProved'
  <2>1. ASSUME NEW u \in Ids, factor'[u].on PROVE factor'[u] = factor[u]
    BY <1>2, <1>t, <2>1 DEF Enroll, Enrolled
  <2>2. crossed \subseteq crossed' /\ proved' = proved
    BY <1>2 DEF Enroll
  <2> QED BY <2>1, <2>2 DEF FactorsProved
<1>3. ASSUME NEW r \in Requests, MarkVerified(r) PROVE FactorsProved'
  <2> DEFINE m == req[r].user
  <2>1. /\ UNCHANGED <<proved, crossed>>
        /\ m \notin crossed => factor[m].secret \in proved
        /\ factor[m] \in Factor /\ m \in Ids
    BY <1>3 DEF MarkVerified, MarkInv, TypeOK
  <2>2. factor' = [factor EXCEPT ![m].on = TRUE]
    BY <1>3 DEF MarkVerified
  <2> HIDE DEF m
  <2>3. /\ factor'[m].secret = factor[m].secret
        /\ \A u \in Ids \ {m} : factor'[u] = factor[u]
    BY <2>1, <2>2, <1>t DEF Factor
  <2> QED BY <2>1, <2>3 DEF FactorsProved
<1>4. ASSUME NEW r \in Requests, ServingOne(r), ~Enroll(r), ~MarkVerified(r)
      PROVE  FactorsProved'
  <2>1. proved \subseteq proved' /\ UNCHANGED <<factor, crossed>>
    BY <1>4 DEF ServingOne, Serve, Limiting, Create, CheckPassword, FindIdentity,
       Provision, Link, Issue, Verify, Fail, Count, Arm, LimiterFails
  <2> QED BY <2>1 DEF FactorsProved
<1> QED BY <1>0, <1>w, <1>1, <1>2, <1>3, <1>4, Steps

\* Whoever counts to one is at "arm" until it sets the TTL or is lost.
LEMMA CounterStep ==
  ASSUME TypeOK, CounterExpires, [Next]_vars
  PROVE  CounterExpires'
<1> USE DEF limiter, Goto, Leave
<1>t. req \in [Requests -> Request] /\ hits \in Nat
  BY DEF TypeOK
<1>n. Nobody.at = "idle"
  BY DEF Nobody
<1>0. CASE UNCHANGED vars
  BY <1>0 DEF vars, CounterExpires
<1>w. CASE Window
  BY <1>w DEF Window, CounterExpires
<1>1. ASSUME NEW r \in Requests, Arriving(r) PROVE CounterExpires'
  BY <1>1, <1>t DEF Arriving, Arrive, CounterExpires
<1>2. ASSUME NEW r \in Requests, Count(r) PROVE CounterExpires'
  <2>1. CASE hits = 0
    <3>1. req'[r].at = "arm"
      BY <1>2, <2>1, <1>t DEF Count, FirstHit, Request
    <3> QED BY <3>1 DEF CounterExpires
  <2>2. CASE hits # 0
    <3>1. \A q \in Requests : req[q].at = "arm" => req'[q] = req[q]
      BY <1>2, <2>2, <1>t DEF Count, FirstHit
    <3>2. UNCHANGED <<armed, stuck>> /\ hits > 0
      BY <1>2, <2>2, <1>t DEF Count
    <3> QED BY <3>1, <3>2 DEF CounterExpires
  <2> QED BY <2>1, <2>2
<1>3. ASSUME NEW r \in Requests, Arm(r) PROVE CounterExpires'
  BY <1>3 DEF Arm, CounterExpires
<1>4. ASSUME NEW r \in Requests, LimiterFails(r) \/ Fail(r) PROVE CounterExpires'
  <2>1. /\ UNCHANGED <<hits, armed>> /\ (stuck \/ req[r].at = "arm" => stuck')
        /\ \A q \in Requests : q # r => req'[q] = req[q]
    BY <1>4, <1>t DEF LimiterFails, Fail
  <2> QED BY <2>1 DEF CounterExpires
<1>5. ASSUME NEW r \in Requests, Serve(r) PROVE CounterExpires'
  <2>1. req[r].at # "arm" /\ UNCHANGED limiter
    BY <1>5 DEF Serve, Create, CheckPassword, FindIdentity, Provision, Link, Issue,
       Enroll, Verify, MarkVerified
  <2>2. \A q \in Requests : q # r => req'[q] = req[q]
    BY <1>5, <1>t DEF Serve, Create, CreateUser, CheckPassword, FindIdentity, Provision,
       Link, Issue, Enroll, Verify, MarkVerified
  <2> QED BY <2>1, <2>2 DEF CounterExpires
<1> QED BY <1>0, <1>w, <1>1, <1>2, <1>3, <1>4, <1>5, Steps DEF ServingOne, Limiting

-----------------------------------------------------------------------------
(* Which account a way in opens.                                           *)

\* A provider's user shows no password, and the e-mail the provider reports.
OwnWay(k) == k.subject # None => k.password = None /\ k.email = EmailOf[k.subject]

\* The account u is one that Provision made for the provider's user s.
MadeFor(u, s) ==
  \E a \in account : a.id = u /\ a.password = None /\ a.email = EmailOf[s]

\* From its arrival a request shows one way in; an identity, stored or about
\* to be, names an account made for it; ids are never used twice.
WayInv ==
  /\ \A a, b \in account : a.id = b.id => a = b
  /\ \A r \in Requests : OwnWay(req[r]) /\ (req[r].at = "link" => MadeFor(req[r].user, req[r].subject))
  /\ \A i \in identity : MadeFor(i[2], i[1])
  /\ \A g \in granted : OwnWay(g)

\* What arrives shows one way in.
LEMMA OwnArrivals ==
  ASSUME NEW r \in Requests,
         \/ \E e \in Emails, p \in Passwords : SignUp(r, e, p) \/ LogIn(r, e, p)
         \/ \E s \in Subjects : LoginWithOAuth(r, s)
         \/ \E a \in account : AskEnroll(r, a.id) \/ \E s \in 0..secrets : AskVerify(r, a.id, s)
  PROVE  \E k : Arrive(r, k) /\ OwnWay(k) /\ k.at # "link"
<1>1. ASSUME NEW e \in Emails, NEW p \in Passwords, SignUp(r, e, p)
      PROVE  \E k : Arrive(r, k) /\ OwnWay(k) /\ k.at # "link"
  <2> DEFINE k == [Nobody EXCEPT !.at = "limit", !.kind = "signup", !.email = e, !.password = p]
  <2>1. OwnWay(k) /\ k.at # "link"
    BY DEF OwnWay, Nobody
  <2> QED BY <1>1, <2>1 DEF SignUp
<1>2. ASSUME NEW e \in Emails, NEW p \in Passwords, LogIn(r, e, p)
      PROVE  \E k : Arrive(r, k) /\ OwnWay(k) /\ k.at # "link"
  <2> DEFINE k == [Nobody EXCEPT !.at = "limit", !.kind = "login", !.email = e, !.password = p]
  <2>1. OwnWay(k) /\ k.at # "link"
    BY DEF OwnWay, Nobody
  <2> QED BY <1>2, <2>1 DEF LogIn
<1>3. ASSUME NEW s \in Subjects, LoginWithOAuth(r, s)
      PROVE  \E k : Arrive(r, k) /\ OwnWay(k) /\ k.at # "link"
  <2> DEFINE k == [Nobody EXCEPT !.at = "limit", !.kind = "oauth",
                     !.email = EmailOf[s], !.subject = s]
  <2>1. OwnWay(k) /\ k.at # "link"
    BY DEF OwnWay, Nobody
  <2> QED BY <1>3, <2>1 DEF LoginWithOAuth
<1>4. ASSUME NEW a \in account, AskEnroll(r, a.id)
      PROVE  \E k : Arrive(r, k) /\ OwnWay(k) /\ k.at # "link"
  <2> DEFINE k == [Nobody EXCEPT !.at = "enroll", !.kind = "mfa", !.user = a.id]
  <2>1. OwnWay(k) /\ k.at # "link"
    BY DEF OwnWay, Nobody
  <2> QED BY <1>4, <2>1 DEF AskEnroll
<1>5. ASSUME NEW a \in account, NEW s \in 0..secrets, AskVerify(r, a.id, s)
      PROVE  \E k : Arrive(r, k) /\ OwnWay(k) /\ k.at # "link"
  <2> DEFINE k == [Nobody EXCEPT !.at = "verify", !.kind = "mfa", !.user = a.id, !.code = s]
  <2>1. OwnWay(k) /\ k.at # "link"
    BY DEF OwnWay, Nobody
  <2> QED BY <1>5, <2>1 DEF AskVerify
<1> QED BY <1>1, <1>2, <1>3, <1>4, <1>5

\* A request moves on without changing what it shows, and is at "link" only
\* with an account made for it.
LEMMA WayStep ==
  ASSUME TypeOK, WayInv, [Next]_vars
  PROVE  WayInv'
<1> USE DEF tables, limiter, history, Goto, Leave
<1>g. account \subseteq account' /\ identity \subseteq identity'
  BY Grow
<1>m. ASSUME NEW u, NEW s, MadeFor(u, s) PROVE MadeFor(u, s)'
  BY <1>m, <1>g DEF MadeFor
<1>t. req \in [Requests -> Request]
  BY DEF TypeOK
<1>n. Nobody.at = "idle" /\ OwnWay(Nobody)
  BY DEF Nobody, OwnWay
<1>0. CASE UNCHANGED vars
  BY <1>0 DEF vars, WayInv, OwnWay, MadeFor
<1>w. CASE Window
  BY <1>w DEF Window, WayInv, OwnWay, MadeFor
<1>k. ASSUME NEW r \in Requests, UNCHANGED <<account, identity, granted>>,
             \A q \in Requests \ {r} : req'[q] = req[q],
             OwnWay(req[r])', req'[r].at # "link"
      PROVE  WayInv'
  BY <1>k, <1>m DEF WayInv, OwnWay, MadeFor
<1>1. ASSUME NEW r \in Requests, NEW k, Arrive(r, k), OwnWay(k), k.at # "link" PROVE WayInv'
  BY <1>1, <1>k, <1>t DEF Arrive, OwnWay
<1>2. ASSUME NEW r \in Requests, ServingOne(r),
             ~Create(r), ~Provision(r), ~Link(r), ~Issue(r)
      PROVE  WayInv'
  <2>1. UNCHANGED <<account, identity, granted>>
    BY <1>2 DEF ServingOne, Serve, Limiting, CheckPassword, FindIdentity, Enroll, Verify,
       MarkVerified, Fail, Count, Arm, LimiterFails
  <2>2. PICK k : req' = [req EXCEPT ![r] = k] /\ OwnWay(k) /\ k.at # "link"
    <3>1. ASSUME NEW p \in Points \ {"link"}, Goto(r, p)
          PROVE  \E k : req' = [req EXCEPT ![r] = k] /\ OwnWay(k) /\ k.at # "link"
      <4> DEFINE k == [req[r] EXCEPT !.at = p]
      <4>1. OwnWay(k) /\ k.at # "link" /\ req' = [req EXCEPT ![r] = k]
        BY <3>1, <1>t DEF WayInv, OwnWay, Request
      <4> QED BY <4>1
    <3>2. ASSUME Leave(r)
          PROVE  \E k : req' = [req EXCEPT ![r] = k] /\ OwnWay(k) /\ k.at # "link"
      BY <3>2, <1>n
    <3>3. ASSUME NEW u, req' = [req EXCEPT ![r].at = "issue", ![r].user = u]
          PROVE  \E k : req' = [req EXCEPT ![r] = k] /\ OwnWay(k) /\ k.at # "link"
      <4> DEFINE k == [req[r] EXCEPT !.at = "issue", !.user = u]
      <4>1. OwnWay(k) /\ k.at # "link" /\ req' = [req EXCEPT ![r] = k]
        BY <3>3, <1>t DEF WayInv, OwnWay, Request
      <4> QED BY <4>1
    <3>4. CASE Limiting(r) \/ Fail(r)
      <4>1. req[r].kind \in Points \ {"link"} \/ Leave(r) \/ Goto(r, "arm")
        BY <3>4, <1>t DEF Limiting, Fail, Count, Arm, LimiterFails, TypeOK, Points, Request
      <4>2. Goto(r, req[r].kind) \/ Goto(r, "arm") \/ Leave(r)
        BY <3>4 DEF Limiting, Fail, Count, Arm, LimiterFails
      <4>3. "arm" \in Points \ {"link"}
        BY DEF Points
      <4> QED BY <3>1, <3>2, <4>1, <4>2, <4>3
    <3>5. CASE Serve(r)
      <4>1. \/ Leave(r) \/ Goto(r, "provision") \/ Goto(r, "mark")
            \/ \E u : req' = [req EXCEPT ![r].at = "issue", ![r].user = u]
        BY <1>2, <3>5 DEF Serve, CheckPassword, FindIdentity, Enroll, Verify, MarkVerified
      <4>2. {"provision", "mark"} \subseteq Points \ {"link"}
        BY DEF Points
      <4> QED BY <3>1, <3>2, <3>3, <4>1, <4>2
    <3> QED BY <1>2, <3>4, <3>5 DEF ServingOne
  <2> QED BY <2>1, <2>2, <1>k, <1>t DEF OwnWay
<1>3. ASSUME NEW r \in Requests, NEW then \in {"issue", "link"}, CreateUser(r, then),
             UNCHANGED <<identity, granted>>,
             then = "link" => req[r].subject \in Subjects
      PROVE  WayInv'
  <2>1. PICK u \in Ids :
          /\ \A a \in account : a.id # u
          /\ account' = account \cup
               {[id |-> u, email |-> req[r].email, password |-> req[r].password]}
          /\ req' = [req EXCEPT ![r].at = then, ![r].user = u]
    BY <1>3 DEF CreateUser
  <2> DEFINE new == [id |-> u, email |-> req[r].email, password |-> req[r].password]
  <2>2. new.id = u /\ new.email = req[r].email /\ new.password = req[r].password
    OBVIOUS
  <2>3. new \in account' /\ account' = account \cup {new}
    BY <2>1
  <2>a. /\ req'[r].at = then /\ req'[r].user = u /\ req'[r].subject = req[r].subject
        /\ req'[r].password = req[r].password /\ req'[r].email = req[r].email
        /\ \A q \in Requests \ {r} : req'[q] = req[q]
    BY <2>1, <1>t DEF Request
  <2> HIDE DEF new
  <2>4. \A a, b \in account' : a.id = b.id => a = b
    BY <2>1, <2>2, <2>3 DEF WayInv
  <2>5. OwnWay(req[r])'
    BY <2>a DEF WayInv, OwnWay
  <2>6. then = "link" => MadeFor(req[r].user, req[r].subject)'
    <3>1. then = "link" => req[r].password = None /\ req[r].email = EmailOf[req[r].subject]
      BY <1>3, AccountsAssumption DEF WayInv, OwnWay
    <3> QED BY <2>2, <2>3, <2>a, <3>1 DEF MadeFor
  <2>7. ASSUME NEW q \in Requests \ {r}
        PROVE  OwnWay(req[q])' /\ (req'[q].at = "link" => MadeFor(req[q].user, req[q].subject)')
    BY <2>a, <1>m DEF WayInv, OwnWay
  <2>8. \A i \in identity' : MadeFor(i[2], i[1])'
    BY <1>3, <1>m DEF WayInv
  <2> QED BY <1>3, <2>4, <2>5, <2>6, <2>7, <2>8, <2>a DEF WayInv, OwnWay
<1>4. ASSUME NEW r \in Requests, Create(r) \/ Provision(r) PROVE WayInv'
  <2>1. UNCHANGED <<identity, granted>>
    BY <1>4 DEF Create, Provision
  <2>2. CASE Leave(r) /\ UNCHANGED account
    BY <2>1, <2>2, <1>k, <1>n, <1>t DEF OwnWay
  <2>3. CASE ~(Leave(r) /\ UNCHANGED account)
    <3>1. CASE Create(r)
      BY <2>1, <2>3, <3>1, <1>3 DEF Create
    <3>2. CASE Provision(r)
      <4>1. CreateUser(r, "link") /\ req[r].subject \in Subjects
        BY <2>3, <3>2 DEF Provision, TypeOK
      <4> QED BY <2>1, <4>1, <1>3
    <3> QED BY <1>4, <3>1, <3>2
  <2> QED BY <2>2, <2>3
<1>5. ASSUME NEW r \in Requests, Link(r) PROVE WayInv'
  <2>1. UNCHANGED <<account, granted>> /\ req[r].at = "link"
    BY <1>5 DEF Link
  <2>2. CASE Leave(r) /\ UNCHANGED identity
    BY <2>1, <2>2, <1>k, <1>n, <1>t DEF OwnWay
  <2>3. CASE identity' = identity \cup {<<req[r].subject, req[r].user>>} /\ Goto(r, "issue")
    <3>1. /\ req'[r].at = "issue" /\ OwnWay(req[r])'
          /\ \A q \in Requests \ {r} : req'[q] = req[q]
      BY <2>3, <1>t DEF WayInv, OwnWay, Request
    <3>2. \A i \in identity' : MadeFor(i[2], i[1])'
      BY <2>1, <2>3, <1>m DEF WayInv
    <3> QED BY <2>1, <3>1, <3>2, <1>m DEF WayInv, OwnWay
  <2> QED BY <1>5, <2>2, <2>3 DEF Link
<1>6. ASSUME NEW r \in Requests, Issue(r) PROVE WayInv'
  <2> DEFINE new == [user |-> req[r].user, email |-> req[r].email,
                     password |-> req[r].password, subject |-> req[r].subject]
  <2>1. granted' = granted \cup {new} /\ UNCHANGED <<account, identity>> /\ Leave(r)
    BY <1>6 DEF Issue
  <2>2. OwnWay(new)
    BY DEF WayInv, OwnWay
  <2> HIDE DEF new
  <2>3. /\ \A q \in Requests \ {r} : req'[q] = req[q]
        /\ OwnWay(req[r])' /\ req'[r].at # "link"
    BY <2>1, <1>n, <1>t DEF OwnWay
  <2> QED BY <2>1, <2>2, <2>3, <1>m DEF WayInv, OwnWay, MadeFor
<1>7. ASSUME NEW r \in Requests, ServingOne(r) PROVE WayInv'
  BY <1>2, <1>4, <1>5, <1>6, <1>7
<1>8. \/ UNCHANGED vars \/ Window \/ \E r \in Requests : ServingOne(r)
      \/ \E r \in Requests : \E k : Arrive(r, k) /\ OwnWay(k) /\ k.at # "link"
  BY OwnArrivals, Zenon DEF Next, ServingOne
<1> QED BY <1>0, <1>w, <1>1, <1>7, <1>8

\* Who shows one way in gets the account it belongs to.
LEMMA WaysApart ==
  ASSUME TypeOK, GroundInv, WayInv
  PROVE  SessionsEarned
<1> SUFFICES ASSUME NEW g \in granted
             PROVE  /\ \E a \in account : a.id = g.user
                    /\ \A a \in account : a.id = g.user => Opens(g, a)
  BY DEF SessionsEarned
<1>1. PICK b \in account :
        /\ b.id = g.user
        /\ \/ g.password # None /\ b.email = g.email /\ b.password = g.password
           \/ <<g.subject, b.id>> \in identity
  BY DEF GroundInv, Entitled
<1>2. \A a \in account : a.id = g.user => a = b
  BY <1>1 DEF WayInv
<1>3. CASE g.password # None /\ b.email = g.email /\ b.password = g.password
  BY <1>1, <1>2, <1>3 DEF WayInv, OwnWay, Opens
<1>4. CASE <<g.subject, b.id>> \in identity
  <2>1. g.subject # None
    BY <1>4, AccountsAssumption DEF TypeOK
  <2>2. MadeFor(b.id, g.subject)
    BY <1>4 DEF WayInv
  <2>3. Opens(g, b)
    BY <1>4, <2>1, <2>2 DEF MadeFor, WayInv, Opens
  <2> QED BY <1>1, <1>2, <2>3
<1> QED BY <1>1, <1>3, <1>4

-----------------------------------------------------------------------------

IInv == TypeOK /\ ClaimInv /\ MarkInv /\ GroundInv /\ FactorsProved /\ CounterExpires
        /\ WayInv

LEMMA Inductive == Spec => []IInv
<1>1. Init => IInv
  <2> SUFFICES ASSUME Init PROVE IInv
    OBVIOUS
  <2>1. Nobody \in Request /\ Nobody.at = "idle"
    BY AccountsAssumption DEF Nobody, Request, Points
  <2>2. TypeOK
    <3>1. /\ \A r \in Requests : req[r].at = "idle"
          /\ req \in [Requests -> Request] /\ factor \in [Ids -> Factor \cup {None}]
      BY <2>1 DEF Init
    <3>2. secrets \in 0..MaxSecrets /\ begun \in 0..MaxRequests /\ hits \in Nat
      BY AccountsAssumption DEF Init
    <3> QED BY <3>1, <3>2 DEF Init, TypeOK
  <2>3. ClaimInv /\ MarkInv /\ GroundInv /\ FactorsProved
    BY <2>1 DEF Init, ClaimInv, MarkInv, GroundInv, FactorsProved
  <2>4. CounterExpires
    BY DEF Init, CounterExpires
  <2>5. WayInv
    BY DEF Init, WayInv, OwnWay, Nobody
  <2> QED BY <2>2, <2>3, <2>4, <2>5 DEF IInv
<1>2. IInv /\ [Next]_vars => IInv'
  BY TypeStep, ClaimStep, MarkStep, EarnedStep, FactorStep, CounterStep, WayStep DEF IInv
<1> QED BY <1>1, <1>2, PTL DEF Spec

\* The tables, the limiter and every request in flight keep their types.
THEOREM AccountsTyped == Spec => []TypeOK
<1>1. IInv => TypeOK
  BY DEF IInv
<1> QED BY <1>1, Inductive, PTL

\* However the sign-ups, log-ins and first log-ins by a provider interleave and
\* fail, a session is for the account its request showed the way into: never
\* does a provider's user get into one with a password or for another e-mail.
THEOREM EverySessionIsEarned == Spec => []SessionsEarned
<1>1. IInv => SessionsEarned
  BY WaysApart DEF IInv
<1> QED BY <1>1, Inductive, PTL

\* A factor that is on had its secret proved, but for a user who enrolled
\* again in the middle of a verification.
THEOREM EveryFactorIsProved == Spec => []FactorsProved
<1>1. IInv => FactorsProved
  BY DEF IInv
<1> QED BY <1>1, Inductive, PTL

\* The limiter's counter has a TTL, or its first hit is still to set it, or
\* the server lost that EXPIRE: nobody else is denied for ever.
THEOREM CountersExpire == Spec => []CounterExpires
<1>1. IInv => CounterExpires
  BY DEF IInv
<1> QED BY <1>1, Inductive, PTL
=============================================================================
