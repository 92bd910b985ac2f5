------------------------------ MODULE Accounts ------------------------------
(***************************************************************************)
(* The ways into an account: sign-up, log-in by password or by a provider, *)
(* the limit on them for one client address, and the second factor.  Each  *)
(* action is one statement or Redis command of a handler; the refresh      *)
(* tokens a session consists of are in AuthSessions.                       *)
(***************************************************************************)
EXTENDS Integers

CONSTANTS
  Requests,           \* requests in flight at once
  Emails, Passwords,
  Subjects, EmailOf,  \* the providers' users and the e-mail each one reports
  Limit,              \* LoginRateLimitPerMinute
  None,               \* no password, no subject, no factor
  MaxAccounts, MaxSecrets, MaxRequests  \* bounds

ASSUME AccountsAssumption ==
  /\ None \notin Passwords \cup Subjects
  /\ EmailOf \in [Subjects -> Emails]
  /\ {Limit, MaxAccounts, MaxSecrets, MaxRequests} \subseteq Nat

Ids == 1..MaxAccounts

VARIABLES
  account,   \* rows of users
  identity,  \* rows of user_auth_identities: <<subject, user>>
  factor,    \* user_mfa_totp: each user's secret, and whether verified_at is set
  secrets,   \* TOTP secrets generated
  hits,      \* the counter of the client's address, 0 when there is no key
  armed,     \* the key has a TTL
  req,       \* each request
  begun,     \* requests begun
  granted,   \* history: sessions issued, with what their request showed
  proved,    \* history: secrets a code of which was accepted
  crossed,   \* history: users enrolled again between a verification's statements
  stuck      \* history: the TTL was not set after the first hit

tables == <<account, identity, factor, secrets>>
limiter == <<hits, armed, stuck>>
history == <<granted, proved, crossed>>
vars == <<tables, limiter, req, begun, history>>

\* What a request shows: e-mail and password, or a subject, or who it is
\* (its access token) and a code, which is known by its secret.
Nobody == [at |-> "idle", kind |-> "login", email |-> None, password |-> None,
           subject |-> None, user |-> 0, code |-> 0]

Init ==
  /\ account = {} /\ identity = {} /\ factor = [u \in Ids |-> None] /\ secrets = 0
  /\ hits = 0 /\ armed = FALSE /\ stuck = FALSE
  /\ req = [r \in Requests |-> Nobody] /\ begun = 0
  /\ granted = {} /\ proved = {} /\ crossed = {}

Goto(r, p) == req' = [req EXCEPT ![r].at = p]
Leave(r) == req' = [req EXCEPT ![r] = Nobody]

Arrive(r, shown) ==
  /\ req[r].at = "idle" /\ begun < MaxRequests /\ begun' = begun + 1
  /\ req' = [req EXCEPT ![r] = shown]
  /\ UNCHANGED <<tables, limiter, history>>

SignUp(r, e, p) ==
  Arrive(r, [Nobody EXCEPT !.at = "limit", !.kind = "signup", !.email = e, !.password = p])
LogIn(r, e, p) ==
  Arrive(r, [Nobody EXCEPT !.at = "limit", !.kind = "login", !.email = e, !.password = p])
LoginWithOAuth(r, s) ==
  Arrive(r, [Nobody EXCEPT !.at = "limit", !.kind = "oauth", !.email = EmailOf[s], !.subject = s])

-----------------------------------------------------------------------------
(* RateLimit and Allow: INCR, then EXPIRE by whoever counted to one *)

NoHit(n) == n = 0
FirstHit(n) == n = 1

Count(r) ==
  /\ req[r].at = "limit"
  /\ hits' = hits + 1
  /\ IF FirstHit(hits') THEN Goto(r, "arm")
     ELSE IF hits' <= Limit THEN Goto(r, req[r].kind) ELSE Leave(r)
  /\ UNCHANGED <<tables, armed, stuck, begun, history>>

Arm(r) ==
  /\ req[r].at = "arm"
  /\ armed' = TRUE
  /\ IF 1 <= Limit THEN Goto(r, req[r].kind) ELSE Leave(r)
  /\ UNCHANGED <<tables, hits, stuck, begun, history>>

\* An error of the limiter lets the request through; a crash does not.
LimiterFails(r) ==
  /\ req[r].at \in {"limit", "arm"}
  /\ Goto(r, req[r].kind)
  /\ stuck' = (stuck \/ req[r].at = "arm")
  /\ UNCHANGED <<tables, hits, armed, begun, history>>

\* The key expires.
Window ==
  /\ armed /\ armed' = FALSE /\ hits' = 0
  /\ UNCHANGED <<tables, stuck, req, begun, history>>

-----------------------------------------------------------------------------
(* SignUp, Login, LoginWithOAuth *)

\* users.email is UNIQUE, and citext.
Taken(e) == \E a \in account : a.email = e

CreateUser(r, then) ==
  \E u \in Ids :
    /\ \A a \in account : a.id # u
    /\ account' = account \cup
         {[id |-> u, email |-> req[r].email, password |-> req[r].password]}
    /\ req' = [req EXCEPT ![r].at = then, ![r].user = u]

Create(r) ==
  /\ req[r].at = "signup"
  /\ \/ Taken(req[r].email) /\ Leave(r) /\ UNCHANGED account
     \/ ~Taken(req[r].email) /\ CreateUser(r, "issue")
  /\ UNCHANGED <<identity, factor, secrets, limiter, begun, history>>

\* GetByEmail and the check of the password; an account of a provider has none.
CheckPassword(r) ==
  /\ req[r].at = "login"
  /\ \/ /\ \E a \in account :
             /\ a.email = req[r].email /\ a.password = req[r].password
             /\ req' = [req EXCEPT ![r].at = "issue", ![r].user = a.id]
     \/ /\ \A a \in account : a.email # req[r].email \/ a.password # req[r].password
        /\ Leave(r)
  /\ UNCHANGED <<tables, limiter, begun, history>>

\* A find-or-create that went by the e-mail would join a stranger's account.
LinkedOrNamed(k) == {a.id : a \in {b \in account : <<k.subject, b.id>> \in identity
                                                      \/ b.email = k.email}}
Linked(k) == {a.id : a \in {b \in account : <<k.subject, b.id>> \in identity}}

\* The verifier may refuse the provider's token; the one wired in main always
\* does, and what follows is for one that does not.
FindIdentity(r) ==
  /\ req[r].at = "oauth"
  /\ \/ Leave(r)
     \/ \E u \in Linked(req[r]) : req' = [req EXCEPT ![r].at = "issue", ![r].user = u]
     \/ Linked(req[r]) = {} /\ Goto(r, "provision")
  /\ UNCHANGED <<tables, limiter, begun, history>>

Provision(r) ==
  /\ req[r].at = "provision"
  /\ \/ Taken(req[r].email) /\ Leave(r) /\ UNCHANGED account
     \/ ~Taken(req[r].email) /\ CreateUser(r, "link")
  /\ UNCHANGED <<identity, factor, secrets, limiter, begun, history>>

\* (provider, provider_user_id) is UNIQUE.
Link(r) ==
  /\ req[r].at = "link"
  /\ IF \E i \in identity : i[1] = req[r].subject THEN Leave(r) /\ UNCHANGED identity
     ELSE identity' = identity \cup {<<req[r].subject, req[r].user>>} /\ Goto(r, "issue")
  /\ UNCHANGED <<account, factor, secrets, limiter, begun, history>>

\* issueSession: the device's row, then the refresh token's.
Issue(r) ==
  /\ req[r].at = "issue"
  /\ granted' = granted \cup {[user |-> req[r].user, email |-> req[r].email,
                               password |-> req[r].password, subject |-> req[r].subject]}
  /\ Leave(r)
  /\ UNCHANGED <<tables, limiter, begun, proved, crossed>>

-----------------------------------------------------------------------------
(* EnrollMFA, VerifyMFA *)

AskEnroll(r, u) == Arrive(r, [Nobody EXCEPT !.at = "enroll", !.kind = "mfa", !.user = u])
AskVerify(r, u, s) ==
  Arrive(r, [Nobody EXCEPT !.at = "verify", !.kind = "mfa", !.user = u, !.code = s])

\* An upsert that left verified_at alone.
Rekeyed(f, s) == [secret |-> s, on |-> f # None /\ f.on]
Enrolled(f, s) == [secret |-> s, on |-> FALSE]

Enroll(r) ==
  /\ req[r].at = "enroll" /\ secrets < MaxSecrets
  /\ secrets' = secrets + 1
  /\ factor' = [factor EXCEPT ![req[r].user] = Enrolled(@, secrets')]
  /\ crossed' = crossed \cup
       {req[q].user : q \in {p \in Requests : req[p].at = "mark" /\ req[p].user = req[r].user}}
  /\ Leave(r)
  /\ UNCHANGED <<account, identity, limiter, begun, granted, proved>>

\* Get and the check of the code; codes of any secret ever shown may come.
Verify(r) ==
  LET f == factor[req[r].user]
  IN /\ req[r].at = "verify"
     /\ IF f = None \/ f.secret # req[r].code THEN Leave(r) /\ UNCHANGED proved
        ELSE /\ proved' = proved \cup {f.secret}
             /\ IF f.on THEN Leave(r) ELSE Goto(r, "mark")
     /\ UNCHANGED <<tables, limiter, begun, granted, crossed>>

\* The update names the user, not the secret that was read.
MarkVerified(r) ==
  /\ req[r].at = "mark"
  /\ factor' = [factor EXCEPT ![req[r].user].on = TRUE]
  /\ Leave(r)
  /\ UNCHANGED <<account, identity, secrets, limiter, begun, history>>

\* A statement fails or the server crashes: what was done stays done.
Fail(r) ==
  /\ req[r].at # "idle"
  /\ Leave(r)
  /\ stuck' = (stuck \/ req[r].at = "arm")
  /\ UNCHANGED <<tables, hits, armed, begun, history>>

Limiting(r) == Count(r) \/ Arm(r) \/ LimiterFails(r)
Serve(r) == \/ Create(r) \/ CheckPassword(r) \/ FindIdentity(r) \/ Provision(r)
            \/ Link(r) \/ Issue(r) \/ Enroll(r) \/ Verify(r) \/ MarkVerified(r)

Next ==
  \/ \E r \in Requests :
       \/ \E e \in Emails, p \in Passwords : SignUp(r, e, p) \/ LogIn(r, e, p)
       \/ \E s \in Subjects : LoginWithOAuth(r, s)
       \/ \E a \in account : AskEnroll(r, a.id) \/ \E s \in 0..secrets : AskVerify(r, a.id, s)
       \/ Limiting(r) \/ Serve(r) \/ Fail(r)
  \/ Window

\* A handler goes on, and Redis ends a key's TTL.
Spec == Init /\ [][Next]_vars /\ WF_vars(Window) /\ \A r \in Requests : WF_vars(Limiting(r))

-----------------------------------------------------------------------------

Account == [id : Ids, email : Emails, password : Passwords \cup {None}]
Factor == [secret : 1..MaxSecrets, on : BOOLEAN]
Points == {"idle", "limit", "arm", "signup", "login", "oauth", "provision", "link",
           "issue", "enroll", "verify", "mark"}
Request == [at : Points, kind : {"signup", "login", "oauth", "mfa"},
            email : Emails \cup {None}, password : Passwords \cup {None},
            subject : Subjects \cup {None}, user : Ids \cup {0}, code : 0..MaxSecrets]

\* Types; a request shows what its kind needs.
TypeOK ==
  /\ account \subseteq Account /\ identity \subseteq Subjects \X Ids
  /\ factor \in [Ids -> Factor \cup {None}] /\ secrets \in 0..MaxSecrets
  /\ hits \in Nat /\ armed \in BOOLEAN /\ stuck \in BOOLEAN
  /\ req \in [Requests -> Request] /\ begun \in 0..MaxRequests
  /\ \A r \in Requests :
       /\ req[r].at \in {"limit", "arm"} => req[r].kind # "mfa"
       /\ req[r].at \in {"signup", "login", "oauth"} => req[r].kind = req[r].at
       /\ req[r].at \in {"provision", "link"} => req[r].kind = "oauth"
       /\ req[r].at # "idle" =>
            CASE req[r].kind = "mfa" -> req[r].user \in Ids
              [] req[r].kind = "oauth" -> req[r].email \in Emails /\ req[r].subject \in Subjects
              [] OTHER -> req[r].email \in Emails /\ req[r].password \in Passwords
  /\ \A r \in Requests : req[r].at \in {"enroll", "verify", "mark"} => req[r].kind = "mfa"

\* A session is for the account its request showed the way into, and for no
\* other: a password opens the account it was chosen for alone, and a
\* provider's user the account linked to it, which has no password and the
\* e-mail the provider reports, whatever sign-ups, log-ins and first log-ins by
\* a provider race for an e-mail or stop half-way (SignUp, Login,
\* LoginWithOAuth).
Opens(g, a) ==
  IF g.subject = None THEN g.password # None /\ a.password = g.password /\ a.email = g.email
  ELSE <<g.subject, a.id>> \in identity /\ a.password = None /\ a.email = EmailOf[g.subject]
SessionsEarned ==
  \A g \in granted : /\ \E a \in account : a.id = g.user
                     /\ \A a \in account : a.id = g.user => Opens(g, a)

\* A factor counts only once a code of its secret was accepted; a typo'd or
\* abandoned enrolment never does (TOTPChallenger.Verify). The exception is a
\* user who enrols again while a verification is under way.
FactorsProved ==
  \A u \in Ids \ crossed : factor[u] # None /\ factor[u].on => factor[u].secret \in proved

\* A client that is over the limit is let in again, unless the server lost
\* its EXPIRE after the first hit (RedisRateLimiter.Allow).
DenialsEnd == hits > Limit ~> hits = 0 \/ stuck
=============================================================================
