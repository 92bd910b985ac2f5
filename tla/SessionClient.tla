--------------------------- MODULE SessionClient ---------------------------
(***************************************************************************)
(* The session on one device, against the server of AuthSessions: the      *)
(* token storage, the use cases of auth_domain, the 401 interceptor of     *)
(* core_networking and its token source in auth_data.                      *)
(*                                                                         *)
(* A call is one asynchronous operation of the app. Dart runs one of them  *)
(* at a time between two awaits, so an action here is the code from one    *)
(* await to the next; storage and network are awaited. An API request      *)
(* other than those of AuthSessions is answered in one step: 401 when it   *)
(* carries no access token or an expired one.                              *)
(***************************************************************************)
EXTENDS AuthSessions

CONSTANT Mixes    \* which operations the calls are: a set of [Calls -> Kinds]

Kinds == {"request", "restore", "logIn", "signUp", "logOut", "logoutAll"}

ASSUME MixesAssumption == Mixes \subseteq [Calls -> Kinds]

VARIABLES
    kind,      \* what each call is
    pc,        \* where it is
    sent,      \* the access token its request carries, 0 for none
    held,      \* the pair a login has been given and not yet saved
    stored,    \* TokenStorage: the pair, 0 when empty
    stale,     \* access tokens that have expired
    app,       \* AuthSessionNotifier: "off" (no process), "busy", "out", "in"
    faulty,    \* history: something failed, expired or was revoked
    overlapped \* history: two refreshes of the device were in flight at once

sessionVars == <<pc, sent, held, stored, app>>
excuseVars == <<faulty, overlapped>>
vars == <<authVars, kind, sessionVars, stale, excuseVars>>

Ended == {"ok", "failed"}
Refreshing == {"refreshing", "restoring"}
Goto(c, where) == pc' = [pc EXCEPT ![c] = where]

\* The app is not running, or shows the sign-in screen, or an open session.
Init ==
    /\ kind \in Mixes
    /\ \E n \in {0, 1} : AuthInit(n)
    /\ stored = issued
    /\ app \in IF stored = 0 THEN {"off", "out"} ELSE {"off", "in"}
    /\ pc = [c \in Calls |-> "idle"]
    /\ sent = [c \in Calls |-> 0]
    /\ held = [c \in Calls |-> 0]
    /\ stale \in SUBSET Stored
    /\ faulty = FALSE
    /\ overlapped = FALSE

Post(c, operation, t, where) ==
    /\ Receive(c, operation, t)
    /\ Goto(c, where)

\* POST /v1/auth/refresh with what the storage holds now.
PostRefresh(c, where) ==
    /\ Post(c, "refresh", stored, where)
    /\ overlapped' = (overlapped \/ \E d \in Calls \ {c} : pc[d] \in Refreshing)

-----------------------------------------------------------------------------
(* Use cases begin. The screens offer one session operation at a time.     *)

BeginRequest(c) ==
    /\ kind[c] = "request" /\ pc[c] = "idle"
    /\ app = "in"
    /\ sent' = [sent EXCEPT ![c] = stored]
    /\ Goto(c, "sent")
    /\ UNCHANGED <<authVars, kind, held, stored, app, stale, excuseVars>>

\* RestoreSessionUseCase at startup: nothing stored, a pair to renew first
\* (isExpired looks at the device's clock, half a minute ahead), or a pair
\* to use as it is.
BeginRestore(c) ==
    /\ kind[c] = "restore" /\ pc[c] = "idle"
    /\ app = "off"
    /\ \/ /\ stored = 0
          /\ app' = "out"
          /\ Goto(c, "ok")
          /\ UNCHANGED <<authVars, sent, overlapped>>
       \/ /\ stored # 0
          /\ app' = "busy"
          /\ PostRefresh(c, "restoring")
          /\ UNCHANGED sent
       \/ /\ stored # 0
          /\ app' = "busy"
          /\ sent' = [sent EXCEPT ![c] = stored]
          /\ Goto(c, "sent")
          /\ UNCHANGED <<authVars, overlapped>>
    /\ UNCHANGED <<kind, held, stored, stale, faulty>>

BeginLogIn(c) ==
    /\ kind[c] \in {"logIn", "signUp"} /\ pc[c] = "idle"
    /\ app = "out"
    /\ app' = "busy"
    /\ Post(c, "login", 0, "posted")
    /\ UNCHANGED <<kind, sent, held, stored, stale, excuseVars>>

\* Variant: the logout is posted without looking whether there is a token.
LogOutBlindly(c) ==
    /\ kind[c] = "logOut" /\ pc[c] = "idle"
    /\ app = "in"
    /\ faulty' = TRUE
    /\ app' = "busy"
    /\ Post(c, "logout", stored, "posted")
    /\ UNCHANGED <<kind, sent, held, stored, stale, overlapped>>

BeginLogOut(c) ==
    /\ kind[c] = "logOut" /\ pc[c] = "idle"
    /\ app = "in"
    /\ faulty' = TRUE
    /\ IF stored = 0
       THEN /\ app' = "out"
            /\ Goto(c, "ok")
            /\ UNCHANGED authVars
       ELSE /\ app' = "busy"
            /\ Post(c, "logout", stored, "posted")
    /\ UNCHANGED <<kind, sent, held, stored, stale, overlapped>>

\* POST /v1/auth/logout-all, which no screen of this app sends: another
\* client of the same user.
BeginLogoutAll(c) ==
    /\ kind[c] = "logoutAll" /\ pc[c] = "idle"
    /\ faulty' = TRUE
    /\ Post(c, "logoutAll", 0, "ok")
    /\ UNCHANGED <<kind, sent, held, stored, app, stale, overlapped>>

-----------------------------------------------------------------------------
(* An authenticated request of a use case ends well, or badly.             *)

Succeed(c) ==
    /\ Goto(c, "ok")
    /\ stored' = IF kind[c] = "logIn" THEN held[c] ELSE stored
    /\ app' = IF kind[c] = "request" THEN app ELSE "in"

Fail(c) ==
    /\ Goto(c, "failed")
    /\ stored' = IF kind[c] = "restore" THEN 0 ELSE stored
    /\ app' = IF kind[c] = "request" THEN app ELSE "out"

Accepted(c) ==
    /\ pc[c] \in {"sent", "resent"}
    /\ sent[c] \notin stale \cup {0}
    /\ Succeed(c)
    /\ UNCHANGED <<authVars, kind, sent, held, stale, excuseVars>>

\* Any failure other than a 401, retries of a GET included.
RequestFails(c) ==
    /\ pc[c] \in {"sent", "resent"}
    /\ Fail(c)
    /\ faulty' = TRUE
    /\ UNCHANGED <<authVars, kind, sent, held, stale, overlapped>>

\* AuthInterceptor.onError: 401, and the storage is read again.
Unauthorized(c) ==
    /\ pc[c] = "sent"
    /\ sent[c] \in stale \cup {0}
    /\ IF stored = 0
       THEN Fail(c) /\ UNCHANGED <<authVars, overlapped>>
       ELSE PostRefresh(c, "refreshing") /\ UNCHANGED <<stored, app>>
    /\ UNCHANGED <<kind, sent, held, stale, faulty>>

\* Variant: authRetried is not looked at and the retry repeated.
Forever(c) == Goto(c, "renewed") /\ UNCHANGED <<authVars, stored, app>>
GiveUp(c) == Fail(c) /\ UNCHANGED authVars

\* The retried request is answered 401 too: its token was already old.
UnauthorizedAgain(c) ==
    /\ pc[c] = "resent"
    /\ sent[c] \in stale \cup {0}
    /\ GiveUp(c)
    /\ faulty' = TRUE
    /\ UNCHANGED <<kind, sent, held, stale, overlapped>>

-----------------------------------------------------------------------------
(* Refresh on the device: AuthTokenSourceAdapter and RestoreSession.       *)

SaveOld(c) == given[c]    \* variant: the pair is saved with the old refresh token
Renewed(c) == got[c]

Refreshed(c) ==
    /\ pc[c] \in Refreshing
    /\ answer[c] = "ok"
    /\ stored' = Renewed(c)
    /\ IF pc[c] = "restoring"
       THEN Goto(c, "sent") /\ sent' = [sent EXCEPT ![c] = got[c]]
       ELSE Goto(c, "renewed") /\ UNCHANGED sent
    /\ UNCHANGED <<authVars, kind, held, app, stale, excuseVars>>

\* The retry passes through onRequest again, which looks at the storage.
Resend(c) ==
    /\ pc[c] = "renewed"
    /\ sent' = [sent EXCEPT ![c] = IF stored = 0 THEN got[c] ELSE stored]
    /\ Goto(c, "resent")
    /\ UNCHANGED <<authVars, kind, held, stored, app, stale, excuseVars>>

\* Refused by the server, or unanswered: every AuthException clears.
NotRefreshed(c) ==
    /\ pc[c] \in Refreshing
    /\ answer[c] # "ok"
    /\ stored' = 0
    /\ faulty' = (faulty \/ answer[c] \in {"none", "error"})
    /\ Goto(c, "failed")
    /\ app' = IF kind[c] = "request" THEN app ELSE "out"
    /\ UNCHANGED <<authVars, kind, sent, held, stale, overlapped>>

\* The answer was on its way and is lost.
AnswerLost(c) ==
    /\ pc[c] \in Refreshing
    /\ answer[c] = "ok"
    /\ stored' = 0
    /\ faulty' = TRUE
    /\ Goto(c, "failed")
    /\ app' = IF kind[c] = "request" THEN app ELSE "out"
    /\ UNCHANGED <<authVars, kind, sent, held, stale, overlapped>>

-----------------------------------------------------------------------------
(* Signing in and out.                                                     *)

\* SignUp saves its pair; LogIn asks for /v1/auth/me first.
SignedUp(c) ==
    /\ kind[c] = "signUp" /\ pc[c] = "posted"
    /\ answer[c] = "ok"
    /\ stored' = got[c]
    /\ app' = "in"
    /\ Goto(c, "ok")
    /\ UNCHANGED <<authVars, kind, sent, held, stale, excuseVars>>

LoggedIn(c) ==
    /\ kind[c] = "logIn" /\ pc[c] = "posted"
    /\ answer[c] = "ok"
    /\ held' = [held EXCEPT ![c] = got[c]]
    /\ sent' = [sent EXCEPT ![c] = stored]
    /\ Goto(c, "sent")
    /\ UNCHANGED <<authVars, kind, stored, app, stale, excuseVars>>

NotSignedIn(c) ==
    /\ kind[c] \in {"logIn", "signUp"} /\ pc[c] = "posted"
    /\ Fail(c)
    /\ faulty' = TRUE
    /\ UNCHANGED <<authVars, kind, sent, held, stale, overlapped>>

\* Whatever the server answers, or nothing.
LoggedOut(c) ==
    /\ kind[c] = "logOut" /\ pc[c] = "posted"
    /\ stored' = 0
    /\ app' = "out"
    /\ Goto(c, "ok")
    /\ UNCHANGED <<authVars, kind, sent, held, stale, excuseVars>>

-----------------------------------------------------------------------------

\* The app is killed; what was in flight on the server goes on.
Kill ==
    /\ app # "off"
    /\ app' = "off"
    /\ pc' = [c \in Calls |-> IF pc[c] \in Ended \cup {"idle"} THEN pc[c] ELSE "failed"]
    /\ faulty' = (faulty \/ pc' # pc)
    /\ UNCHANGED <<authVars, kind, sent, held, stored, stale, overlapped>>

\* Only the expiry of a pair the device still uses can be noticed.
InUse(t) == t = stored \/ \E c \in Calls : pc[c] \notin Ended /\ t \in {sent[c], given[c], got[c]}

Expire(t) ==
    /\ t \in Stored \ stale
    /\ InUse(t)
    /\ stale' = stale \cup {t}
    /\ UNCHANGED <<authVars, kind, sessionVars, excuseVars>>

Begin(c) == \/ BeginRequest(c)
            \/ BeginRestore(c)
            \/ BeginLogIn(c)
            \/ BeginLogOut(c)
            \/ BeginLogoutAll(c)

Continue(c) == \/ Accepted(c)
               \/ RequestFails(c)
               \/ Unauthorized(c)
               \/ UnauthorizedAgain(c)
               \/ Refreshed(c)
               \/ Resend(c)
               \/ NotRefreshed(c)
               \/ AnswerLost(c)
               \/ SignedUp(c)
               \/ LoggedIn(c)
               \/ NotSignedIn(c)
               \/ LoggedOut(c)

\* Faults of the server, and a refresh token that outlived refreshTTL.
ServerFault == \/ \E c \in Calls : HandlerFails(c)
               \/ \E t \in Tokens : InUse(t) /\ Lapse(t)

Next == \/ \E c \in Calls : Begin(c) \/ Continue(c)
        \/ \E c \in Calls : Handle(c) /\ UNCHANGED <<kind, sessionVars, stale, excuseVars>>
        \/ ServerFault /\ faulty' = TRUE /\ UNCHANGED <<kind, sessionVars, stale, overlapped>>
        \/ \E t \in Tokens : Expire(t)
        \/ Kill

\* A call that has begun goes on: the client's receive timeout answers what
\* the server does not.
Spec == Init /\ [][Next]_vars
FairSpec == Spec /\ \A c \in Calls : WF_vars(Continue(c))

-----------------------------------------------------------------------------
(* Properties.                                                             *)

\* Every variable keeps its type, and a login holds a pair only if the server
\* stored it.
TypeOK ==
    /\ AuthTypeOK
    /\ kind \in Mixes
    /\ pc \in [Calls -> {"idle", "sent", "refreshing", "restoring", "renewed",
                         "resent", "posted", "ok", "failed"}]
    /\ sent \in [Calls -> 0..issued]
    /\ held \in [Calls -> 0..issued]
    /\ stored \in 0..issued
    /\ stale \subseteq Stored
    /\ app \in {"off", "busy", "out", "in"}
    /\ faulty \in BOOLEAN /\ overlapped \in BOOLEAN

\* While refreshes do not overlap and nothing fails, expires or is revoked, an
\* open session's stored token is the live end of its chain, or the call that
\* is replacing it is still under way (refreshAccessToken against Refresh).
SoleRefresherStaysSignedIn ==
    ~faulty /\ ~overlapped /\ app = "in" =>
        \/ Live(stored)
        \/ \E c \in Calls : pc[c] \in Refreshing /\ given[c] = stored

\* A call ends: at most one refresh and one retry per request, so that a
\* server that keeps answering 401 does not keep the client going
\* (authRetried in AuthInterceptor).
EveryCallEnds == \A c \in Calls : pc[c] # "idle" ~> pc[c] \in Ended

\* The device asks of the server only what AuthSessions assumes of any client:
\* it presents tokens that were stored, one request per call at a time.
ServerSpec == AuthSpec

=============================================================================
