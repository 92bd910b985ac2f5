---------------------------- MODULE AuthSessions ----------------------------
(***************************************************************************)
(* Refresh tokens on the server (internal/auth/service.go and the table    *)
(* refresh_tokens of internal/auth/postgres/repo.go), for one user.        *)
(*                                                                         *)
(* A handler runs one operation for one call: Refresh, Login or SignUp,    *)
(* Logout, LogoutAll. Every statement it sends to Postgres is an action,   *)
(* none is in a transaction with another, and each may fail. A token is    *)
(* the number of its row, in order of insertion; 0 is no token. The access *)
(* token issued with it has the same number.                               *)
(***************************************************************************)
EXTENDS Naturals, FiniteSets

CONSTANTS
    Calls,     \* requests, each served by a handler of its own
    MaxTokens  \* bound: rows of refresh_tokens

ASSUME MaxTokensAssumption == MaxTokens \in Nat \ {0}

Tokens == 1..MaxTokens

VARIABLES
    issued,      \* rows stored: 1..issued
    revoked,     \* rows whose revoked_at is set
    replacedBy,  \* the column replaced_by, 0 while NULL
    lapsed,      \* rows whose expires_at has passed
    srv,         \* the next statement of each handler
    given,       \* the refresh token presented to it
    got,         \* the token it has stored
    answer,      \* what it answered
    ended,       \* history: rows a logout or a mass revocation ended
    redeemed,    \* history: rows whose rotation was answered with a new pair
    spent,       \* history: the token was redeemed or ended when presented
    before       \* history: rows there were when the request arrived

tableVars == <<issued, revoked, replacedBy, lapsed>>
handlerVars == <<srv, given, got, answer>>
authHistVars == <<ended, redeemed, spent, before>>
authVars == <<tableVars, handlerVars, authHistVars>>

Stored == 1..issued
Live(t) == t \in Stored \ (revoked \cup lapsed)

\* The table holds the sessions of earlier logins.
AuthInit(n) ==
    /\ issued = n
    /\ revoked = {}
    /\ replacedBy = [t \in Tokens |-> 0]
    /\ lapsed = {}
    /\ srv = [c \in Calls |-> "none"]
    /\ given = [c \in Calls |-> 0]
    /\ got = [c \in Calls |-> 0]
    /\ answer = [c \in Calls |-> "none"]
    /\ ended = {}
    /\ redeemed = {}
    /\ spent = [c \in Calls |-> FALSE]
    /\ before = [c \in Calls |-> 0]

\* A request arrives, with the refresh token t in its body.
Receive(c, operation, t) ==
    /\ srv' = [srv EXCEPT ![c] = operation]
    /\ given' = [given EXCEPT ![c] = t]
    /\ got' = [got EXCEPT ![c] = 0]
    /\ answer' = [answer EXCEPT ![c] = "none"]
    /\ spent' = [spent EXCEPT ![c] = t \in redeemed \cup ended]
    /\ before' = [before EXCEPT ![c] = issued]
    /\ UNCHANGED <<tableVars, ended, redeemed>>

Unwritten(c, a) == srv' = [srv EXCEPT ![c] = "answered"] /\ UNCHANGED answer  \* variant: no response is written

Answer(c, a) ==
    /\ srv' = [srv EXCEPT ![c] = "answered"]
    /\ answer' = [answer EXCEPT ![c] = a]

-----------------------------------------------------------------------------
(* Refresh: GetByHash, then one of four branches on the row just read.     *)

FindReused(c) ==
    /\ srv[c] = "refresh"
    /\ replacedBy[given[c]] # 0
    /\ srv' = [srv EXCEPT ![c] = "reuse"]
    /\ UNCHANGED <<tableVars, given, got, answer, authHistVars>>

\* Revoked without a successor, or expired.
FindRefused(c) ==
    /\ srv[c] = "refresh"
    /\ replacedBy[given[c]] = 0
    /\ ~Live(given[c])
    /\ Answer(c, "denied")
    /\ UNCHANGED <<tableVars, given, got, authHistVars>>

FindUsable(c) ==
    /\ srv[c] = "refresh"
    /\ replacedBy[given[c]] = 0
    /\ Live(given[c])
    /\ srv' = [srv EXCEPT ![c] = "store"]
    /\ UNCHANGED <<tableVars, given, got, answer, authHistVars>>

\* issueTokens: the new row is in the table before the old one is marked.
Store(c) ==
    /\ srv[c] = "store"
    /\ issued < MaxTokens
    /\ issued' = issued + 1
    /\ got' = [got EXCEPT ![c] = issued + 1]
    /\ srv' = [srv EXCEPT ![c] = "mark"]
    /\ UNCHANGED <<revoked, replacedBy, lapsed, given, answer, authHistVars>>

Unmarked(old, new) == UNCHANGED <<replacedBy, revoked>>  \* variant: MarkReplaced left out

\* Variant: the arguments of MarkReplaced in the other order.
Swapped(old, new) ==
    /\ replacedBy' = [replacedBy EXCEPT ![new] = old]
    /\ revoked' = revoked \cup {new}

\* The statement has no condition: an older replaced_by is overwritten.
Replace(old, new) ==
    /\ replacedBy' = [replacedBy EXCEPT ![old] = new]
    /\ revoked' = revoked \cup {old}

MarkReplaced(c) ==
    /\ srv[c] = "mark"
    /\ Replace(given[c], got[c])
    /\ redeemed' = redeemed \cup {given[c]}
    /\ Answer(c, "ok")
    /\ UNCHANGED <<issued, lapsed, given, got, ended, spent, before>>

-----------------------------------------------------------------------------
(* Login and SignUp (issueSession), Logout, LogoutAll.                     *)

IssueSession(c) ==
    /\ srv[c] = "login"
    /\ issued < MaxTokens
    /\ issued' = issued + 1
    /\ got' = [got EXCEPT ![c] = issued + 1]
    /\ Answer(c, "ok")
    /\ UNCHANGED <<revoked, replacedBy, lapsed, given, authHistVars>>

Logout(c) ==
    /\ srv[c] = "logout"
    /\ revoked' = revoked \cup {given[c]}
    /\ ended' = ended \cup {given[c]}
    /\ Answer(c, "ok")
    /\ UNCHANGED <<issued, replacedBy, lapsed, given, got, redeemed, spent, before>>

OnlyGiven(c) == Stored \cap {given[c]}    \* variant: the presented token alone
OfUser(c) == Stored

\* RevokeAllForUser, for LogoutAll and after a reuse.
RevokeAllForUser(c) ==
    /\ srv[c] \in {"reuse", "logoutAll"}
    /\ revoked' = revoked \cup OfUser(c)
    /\ ended' = ended \cup OfUser(c)
    /\ Answer(c, IF srv[c] = "reuse" THEN "reused" ELSE "allOut")
    /\ UNCHANGED <<issued, replacedBy, lapsed, given, got, redeemed, spent, before>>

-----------------------------------------------------------------------------

\* A statement fails, or the credentials of a login are refused: the
\* statements before it stay done.
HandlerFails(c) ==
    /\ srv[c] \notin {"none", "answered"}
    /\ Answer(c, "error")
    /\ UNCHANGED <<tableVars, given, got, authHistVars>>

\* refreshTTL has passed since the token was issued.
Lapse(t) ==
    /\ t \in Stored \ lapsed
    /\ lapsed' = lapsed \cup {t}
    /\ UNCHANGED <<issued, revoked, replacedBy, handlerVars, authHistVars>>

Handle(c) == \/ FindReused(c)
             \/ FindRefused(c)
             \/ FindUsable(c)
             \/ Store(c)
             \/ MarkReplaced(c)
             \/ IssueSession(c)
             \/ Logout(c)
             \/ RevokeAllForUser(c)

\* A request, of a client that has had its answer or has given up on it.
Arrive(c) ==
    /\ srv[c] \in {"none", "answered"}
    /\ \/ \E op \in {"refresh", "logout"}, t \in Stored : Receive(c, op, t)
       \/ \E op \in {"login", "logoutAll"} : Receive(c, op, 0)

AuthNext == \/ \E c \in Calls : Arrive(c) \/ Handle(c) \/ HandlerFails(c)
            \/ \E t \in Tokens : Lapse(t)

\* The server on its own, with clients that send anything.
AuthSpec == (\E n \in 0..MaxTokens : AuthInit(n)) /\ [][AuthNext]_authVars

-----------------------------------------------------------------------------
(* Properties.                                                             *)

AuthTypeOK ==
    /\ issued \in 0..MaxTokens
    /\ revoked \subseteq Stored /\ lapsed \subseteq Stored
    /\ replacedBy \in [Tokens -> 0..issued]
    /\ srv \in [Calls -> {"none", "refresh", "reuse", "store", "mark", "login",
                          "logout", "logoutAll", "answered"}]
    /\ given \in [Calls -> 0..issued]
    /\ got \in [Calls -> 0..issued]
    /\ answer \in [Calls -> {"none", "ok", "denied", "reused", "allOut", "error"}]
    /\ \A c \in Calls : srv[c] = "answered" <=> answer[c] # "none"
    /\ ended \subseteq revoked /\ redeemed \subseteq Stored
    /\ spent \in [Calls -> BOOLEAN]
    /\ before \in [Calls -> 0..issued]

\* A rotation that stops half way strands nobody: a row is only ever revoked
\* by a logout, by a mass revocation, or once a later row that replaces it is
\* in the table (Refresh stores the new pair before MarkReplaced).
RotationNeverStrands ==
    \A t \in revoked \ ended : replacedBy[t] \in Stored /\ replacedBy[t] > t

\* A refresh token that had been redeemed, logged out or revoked with all the
\* others when it was presented buys nothing, whatever else is in progress
\* (the ReplacedBy and RevokedAt checks of Refresh).
DeadStaysDead == \A c \in Calls : spent[c] => answer[c] # "ok" \/ got[c] = 0

\* When a handler answers that all sessions are revoked, every session there
\* was when its request arrived is revoked, and stays so (Refresh on reuse,
\* LogoutAll).
RevocationIsComplete ==
    \A c \in Calls : answer[c] \in {"reused", "allOut"} => 1..before[c] \subseteq revoked

=============================================================================
