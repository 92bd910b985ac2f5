------------------------ MODULE SessionClient_proofs ------------------------
(* Refresh tokens, for any number of concurrent requests and of rows: first  *)
(* the server on its own, whatever clients send (types and the three safety  *)
(* properties of the table); then the client against it, whose every step    *)
(* is one the server allows, and which a lone refresh never signs out.       *)
EXTENDS SessionClient, TLAPS

\* Where a rotation stands: the row it read was stored before the one it adds.
RotationInv ==
    \A c \in Calls :
        /\ srv[c] \in {"refresh", "store", "mark", "logout"} => given[c] \in Stored
        /\ srv[c] = "mark" => got[c] \in Stored /\ got[c] > given[c]

\* What has been redeemed or ended is revoked, and a request that presents it
\* never gets past the checks of Refresh.
SpentInv ==
    /\ redeemed \cup ended \subseteq revoked
    /\ \A c \in Calls : spent[c] =>
          /\ given[c] \in revoked
          /\ srv[c] \notin {"store", "mark", "login"}
          /\ got[c] = 0

AuthInv == AuthTypeOK /\ RotationInv /\ SpentInv /\ RotationNeverStrands /\ RevocationIsComplete

-----------------------------------------------------------------------------

\* Every statement of every handler keeps the types.
LEMMA AuthTypeStep == AuthInv /\ [AuthNext]_authVars => AuthTypeOK'
<1> SUFFICES ASSUME AuthInv, [AuthNext]_authVars PROVE AuthTypeOK'
  OBVIOUS
<1> USE MaxTokensAssumption DEF AuthInv, Tokens, Stored, tableVars, handlerVars, authHistVars, AuthTypeOK, Live, RotationInv
<1>1. ASSUME NEW c \in Calls, Arrive(c) PROVE AuthTypeOK'
  <2>1. PICK op \in {"refresh", "logout", "login", "logoutAll"}, t \in 0..issued :
           /\ Receive(c, op, t)
           /\ op \in {"refresh", "logout"} => t \in Stored
           /\ op \notin {"refresh", "logout"} => t = 0
    BY <1>1 DEF Arrive
  <2>2. srv' \in [Calls -> {"none", "refresh", "reuse", "store", "mark", "login",
                          "logout", "logoutAll", "answered"}]
    BY <2>1 DEF Receive
  <2>3. /\ given' \in [Calls -> 0..issued'] /\ got' \in [Calls -> 0..issued']
        /\ before' \in [Calls -> 0..issued']
    BY <2>1 DEF Receive
  <2>4. answer' \in [Calls -> {"none", "ok", "denied", "reused", "allOut", "error"}]
    BY <2>1 DEF Receive
  <2>5. spent' \in [Calls -> BOOLEAN]
    <3>1. spent' = [spent EXCEPT ![c] = t \in redeemed \cup ended]
      BY <2>1 DEF Receive
    <3>2. (t \in redeemed \cup ended) \in BOOLEAN
      OBVIOUS
    <3>3. spent \in [Calls -> BOOLEAN]
      OBVIOUS
    <3> QED BY ONLY <3>1, <3>2, <3>3, Zenon
  <2>6. \A d \in Calls : srv'[d] = "answered" <=> answer'[d] # "none"
    BY <2>1 DEF Receive
  <2>7. UNCHANGED <<tableVars, ended, redeemed>>
    BY <2>1 DEF Receive
  <2> QED BY <2>2, <2>3, <2>4, <2>5, <2>6, <2>7
<1>2. ASSUME NEW c \in Calls, FindReused(c) PROVE AuthTypeOK'
  BY <1>2 DEF FindReused
<1>3. ASSUME NEW c \in Calls, FindRefused(c) PROVE AuthTypeOK'
  BY <1>3 DEF FindRefused, Answer
<1>4. ASSUME NEW c \in Calls, FindUsable(c) PROVE AuthTypeOK'
  BY <1>4 DEF FindUsable
<1>5. ASSUME NEW c \in Calls, Store(c) PROVE AuthTypeOK'
  BY <1>5, SMTT(30) DEF Store
<1>6. ASSUME NEW c \in Calls, MarkReplaced(c) PROVE AuthTypeOK'
  BY <1>6 DEF MarkReplaced, Replace, Answer
<1>7. ASSUME NEW c \in Calls, IssueSession(c) PROVE AuthTypeOK'
  BY <1>7, SMTT(30) DEF IssueSession, Answer
<1>8. ASSUME NEW c \in Calls, Logout(c) PROVE AuthTypeOK'
  BY <1>8 DEF Logout, Answer
<1>9. ASSUME NEW c \in Calls, RevokeAllForUser(c) PROVE AuthTypeOK'
  BY <1>9 DEF RevokeAllForUser, OfUser, Answer
<1>10. ASSUME NEW c \in Calls, HandlerFails(c) PROVE AuthTypeOK'
  BY <1>10 DEF HandlerFails, Answer
<1>11. ASSUME NEW t \in Tokens, Lapse(t) PROVE AuthTypeOK'
  BY <1>11 DEF Lapse
<1>12. CASE UNCHANGED authVars
  BY <1>12 DEF authVars
<1> QED BY <1>1, <1>2, <1>3, <1>4, <1>5, <1>6, <1>7, <1>8, <1>9, <1>10, <1>11, <1>12 DEF AuthNext, Handle

\* A rotation's new row comes after the one it replaces.
LEMMA RotationStep == AuthInv /\ [AuthNext]_authVars => RotationInv'
<1> SUFFICES ASSUME AuthInv, [AuthNext]_authVars PROVE RotationInv'
  OBVIOUS
<1> USE MaxTokensAssumption DEF AuthInv, Tokens, Stored, tableVars, handlerVars, authHistVars, AuthTypeOK, Live, RotationInv
<1>1. ASSUME NEW c \in Calls, Arrive(c) PROVE RotationInv'
  BY <1>1, SMTT(30) DEF Arrive, Receive
<1>2. ASSUME NEW c \in Calls, FindReused(c) PROVE RotationInv'
  BY <1>2 DEF FindReused
<1>3. ASSUME NEW c \in Calls, FindRefused(c) PROVE RotationInv'
  BY <1>3 DEF FindRefused, Answer
<1>4. ASSUME NEW c \in Calls, FindUsable(c) PROVE RotationInv'
  BY <1>4 DEF FindUsable
<1>5. ASSUME NEW c \in Calls, Store(c) PROVE RotationInv'
  BY <1>5 DEF Store
<1>6. ASSUME NEW c \in Calls, MarkReplaced(c) PROVE RotationInv'
  BY <1>6 DEF MarkReplaced, Replace, Answer
<1>7. ASSUME NEW c \in Calls, IssueSession(c) PROVE RotationInv'
  BY <1>7 DEF IssueSession, Answer
<1>8. ASSUME NEW c \in Calls, Logout(c) PROVE RotationInv'
  BY <1>8 DEF Logout, Answer
<1>9. ASSUME NEW c \in Calls, RevokeAllForUser(c) PROVE RotationInv'
  BY <1>9 DEF RevokeAllForUser, OfUser, Answer
<1>10. ASSUME NEW c \in Calls, HandlerFails(c) PROVE RotationInv'
  BY <1>10 DEF HandlerFails, Answer
<1>11. ASSUME NEW t \in Tokens, Lapse(t) PROVE RotationInv'
  BY <1>11 DEF Lapse
<1>12. CASE UNCHANGED authVars
  BY <1>12 DEF authVars
<1> QED BY <1>1, <1>2, <1>3, <1>4, <1>5, <1>6, <1>7, <1>8, <1>9, <1>10, <1>11, <1>12 DEF AuthNext, Handle

\* No statement lets a dead token past the checks, or revives one.
LEMMA SpentStep == AuthInv /\ [AuthNext]_authVars => SpentInv'
<1> SUFFICES ASSUME AuthInv, [AuthNext]_authVars PROVE SpentInv'
  OBVIOUS
<1> USE MaxTokensAssumption DEF AuthInv, Tokens, Stored, tableVars, handlerVars, authHistVars, AuthTypeOK, Live, SpentInv
<1>1. ASSUME NEW c \in Calls, Arrive(c) PROVE SpentInv'
  <2>1. PICK op \in {"refresh", "logout", "login", "logoutAll"}, t \in 0..issued :
           /\ Receive(c, op, t)
           /\ op \in {"refresh", "logout"} => t \in Stored
           /\ op \notin {"refresh", "logout"} => t = 0
    BY <1>1 DEF Arrive
  <2>2. UNCHANGED <<revoked, redeemed, ended>> /\ t \in redeemed \cup ended => t \in Stored
    BY <2>1 DEF Receive
  <2>3. ASSUME NEW d \in Calls, spent'[d], d # c
        PROVE /\ given'[d] \in revoked'
              /\ srv'[d] \notin {"store", "mark", "login"}
              /\ got'[d] = 0
    BY <2>1, <2>3 DEF Receive
  <2>4. ASSUME spent'[c]
        PROVE /\ given'[c] \in revoked'
              /\ srv'[c] \notin {"store", "mark", "login"}
              /\ got'[c] = 0
    <3>1. t \in redeemed \cup ended
      BY <2>1, <2>4, Zenon DEF Receive
    <3>2. t # 0 /\ t \in revoked
      BY <3>1, <2>2
    <3> QED BY <2>1, <3>2 DEF Receive
  <2> QED BY <2>1, <2>3, <2>4 DEF Receive
<1>2. ASSUME NEW c \in Calls, FindReused(c) PROVE SpentInv'
  BY <1>2 DEF FindReused
<1>3. ASSUME NEW c \in Calls, FindRefused(c) PROVE SpentInv'
  BY <1>3 DEF FindRefused, Answer
<1>4. ASSUME NEW c \in Calls, FindUsable(c) PROVE SpentInv'
  BY <1>4 DEF FindUsable
<1>5. ASSUME NEW c \in Calls, Store(c) PROVE SpentInv'
  BY <1>5 DEF Store
<1>6. ASSUME NEW c \in Calls, MarkReplaced(c) PROVE SpentInv'
  BY <1>6 DEF MarkReplaced, Replace, Answer
<1>7. ASSUME NEW c \in Calls, IssueSession(c) PROVE SpentInv'
  BY <1>7 DEF IssueSession, Answer
<1>8. ASSUME NEW c \in Calls, Logout(c) PROVE SpentInv'
  BY <1>8 DEF Logout, Answer
<1>9. ASSUME NEW c \in Calls, RevokeAllForUser(c) PROVE SpentInv'
  BY <1>9 DEF RevokeAllForUser, OfUser, Answer
<1>10. ASSUME NEW c \in Calls, HandlerFails(c) PROVE SpentInv'
  BY <1>10 DEF HandlerFails, Answer
<1>11. ASSUME NEW t \in Tokens, Lapse(t) PROVE SpentInv'
  BY <1>11 DEF Lapse
<1>12. CASE UNCHANGED authVars
  BY <1>12 DEF authVars
<1> QED BY <1>1, <1>2, <1>3, <1>4, <1>5, <1>6, <1>7, <1>8, <1>9, <1>10, <1>11, <1>12 DEF AuthNext, Handle

\* A row is revoked by an ending or together with its successor.
LEMMA StrandStep == AuthInv /\ [AuthNext]_authVars => RotationNeverStrands'
<1> SUFFICES ASSUME AuthInv, [AuthNext]_authVars PROVE RotationNeverStrands'
  OBVIOUS
<1> USE MaxTokensAssumption DEF AuthInv, Tokens, Stored, tableVars, handlerVars, authHistVars, AuthTypeOK, RotationInv, SpentInv, RotationNeverStrands
<1>1. ASSUME NEW c \in Calls, Arrive(c) PROVE RotationNeverStrands'
  BY <1>1 DEF Arrive, Receive
<1>2. ASSUME NEW c \in Calls, FindReused(c) PROVE RotationNeverStrands'
  BY <1>2 DEF FindReused
<1>3. ASSUME NEW c \in Calls, FindRefused(c) PROVE RotationNeverStrands'
  BY <1>3 DEF FindRefused, Answer
<1>4. ASSUME NEW c \in Calls, FindUsable(c) PROVE RotationNeverStrands'
  BY <1>4 DEF FindUsable
<1>5. ASSUME NEW c \in Calls, Store(c) PROVE RotationNeverStrands'
  BY <1>5 DEF Store
<1>6. ASSUME NEW c \in Calls, MarkReplaced(c) PROVE RotationNeverStrands'
  BY <1>6 DEF MarkReplaced, Replace, Answer
<1>7. ASSUME NEW c \in Calls, IssueSession(c) PROVE RotationNeverStrands'
  BY <1>7 DEF IssueSession, Answer
<1>8. ASSUME NEW c \in Calls, Logout(c) PROVE RotationNeverStrands'
  BY <1>8 DEF Logout, Answer
<1>9. ASSUME NEW c \in Calls, RevokeAllForUser(c) PROVE RotationNeverStrands'
  BY <1>9 DEF RevokeAllForUser, OfUser, Answer
<1>10. ASSUME NEW c \in Calls, HandlerFails(c) PROVE RotationNeverStrands'
  BY <1>10 DEF HandlerFails, Answer
<1>11. ASSUME NEW t \in Tokens, Lapse(t) PROVE RotationNeverStrands'
  BY <1>11 DEF Lapse
<1>12. CASE UNCHANGED authVars
  BY <1>12 DEF authVars
<1> QED BY <1>1, <1>2, <1>3, <1>4, <1>5, <1>6, <1>7, <1>8, <1>9, <1>10, <1>11, <1>12 DEF AuthNext, Handle

\* Revocation only grows, and covers what there was on arrival.
LEMMA CompleteStep == AuthInv /\ [AuthNext]_authVars => RevocationIsComplete'
<1> SUFFICES ASSUME AuthInv, [AuthNext]_authVars PROVE RevocationIsComplete'
  OBVIOUS
<1> USE MaxTokensAssumption DEF AuthInv, Tokens, Stored, tableVars, handlerVars, authHistVars, AuthTypeOK, RevocationIsComplete
<1>1. ASSUME NEW c \in Calls, Arrive(c) PROVE RevocationIsComplete'
  BY <1>1 DEF Arrive, Receive
<1>2. ASSUME NEW c \in Calls, FindReused(c) PROVE RevocationIsComplete'
  BY <1>2 DEF FindReused
<1>3. ASSUME NEW c \in Calls, FindRefused(c) PROVE RevocationIsComplete'
  BY <1>3 DEF FindRefused, Answer
<1>4. ASSUME NEW c \in Calls, FindUsable(c) PROVE RevocationIsComplete'
  BY <1>4 DEF FindUsable
<1>5. ASSUME NEW c \in Calls, Store(c) PROVE RevocationIsComplete'
  BY <1>5 DEF Store
<1>6. ASSUME NEW c \in Calls, MarkReplaced(c) PROVE RevocationIsComplete'
  BY <1>6 DEF MarkReplaced, Replace, Answer
<1>7. ASSUME NEW c \in Calls, IssueSession(c) PROVE RevocationIsComplete'
  BY <1>7 DEF IssueSession, Answer
<1>8. ASSUME NEW c \in Calls, Logout(c) PROVE RevocationIsComplete'
  BY <1>8 DEF Logout, Answer
<1>9. ASSUME NEW c \in Calls, RevokeAllForUser(c) PROVE RevocationIsComplete'
  BY <1>9 DEF RevokeAllForUser, OfUser, Answer
<1>10. ASSUME NEW c \in Calls, HandlerFails(c) PROVE RevocationIsComplete'
  BY <1>10 DEF HandlerFails, Answer
<1>11. ASSUME NEW t \in Tokens, Lapse(t) PROVE RevocationIsComplete'
  BY <1>11 DEF Lapse
<1>12. CASE UNCHANGED authVars
  BY <1>12 DEF authVars
<1> QED BY <1>1, <1>2, <1>3, <1>4, <1>5, <1>6, <1>7, <1>8, <1>9, <1>10, <1>11, <1>12 DEF AuthNext, Handle

-----------------------------------------------------------------------------

LEMMA AuthInitInv == (\E n \in 0..MaxTokens : AuthInit(n)) => AuthInv
  BY MaxTokensAssumption
  DEF AuthInit, AuthInv, AuthTypeOK, RotationInv, SpentInv, RotationNeverStrands,
      RevocationIsComplete, Stored, Tokens

LEMMA AuthStep == AuthInv /\ [AuthNext]_authVars => AuthInv'
  BY AuthTypeStep, RotationStep, SpentStep, StrandStep, CompleteStep DEF AuthInv

LEMMA AuthInductive == AuthSpec => []AuthInv
  BY AuthInitInv, AuthStep, PTL DEF AuthSpec

\* Every column and every handler keeps its type, whatever clients send.
THEOREM AuthTypeCorrect == AuthSpec => []AuthTypeOK
  BY AuthInductive, PTL DEF AuthInv

\* However rotations interleave and wherever they fail, a row is revoked only
\* by a logout, a mass revocation, or a later row that replaces it.
THEOREM NobodyStranded == AuthSpec => []RotationNeverStrands
  BY AuthInductive, PTL DEF AuthInv

\* A token that was redeemed or ended when it was presented buys nothing.
THEOREM DeadTokensRefused == AuthSpec => []DeadStaysDead
<1>1. AuthInv => DeadStaysDead
  BY DEF AuthInv, SpentInv, DeadStaysDead
<1> QED BY AuthInductive, <1>1, PTL

\* An answered mass revocation covers every session there was on arrival.
THEOREM MassRevocationComplete == AuthSpec => []RevocationIsComplete
  BY AuthInductive, PTL DEF AuthInv

-----------------------------------------------------------------------------
(* Chains: what redeeming a token leaves behind, followed through the table. *)

\* A row replaces one row at most, and comes after it: read backwards,
\* replaced_by leads from a token through one chain of older ones.
ChainsNeverMerge ==
    \A s, t \in Tokens : replacedBy[t] # 0 =>
        /\ replacedBy[t] > t
        /\ replacedBy[s] = replacedBy[t] => s = t

\* The row a rotation is about to link replaces nothing yet, and is no other
\* handler's.
LinkInv ==
    /\ ChainsNeverMerge
    /\ \A c \in Calls : srv[c] = "mark" =>
          /\ \A t \in Tokens : replacedBy[t] # got[c]
          /\ \A d \in Calls : srv[d] = "mark" /\ got[d] = got[c] => d = c

\* Only MarkReplaced links a row, and every handler has a row of its own.
LEMMA LinkStep == AuthInv /\ LinkInv /\ [AuthNext]_authVars => LinkInv'
<1> SUFFICES ASSUME AuthInv, LinkInv, [AuthNext]_authVars PROVE LinkInv'
  OBVIOUS
<1> USE MaxTokensAssumption DEF AuthInv, Tokens, Stored, tableVars, handlerVars, authHistVars, AuthTypeOK, RotationInv, LinkInv, ChainsNeverMerge
<1>1. ASSUME NEW c \in Calls, Arrive(c) PROVE LinkInv'
  <2>1. UNCHANGED <<issued, replacedBy>>
    BY <1>1 DEF Arrive, Receive
  <2>2. ASSUME NEW d \in Calls, srv'[d] = "mark" PROVE srv[d] = "mark" /\ got'[d] = got[d]
    BY <1>1, <2>2 DEF Arrive, Receive
  <2> QED BY <2>1, <2>2
<1>2. ASSUME NEW c \in Calls, FindReused(c) PROVE LinkInv'
  BY <1>2 DEF FindReused
<1>3. ASSUME NEW c \in Calls, FindRefused(c) PROVE LinkInv'
  BY <1>3 DEF FindRefused, Answer
<1>4. ASSUME NEW c \in Calls, FindUsable(c) PROVE LinkInv'
  BY <1>4 DEF FindUsable
<1>5. ASSUME NEW c \in Calls, Store(c) PROVE LinkInv'
  BY <1>5, SMTT(30) DEF Store
<1>6. ASSUME NEW c \in Calls, MarkReplaced(c) PROVE LinkInv'
  BY <1>6 DEF MarkReplaced, Replace, Answer
<1>7. ASSUME NEW c \in Calls, IssueSession(c) PROVE LinkInv'
  BY <1>7 DEF IssueSession, Answer
<1>8. ASSUME NEW c \in Calls, Logout(c) PROVE LinkInv'
  BY <1>8 DEF Logout, Answer
<1>9. ASSUME NEW c \in Calls, RevokeAllForUser(c) PROVE LinkInv'
  BY <1>9 DEF RevokeAllForUser, OfUser, Answer
<1>10. ASSUME NEW c \in Calls, HandlerFails(c) PROVE LinkInv'
  BY <1>10 DEF HandlerFails, Answer
<1>11. ASSUME NEW t \in Tokens, Lapse(t) PROVE LinkInv'
  BY <1>11 DEF Lapse
<1>12. CASE UNCHANGED authVars
  BY <1>12 DEF authVars
<1> QED BY <1>1, <1>2, <1>3, <1>4, <1>5, <1>6, <1>7, <1>8, <1>9, <1>10, <1>11, <1>12 DEF AuthNext, Handle

\* However many handlers rotate one token at once, and although MarkReplaced
\* overwrites replaced_by, no two tokens ever lead to the same successor and
\* no chain turns back (Refresh: the pair is stored before the old row is
\* marked with it).
THEOREM TokensFormChains == AuthSpec => []ChainsNeverMerge
<1>1. (\E n \in 0..MaxTokens : AuthInit(n)) => LinkInv
  BY DEF AuthInit, LinkInv, ChainsNeverMerge
<1>2. LinkInv => ChainsNeverMerge
  BY DEF LinkInv
<1> QED BY AuthInductive, LinkStep, <1>1, <1>2, PTL DEF AuthSpec

-----------------------------------------------------------------------------
(* The client.                                                             *)

\* A call that may still ask the server has had the answer to what it asked.
PhaseInv ==
    \A c \in Calls :
        /\ pc[c] = "idle" => srv[c] = "none"
        /\ pc[c] \in {"sent", "renewed", "resent"} => srv[c] \in {"none", "answered"}

\* MarkReplaced writes both columns.
MarkedInv == \A t \in Tokens : replacedBy[t] # 0 => t \in revoked

Active(c) == pc[c] \notin Ended \cup {"idle"}
SignsIn(c) == kind[c] \in {"logIn", "signUp"}

\* Requests run in an open session, anything else alone.
TurnInv ==
    /\ \A c \in Calls : Active(c) => app = IF kind[c] = "request" THEN "in" ELSE "busy"
    /\ \A c, d \in Calls : Active(c) /\ Active(d) => c = d \/ kind[c] = "request"
    /\ \A c, d \in Calls : pc[c] \in Refreshing /\ pc[d] \in Refreshing => c = d
    /\ \A c \in Calls : kind[c] \in {"logOut", "logoutAll"} => pc[c] = "idle"
    /\ \A c \in Calls : srv[c] \notin {"none", "answered"} =>
                         pc[c] \in Refreshing \/ (pc[c] = "posted" /\ SignsIn(c))

\* The storage is empty while one is signed out or signing in, and only then.
StorageInv ==
    /\ app = "in" => stored # 0
    /\ app = "out" => stored = 0
    /\ \A c \in Calls : Active(c) => (stored = 0 <=> SignsIn(c))

\* What a rotation has done so far.
RefreshInv ==
    \A c \in Calls : pc[c] \in Refreshing =>
        /\ given[c] = stored
        /\ \/ srv[c] \in {"refresh", "store", "mark"} /\ Live(stored)
           \/ srv[c] = "answered" /\ answer[c] = "ok"
        /\ srv[c] \in {"mark", "answered"} => Live(got[c])

\* What a sign-in has done so far; with nothing stored, /v1/auth/me is sent
\* without a token.
SignInInv ==
    \A c \in Calls : Active(c) /\ SignsIn(c) =>
        \/ /\ pc[c] = "posted"
           /\ srv[c] \in {"login", "answered"}
           /\ srv[c] = "answered" => answer[c] = "ok" /\ Live(got[c])
        \/ pc[c] = "sent" /\ kind[c] = "logIn" /\ sent[c] = 0

ChainInv == stored # 0 /\ (\A c \in Calls : pc[c] \notin Refreshing) => Live(stored)

Calm == ~faulty /\ ~overlapped
CalmInv == TurnInv /\ StorageInv /\ RefreshInv /\ SignInInv /\ ChainInv

IInv == AuthInv /\ TypeOK /\ PhaseInv /\ MarkedInv /\ (Calm => CalmInv)

-----------------------------------------------------------------------------

LEMMA KindsOfCalls == TypeOK => kind \in [Calls -> Kinds]
  BY MixesAssumption DEF TypeOK

\* Whatever the client does, the server sees a request, a statement or a fault
\* of its own, or nothing.
LEMMA ServerStep == IInv /\ [Next]_vars => [AuthNext]_authVars
<1> SUFFICES ASSUME IInv, [Next]_vars PROVE [AuthNext]_authVars
  OBVIOUS
<1> USE DEF IInv
<1>1. ASSUME NEW c \in Calls, NEW t \in Stored, NEW op \in {"refresh", "logout"},
             srv[c] \in {"none", "answered"}, Receive(c, op, t)
      PROVE AuthNext
  BY <1>1 DEF AuthNext, Arrive
<1>2. ASSUME NEW c \in Calls, NEW op \in {"login", "logoutAll"},
             srv[c] \in {"none", "answered"}, Receive(c, op, 0)
      PROVE AuthNext
  BY <1>2 DEF AuthNext, Arrive
<1>3. stored # 0 => stored \in Stored
  BY MaxTokensAssumption DEF TypeOK, AuthTypeOK, Stored
<1>4. ASSUME NEW c \in Calls, Begin(c) PROVE [AuthNext]_authVars
  <2>1. pc[c] = "idle" /\ srv[c] = "none"
    BY <1>4 DEF Begin, BeginRequest, BeginRestore, BeginLogIn, BeginLogOut, BeginLogoutAll, PhaseInv
  <2>2. CASE BeginRequest(c)
    BY <2>2 DEF BeginRequest
  <2>3. CASE BeginRestore(c)
    BY <2>1, <2>3, <1>1, <1>3 DEF BeginRestore, PostRefresh, Post
  <2>4. CASE BeginLogIn(c)
    BY <2>1, <2>4, <1>2 DEF BeginLogIn, Post
  <2>5. CASE BeginLogOut(c)
    BY <2>1, <2>5, <1>1, <1>3 DEF BeginLogOut, Post
  <2>6. CASE BeginLogoutAll(c)
    BY <2>1, <2>6, <1>2 DEF BeginLogoutAll, Post
  <2> QED BY <1>4, <2>2, <2>3, <2>4, <2>5, <2>6 DEF Begin
<1>5. ASSUME NEW c \in Calls, Continue(c) PROVE [AuthNext]_authVars
  <2>1. CASE Unauthorized(c)
    <3>1. srv[c] \in {"none", "answered"}
      BY <2>1 DEF Unauthorized, PhaseInv
    <3> QED BY <2>1, <3>1, <1>1, <1>3 DEF Unauthorized, PostRefresh, Post
  <2>2. CASE ~Unauthorized(c)
    BY <1>5, <2>2
    DEF Continue, Accepted, RequestFails, UnauthorizedAgain, GiveUp, Refreshed, Resend,
        NotRefreshed, AnswerLost, SignedUp, LoggedIn, NotSignedIn, LoggedOut
  <2> QED BY <2>1, <2>2
<1>6. ASSUME NEW c \in Calls, Handle(c) PROVE AuthNext
  BY <1>6 DEF AuthNext
<1>7. CASE ServerFault
  BY <1>7 DEF ServerFault, AuthNext
<1>8. CASE Kill \/ \E t \in Tokens : Expire(t)
  BY <1>8 DEF Kill, Expire
<1>9. CASE UNCHANGED vars
  BY <1>9 DEF vars
<1> QED BY <1>4, <1>5, <1>6, <1>7, <1>8, <1>9 DEF Next

LEMMA PhaseStep == IInv /\ [Next]_vars => PhaseInv'
<1> SUFFICES ASSUME IInv, [Next]_vars, NEW d \in Calls
             PROVE /\ pc'[d] = "idle" => srv'[d] = "none"
                   /\ pc'[d] \in {"sent", "renewed", "resent"} => srv'[d] \in {"none", "answered"}
  BY DEF PhaseInv
<1> USE DEF IInv, Ended, Refreshing
<1>1. /\ pc \in [Calls -> {"idle", "sent", "refreshing", "restoring", "renewed",
                           "resent", "posted", "ok", "failed"}]
      /\ srv \in [Calls -> {"none", "refresh", "reuse", "store", "mark", "login",
                            "logout", "logoutAll", "answered"}]
      /\ \A c \in Calls : srv[c] = "answered" <=> answer[c] # "none"
  BY DEF TypeOK, AuthTypeOK
<1>2. /\ pc[d] = "idle" => srv[d] = "none"
      /\ pc[d] \in {"sent", "renewed", "resent"} => srv[d] \in {"none", "answered"}
  BY DEF PhaseInv
<1> USE <1>1, <1>2
<1>3. ASSUME NEW c \in Calls, Begin(c)
      PROVE /\ pc'[d] = "idle" => srv'[d] = "none"
            /\ pc'[d] \in {"sent", "renewed", "resent"} => srv'[d] \in {"none", "answered"}
  BY ONLY <1>1, <1>2, <1>3, d \in Calls
  DEF Begin, BeginRequest, BeginRestore, BeginLogIn, BeginLogOut, BeginLogoutAll,
      PostRefresh, Post, Receive, Goto, authVars, handlerVars
<1>4. ASSUME NEW c \in Calls, Continue(c)
      PROVE /\ pc'[d] = "idle" => srv'[d] = "none"
            /\ pc'[d] \in {"sent", "renewed", "resent"} => srv'[d] \in {"none", "answered"}
  <2>1. CASE Unauthorized(c)
    BY ONLY <1>1, <1>2, <2>1, d \in Calls
    DEF Unauthorized, PostRefresh, Post, Receive, Fail, Goto, authVars, handlerVars
  <2>2. CASE Refreshed(c) \/ Resend(c) \/ LoggedIn(c)
    BY ONLY <1>1, <1>2, <2>2, d \in Calls
    DEF Refreshed, Resend, LoggedIn, Goto, authVars, handlerVars
  <2>3. CASE Accepted(c) \/ RequestFails(c) \/ UnauthorizedAgain(c)
    BY ONLY <1>1, <1>2, <2>3, d \in Calls
    DEF Accepted, RequestFails, UnauthorizedAgain, GiveUp, Succeed, Fail, Goto, authVars, handlerVars
  <2>4. CASE NotRefreshed(c) \/ AnswerLost(c) \/ SignedUp(c) \/ NotSignedIn(c) \/ LoggedOut(c)
    BY ONLY <1>1, <1>2, <2>4, d \in Calls
    DEF NotRefreshed, AnswerLost, SignedUp, NotSignedIn, LoggedOut, Fail, Goto, authVars, handlerVars
  <2> QED BY <1>4, <2>1, <2>2, <2>3, <2>4 DEF Continue
<1>5. ASSUME NEW c \in Calls, Handle(c), UNCHANGED pc
      PROVE /\ pc'[d] = "idle" => srv'[d] = "none"
            /\ pc'[d] \in {"sent", "renewed", "resent"} => srv'[d] \in {"none", "answered"}
  BY ONLY <1>1, <1>2, <1>5, d \in Calls
  DEF Handle, FindReused, FindRefused, FindUsable, Store, MarkReplaced, IssueSession, Logout,
      RevokeAllForUser, Answer
<1>6. ASSUME ServerFault, UNCHANGED pc
      PROVE /\ pc'[d] = "idle" => srv'[d] = "none"
            /\ pc'[d] \in {"sent", "renewed", "resent"} => srv'[d] \in {"none", "answered"}
  BY ONLY <1>1, <1>2, <1>6, d \in Calls
  DEF ServerFault, HandlerFails, Lapse, Answer, handlerVars
<1>7. CASE Kill
  BY ONLY <1>1, <1>2, <1>7, d \in Calls DEF Kill, authVars, handlerVars, Ended
<1>8. CASE UNCHANGED vars \/ \E t \in Tokens : Expire(t)
  BY <1>8 DEF Expire, vars, sessionVars, authVars, handlerVars
<1> QED BY <1>3, <1>4, <1>5, <1>6, <1>7, <1>8 DEF Next, sessionVars

LEMMA MarkedStep == AuthInv /\ MarkedInv /\ [AuthNext]_authVars => MarkedInv'
<1> SUFFICES ASSUME AuthInv, MarkedInv, [AuthNext]_authVars PROVE MarkedInv'
  OBVIOUS
<1> USE DEF AuthInv, AuthTypeOK, MarkedInv, tableVars, handlerVars
<1>1. ASSUME NEW c \in Calls, Arrive(c) PROVE MarkedInv'
  BY <1>1 DEF Arrive, Receive
<1>2. ASSUME NEW c \in Calls, Handle(c) PROVE MarkedInv'
  BY <1>2
  DEF Handle, FindReused, FindRefused, FindUsable, Store, MarkReplaced, Replace, IssueSession,
      Logout, RevokeAllForUser, Answer
<1>3. ASSUME NEW c \in Calls, HandlerFails(c) PROVE MarkedInv'
  BY <1>3 DEF HandlerFails
<1>4. ASSUME NEW t \in Tokens, Lapse(t) PROVE MarkedInv'
  BY <1>4 DEF Lapse
<1>5. CASE UNCHANGED authVars
  BY <1>5 DEF authVars
<1> QED BY <1>1, <1>2, <1>3, <1>4, <1>5 DEF AuthNext

\* Rows are only added.
LEMMA RowsGrow == AuthInv /\ AuthInv' /\ [AuthNext]_authVars =>
                    issued \in Nat /\ issued' \in Nat /\ issued <= issued'
<1> SUFFICES ASSUME AuthInv, AuthInv', [AuthNext]_authVars
             PROVE  issued \in Nat /\ issued' \in Nat /\ issued <= issued'
  OBVIOUS
<1>1. issued \in Nat /\ issued' \in Nat
  BY MaxTokensAssumption DEF AuthInv, AuthTypeOK
<1> QED
  BY <1>1
  DEF AuthNext, Arrive, Receive, Handle, FindReused, FindRefused, FindUsable, Store, MarkReplaced,
      IssueSession, Logout, RevokeAllForUser, HandlerFails, Lapse, tableVars, authVars

LEMMA ClientTypeStep == IInv /\ AuthInv' /\ [Next]_vars => TypeOK'
<1> SUFFICES ASSUME IInv, AuthInv', [Next]_vars PROVE TypeOK'
  OBVIOUS
<1> DEFINE Tokens0 == 0..issued'
<1>0. issued \in Nat /\ issued' \in Nat /\ issued <= issued'
  BY ServerStep, RowsGrow DEF IInv
<1>1. AuthTypeOK' /\ kind' \in Mixes
  BY DEF IInv, TypeOK, AuthInv, Next, Begin, BeginRequest, BeginRestore, BeginLogIn, BeginLogOut,
         BeginLogoutAll, Continue, Accepted, RequestFails, Unauthorized, UnauthorizedAgain, Refreshed,
         Resend, NotRefreshed, AnswerLost, SignedUp, LoggedIn, NotSignedIn, LoggedOut, ServerFault,
         Expire, Kill, vars
<1>2. pc' \in [Calls -> {"idle", "sent", "refreshing", "restoring", "renewed",
                         "resent", "posted", "ok", "failed"}]
  BY DEF IInv, TypeOK, Next, Begin, BeginRequest, BeginRestore, BeginLogIn, BeginLogOut,
         BeginLogoutAll, Continue, Accepted, RequestFails, Unauthorized, UnauthorizedAgain, Refreshed,
         Resend, NotRefreshed, AnswerLost, SignedUp, LoggedIn, NotSignedIn, LoggedOut, GiveUp,
         Expire, Kill, vars, sessionVars, Succeed, Fail, Goto, PostRefresh, Post
<1>3. /\ got \in [Calls -> Tokens0] /\ stored \in Tokens0
      /\ sent \in [Calls -> Tokens0] /\ held \in [Calls -> Tokens0]
  BY <1>0 DEF IInv, TypeOK, AuthTypeOK
<1>4. stored' \in Tokens0
  BY <1>3, <1>0
  DEF Next, Begin, BeginRequest, BeginRestore, BeginLogIn, BeginLogOut, Renewed,
      BeginLogoutAll, Continue, Accepted, RequestFails, Unauthorized, UnauthorizedAgain, Refreshed,
      Resend, NotRefreshed, AnswerLost, SignedUp, LoggedIn, NotSignedIn, LoggedOut, GiveUp,
      Expire, Kill, vars, sessionVars, Succeed, Fail
<1>5. sent' \in [Calls -> Tokens0]
  BY <1>3, <1>0
  DEF Next, Begin, BeginRequest, BeginRestore, BeginLogIn, BeginLogOut,
      BeginLogoutAll, Continue, Accepted, RequestFails, Unauthorized, UnauthorizedAgain, Refreshed,
      Resend, NotRefreshed, AnswerLost, SignedUp, LoggedIn, NotSignedIn, LoggedOut,
      Expire, Kill, vars, sessionVars
<1>6. held' \in [Calls -> Tokens0]
  BY <1>3, <1>0
  DEF Next, Begin, BeginRequest, BeginRestore, BeginLogIn, BeginLogOut,
      BeginLogoutAll, Continue, Accepted, RequestFails, Unauthorized, UnauthorizedAgain, Refreshed,
      Resend, NotRefreshed, AnswerLost, SignedUp, LoggedIn, NotSignedIn, LoggedOut,
      Expire, Kill, vars, sessionVars
<1>7. stale' \subseteq Stored'
  <2>1. stale \subseteq Stored /\ Stored \subseteq Stored'
    BY <1>0 DEF IInv, TypeOK, Stored
  <2> QED
    BY <2>1
    DEF Next, Begin, BeginRequest, BeginRestore, BeginLogIn, BeginLogOut,
        BeginLogoutAll, Continue, Accepted, RequestFails, Unauthorized, UnauthorizedAgain, Refreshed,
        Resend, NotRefreshed, AnswerLost, SignedUp, LoggedIn, NotSignedIn, LoggedOut,
        Expire, Kill, vars
<1>8. app' \in {"off", "busy", "out", "in"}
  BY DEF IInv, TypeOK, Next, Begin, BeginRequest, BeginRestore, BeginLogIn, BeginLogOut,
         BeginLogoutAll, Continue, Accepted, RequestFails, Unauthorized, UnauthorizedAgain, Refreshed,
         Resend, NotRefreshed, AnswerLost, SignedUp, LoggedIn, NotSignedIn, LoggedOut, GiveUp,
         Expire, Kill, vars, sessionVars, Succeed, Fail
<1>9. faulty' \in BOOLEAN
  <2>1. faulty \in BOOLEAN
    BY DEF IInv, TypeOK
  <2> QED
    BY ONLY <2>1, [Next]_vars, Zenon
    DEF Next, Begin, BeginRequest, BeginRestore, BeginLogIn, BeginLogOut,
        BeginLogoutAll, Continue, Accepted, RequestFails, Unauthorized, UnauthorizedAgain, Refreshed,
        Resend, NotRefreshed, AnswerLost, SignedUp, LoggedIn, NotSignedIn, LoggedOut,
        Expire, Kill, vars, excuseVars
<1>10. overlapped' \in BOOLEAN
  <2>1. overlapped \in BOOLEAN
    BY DEF IInv, TypeOK
  <2> QED
    BY ONLY <2>1, [Next]_vars, Zenon
    DEF Next, Begin, BeginRequest, BeginRestore, BeginLogIn, BeginLogOut, PostRefresh,
        BeginLogoutAll, Continue, Accepted, RequestFails, Unauthorized, UnauthorizedAgain, Refreshed,
        Resend, NotRefreshed, AnswerLost, SignedUp, LoggedIn, NotSignedIn, LoggedOut,
        Expire, Kill, vars, excuseVars
<1> QED BY <1>1, <1>2, <1>4, <1>5, <1>6, <1>7, <1>8, <1>9, <1>10 DEF TypeOK

LEMMA ClientInit == Init => IInv
<1> SUFFICES ASSUME Init PROVE IInv
  OBVIOUS
<1>1. PICK n \in {0, 1} : AuthInit(n)
  BY DEF Init
<1>2. AuthInv
  BY <1>1, AuthInitInv, MaxTokensAssumption
<1>3. TypeOK
  <2>1. stored \in 0..issued /\ stale \subseteq Stored /\ app \in {"off", "busy", "out", "in"}
    BY <1>1 DEF Init, AuthInit, Stored
  <2>2. issued \in Nat
    BY <1>1 DEF AuthInit
  <2>3. sent \in [Calls -> 0..issued] /\ held \in [Calls -> 0..issued]
    BY <2>2 DEF Init
  <2>4. faulty \in BOOLEAN /\ overlapped \in BOOLEAN
    BY DEF Init
  <2> QED BY <1>2, <2>1, <2>3, <2>4 DEF Init, TypeOK, AuthInv
<1>4. PhaseInv /\ MarkedInv
  BY <1>1 DEF Init, AuthInit, PhaseInv, MarkedInv
<1>5. CalmInv
  BY <1>1 DEF Init, AuthInit, CalmInv, TurnInv, StorageInv, RefreshInv, SignInInv, ChainInv, Active,
              Refreshing, Ended, SignsIn, Live, Stored
<1> QED BY <1>2, <1>3, <1>4, <1>5 DEF IInv

-----------------------------------------------------------------------------
(* While nothing fails and refreshes do not overlap.                       *)

\* What the steps below know of the state they start in.
CalmTypes ==
    /\ kind \in [Calls -> Kinds]
    /\ pc \in [Calls -> {"idle", "sent", "refreshing", "restoring", "renewed",
                         "resent", "posted", "ok", "failed"}]
    /\ srv \in [Calls -> {"none", "refresh", "reuse", "store", "mark", "login",
                          "logout", "logoutAll", "answered"}]
    /\ answer \in [Calls -> {"none", "ok", "denied", "reused", "allOut", "error"}]
    /\ \A c \in Calls : srv[c] = "answered" <=> answer[c] # "none"
    /\ app \in {"off", "busy", "out", "in"}
    /\ issued \in Nat /\ stored \in 0..issued
    /\ sent \in [Calls -> 0..issued] /\ held \in [Calls -> 0..issued]
    /\ given \in [Calls -> 0..issued] /\ got \in [Calls -> 0..issued]

LEMMA Typed == IInv => CalmTypes
  BY KindsOfCalls, MaxTokensAssumption DEF IInv, TypeOK, AuthTypeOK, CalmTypes

\* Nothing is forgotten.
LEMMA CalmBefore == IInv /\ [Next]_vars /\ Calm' => Calm
<1> SUFFICES ASSUME IInv, [Next]_vars, Calm' PROVE Calm
  OBVIOUS
<1>1. ~faulty' /\ ~overlapped'
  BY DEF Calm
<1>2. ~faulty
  BY ONLY <1>1, [Next]_vars, Zenon
  DEF Next, Begin, BeginRequest, BeginRestore, BeginLogIn, BeginLogOut,
      BeginLogoutAll, Continue, Accepted, RequestFails, Unauthorized, UnauthorizedAgain, Refreshed,
      Resend, NotRefreshed, AnswerLost, SignedUp, LoggedIn, NotSignedIn, LoggedOut,
      Expire, Kill, vars, excuseVars
<1>3. ~overlapped
  BY ONLY <1>1, [Next]_vars, Zenon
  DEF Next, Begin, BeginRequest, BeginRestore, BeginLogIn, BeginLogOut, PostRefresh,
      BeginLogoutAll, Continue, Accepted, RequestFails, Unauthorized, UnauthorizedAgain, Refreshed,
      Resend, NotRefreshed, AnswerLost, SignedUp, LoggedIn, NotSignedIn, LoggedOut,
      Expire, Kill, vars, excuseVars
<1> QED BY <1>2, <1>3 DEF Calm

\* A refresh is posted while no other one is under way.
LEMMA PostAlone ==
  ASSUME NEW c \in Calls, NEW where \in Refreshing, PostRefresh(c, where), Calm'
  PROVE  \A d \in Calls \ {c} : pc[d] \notin Refreshing
<1>1. ~overlapped'
  BY DEF Calm
<1> QED BY <1>1, Zenon DEF PostRefresh

LEMMA CalmBegins ==
  ASSUME NEW c \in Calls, CalmTypes, CalmInv, PhaseInv, Calm', Begin(c)
  PROVE  CalmInv'
<1> USE DEF CalmTypes, Active, SignsIn, Ended, Refreshing
<1>1. CASE BeginRequest(c)
  <2>1. TurnInv' /\ StorageInv'
    BY <1>1 DEF BeginRequest, Goto, CalmInv, TurnInv, StorageInv, authVars, handlerVars, Kinds
  <2>2. RefreshInv' /\ ChainInv'
    BY <1>1 DEF BeginRequest, Goto, CalmInv, RefreshInv, ChainInv, Live, Stored, authVars, tableVars, handlerVars
  <2>3. SignInInv'
    BY <1>1 DEF BeginRequest, Goto, CalmInv, SignInInv, Live, Stored, authVars, tableVars, handlerVars
  <2> QED BY <2>1, <2>2, <2>3 DEF CalmInv
<1>2. CASE BeginRestore(c)
  <2>0. \A d \in Calls \ {c} : ~Active(d)
    BY <1>2 DEF BeginRestore, CalmInv, TurnInv
  <2>1. CASE stored = 0
    <3>1. app' = "out" /\ pc' = [pc EXCEPT ![c] = "ok"] /\ UNCHANGED <<stored, kind, authVars, sent>>
      BY <1>2, <2>1 DEF BeginRestore, Goto
    <3> QED BY <1>2, <2>0, <2>1, <3>1
            DEF BeginRestore, CalmInv, TurnInv, StorageInv, RefreshInv, ChainInv, SignInInv, Live, Stored, authVars, tableVars, handlerVars
  <2>2. CASE stored # 0 /\ pc' = [pc EXCEPT ![c] = "restoring"] /\ Receive(c, "refresh", stored)
    <3>1. UNCHANGED <<stored, kind>> /\ app' = "busy" /\ kind[c] = "restore" /\ pc[c] = "idle"
      BY <1>2, <2>2 DEF BeginRestore
    <3>2. UNCHANGED sent
      <4>1. pc'[c] # "sent"
        BY <2>2
      <4> QED BY <1>2, <2>2, <4>1 DEF BeginRestore, Goto
    <3>0. Live(stored)
      BY <2>0, <2>2, <3>1 DEF CalmInv, ChainInv
    <3> QED BY <2>0, <2>2, <3>0, <3>1, <3>2
            DEF CalmInv, TurnInv, StorageInv, RefreshInv, ChainInv, SignInInv, Live, Stored, Receive, tableVars
  <2>3. CASE stored # 0 /\ pc' = [pc EXCEPT ![c] = "sent"] /\ UNCHANGED authVars
    <3>1. UNCHANGED <<stored, kind>> /\ app' = "busy" /\ kind[c] = "restore" /\ pc[c] = "idle"
      BY <1>2, <2>3 DEF BeginRestore
    <3>2. Live(stored)
      BY <2>0, <2>3, <3>1 DEF CalmInv, ChainInv
    <3>3. TurnInv' /\ StorageInv'
      <4>1. srv[c] = "none"
        BY <3>1 DEF PhaseInv
      <4> QED BY <2>0, <2>3, <3>1, <4>1 DEF CalmInv, TurnInv, StorageInv, authVars, handlerVars
    <3>4. RefreshInv' /\ ChainInv' /\ SignInInv'
      BY <2>0, <2>3, <3>1, <3>2
      DEF RefreshInv, ChainInv, SignInInv, Live, Stored, authVars, tableVars, handlerVars
    <3> QED BY <3>3, <3>4 DEF CalmInv
  <2> QED BY <1>2, <2>1, <2>2, <2>3 DEF BeginRestore, PostRefresh, Post, Goto
<1>3. CASE BeginLogIn(c)
  <2>0. \A d \in Calls \ {c} : ~Active(d)
    BY <1>3 DEF BeginLogIn, CalmInv, TurnInv
  <2>1. stored = 0 /\ UNCHANGED <<kind, stored>> /\ app' = "busy" /\ kind[c] \in {"logIn", "signUp"}
    BY <1>3 DEF BeginLogIn, CalmInv, StorageInv
  <2> QED BY <1>3, <2>0, <2>1
          DEF BeginLogIn, Post, Goto, CalmInv, TurnInv, StorageInv, RefreshInv, ChainInv, SignInInv, Live, Stored, Receive, tableVars
<1>4. CASE BeginLogOut(c) \/ BeginLogoutAll(c)
  BY <1>4 DEF BeginLogOut, BeginLogoutAll, Calm
<1> QED BY <1>1, <1>2, <1>3, <1>4 DEF Begin

LEMMA CalmAnswers ==
  ASSUME NEW c \in Calls, CalmTypes, CalmInv, PhaseInv, Calm', Accepted(c) \/ Unauthorized(c)
  PROVE  CalmInv'
<1> USE DEF CalmTypes, Active, SignsIn, Ended, Refreshing
<1>1. CASE Accepted(c)
  <2>1. kind[c] \in {"request", "restore"} /\ pc[c] \in {"sent", "resent"}
    BY <1>1 DEF Accepted, CalmInv, SignInInv, TurnInv, Kinds
  <2>2. /\ UNCHANGED <<stored, kind, sent, authVars>> /\ pc' = [pc EXCEPT ![c] = "ok"]
        /\ app' = IF kind[c] = "request" THEN app ELSE "in"
    BY <1>1, <2>1 DEF Accepted, Succeed, Goto
  <2>3. \A d \in Calls \ {c} : kind[d] # "request" => ~Active(d)
    BY <2>1 DEF CalmInv, TurnInv
  <2>4. kind[c] # "request" => \A d \in Calls \ {c} : ~Active(d)
    BY <2>1 DEF CalmInv, TurnInv
  <2>5. TurnInv'
    BY <2>1, <2>2, <2>3, <2>4 DEF CalmInv, TurnInv, PhaseInv, authVars, handlerVars
  <2>6. StorageInv'
    BY <2>1, <2>2, <2>3, <2>4 DEF CalmInv, StorageInv
  <2>7. RefreshInv' /\ ChainInv' /\ SignInInv'
    BY <2>1, <2>2 DEF CalmInv, RefreshInv, ChainInv, SignInInv, Live, Stored, authVars, tableVars, handlerVars
  <2> QED BY <2>5, <2>6, <2>7 DEF CalmInv
<1>2. CASE Unauthorized(c)
  <2>1. pc[c] = "sent"
    BY <1>2 DEF Unauthorized
  <2>2. CASE stored = 0
    <3>1. SignsIn(c)
      BY <2>1, <2>2 DEF CalmInv, StorageInv
    <3>2. UNCHANGED <<kind, sent, authVars, stored>> /\ app' = "out" /\ pc' = [pc EXCEPT ![c] = "failed"]
      BY <1>2, <2>2, <3>1 DEF Unauthorized, Fail, Goto
    <3>3. \A d \in Calls \ {c} : ~Active(d)
      BY <2>1, <3>1 DEF CalmInv, TurnInv
    <3> QED BY <2>1, <2>2, <3>1, <3>2, <3>3
            DEF CalmInv, TurnInv, StorageInv, RefreshInv, ChainInv, SignInInv, PhaseInv, Live, Stored,
                authVars, tableVars, handlerVars
  <2>3. CASE stored # 0
    <3>1. /\ PostRefresh(c, "refreshing") /\ UNCHANGED <<stored, app, kind, sent>>
          /\ pc' = [pc EXCEPT ![c] = "refreshing"] /\ Receive(c, "refresh", stored)
      BY <1>2, <2>3 DEF Unauthorized, PostRefresh, Post, Goto
    <3>2. \A d \in Calls \ {c} : pc[d] \notin Refreshing
      BY <3>1, PostAlone
    <3>3. Live(stored)
      BY <2>1, <2>3, <3>2 DEF CalmInv, ChainInv
    <3>4. ~SignsIn(c)
      BY <2>1, <2>3 DEF CalmInv, StorageInv
    <3>5. TurnInv'
      BY <2>1, <3>1, <3>2 DEF CalmInv, TurnInv, Receive
    <3>6. StorageInv'
      BY <2>1, <3>1 DEF CalmInv, StorageInv
    <3>7. RefreshInv' /\ ChainInv'
      BY <2>1, <3>1, <3>2, <3>3 DEF RefreshInv, ChainInv, Live, Stored, Receive, tableVars
    <3>8. SignInInv'
      BY <2>1, <3>1, <3>4 DEF CalmInv, SignInInv, Live, Stored, Receive, tableVars
    <3> QED BY <3>5, <3>6, <3>7, <3>8 DEF CalmInv
  <2> QED BY <2>2, <2>3
<1> QED BY <1>1, <1>2

LEMMA CalmContinues ==
  ASSUME NEW c \in Calls, CalmTypes, CalmInv, PhaseInv, Calm', Continue(c)
  PROVE  CalmInv'
<1> USE DEF CalmTypes, Active, SignsIn, Ended, Refreshing
<1>1. CASE Refreshed(c)
  <2>1. pc[c] \in Refreshing /\ answer[c] = "ok" /\ stored' = got[c] /\ UNCHANGED <<authVars, kind, app>>
    BY <1>1 DEF Refreshed, Renewed
  <2>2. \A d \in Calls \ {c} : pc[d] \notin Refreshing
    BY <2>1 DEF CalmInv, TurnInv
  <2>3. srv[c] = "answered" /\ Live(got[c]) /\ got[c] # 0 /\ stored # 0 /\ ~SignsIn(c)
    <3>1. srv[c] = "answered"
      BY <2>1
    <3>2. Live(got[c]) /\ got[c] # 0
      BY <2>1, <3>1 DEF CalmInv, RefreshInv, Live, Stored
    <3>3. ~SignsIn(c)
      BY <2>1 DEF CalmInv, SignInInv
    <3>4. stored # 0
      BY <2>1, <3>3 DEF CalmInv, StorageInv
    <3> QED BY <3>1, <3>2, <3>3, <3>4
  <2>4. \A d \in Calls : SignsIn(d) => ~Active(d)
    BY <2>3 DEF CalmInv, StorageInv
  <2>5. \E where \in {"sent", "renewed"} : pc' = [pc EXCEPT ![c] = where]
    BY <1>1 DEF Refreshed, Goto
  <2>6. TurnInv'
    BY <2>1, <2>2, <2>3, <2>5 DEF CalmInv, TurnInv, authVars, handlerVars
  <2>7. StorageInv'
    BY <2>1, <2>3, <2>4, <2>5 DEF CalmInv, StorageInv
  <2>8. RefreshInv' /\ ChainInv' /\ SignInInv'
    BY <2>1, <2>2, <2>3, <2>4, <2>5
    DEF RefreshInv, ChainInv, SignInInv, Live, Stored, authVars, tableVars, handlerVars
  <2> QED BY <2>6, <2>7, <2>8 DEF CalmInv
<1>2. CASE Resend(c)
  <2>1. pc[c] = "renewed" /\ pc' = [pc EXCEPT ![c] = "resent"] /\ UNCHANGED <<authVars, kind, app, stored>>
    BY <1>2 DEF Resend, Goto
  <2>2. ~SignsIn(c)
    BY <2>1 DEF CalmInv, SignInInv
  <2>3. \A d \in Calls \ {c} : sent'[d] = sent[d]
    BY <1>2 DEF Resend
  <2>4. TurnInv' /\ StorageInv'
    BY <2>1 DEF CalmInv, TurnInv, StorageInv, PhaseInv, authVars, handlerVars
  <2>5. RefreshInv' /\ ChainInv' /\ SignInInv'
    BY <2>1, <2>2, <2>3
    DEF CalmInv, RefreshInv, ChainInv, SignInInv, Live, Stored, authVars, tableVars, handlerVars
  <2> QED BY <2>4, <2>5 DEF CalmInv
<1>3. CASE NotRefreshed(c)
  <2>1. answer[c] # "ok" /\ answer[c] \notin {"none", "error"}
    <3>1. ~faulty'
      BY DEF Calm
    <3> QED BY <1>3, <3>1, Zenon DEF NotRefreshed
  <2>2. pc[c] \in Refreshing
    BY <1>3 DEF NotRefreshed
  <2> QED BY <2>1, <2>2 DEF CalmInv, RefreshInv
<1>4. CASE SignedUp(c)
  <2>1. /\ pc[c] = "posted" /\ kind[c] = "signUp" /\ answer[c] = "ok" /\ stored' = got[c] /\ app' = "in"
        /\ pc' = [pc EXCEPT ![c] = "ok"] /\ UNCHANGED <<authVars, kind, sent>>
    BY <1>4 DEF SignedUp, Goto
  <2>2. \A d \in Calls \ {c} : ~Active(d)
    BY <2>1 DEF CalmInv, TurnInv
  <2>3. srv[c] = "answered" /\ Live(got[c]) /\ got[c] # 0
    BY <2>1 DEF CalmInv, SignInInv, Live, Stored
  <2> QED BY <2>1, <2>2, <2>3
          DEF CalmInv, TurnInv, StorageInv, RefreshInv, ChainInv, SignInInv, Live, Stored,
              authVars, tableVars, handlerVars
<1>5. CASE LoggedIn(c)
  <2>1. /\ pc[c] = "posted" /\ kind[c] = "logIn" /\ answer[c] = "ok"
        /\ pc' = [pc EXCEPT ![c] = "sent"] /\ UNCHANGED <<authVars, kind, app, stored>>
        /\ sent' = [sent EXCEPT ![c] = stored]
    BY <1>5 DEF LoggedIn, Goto
  <2>2. \A d \in Calls \ {c} : ~Active(d)
    BY <2>1 DEF CalmInv, TurnInv
  <2>3. stored = 0 /\ srv[c] = "answered"
    BY <2>1 DEF CalmInv, StorageInv, SignInInv
  <2> QED BY <2>1, <2>2, <2>3
          DEF CalmInv, TurnInv, StorageInv, RefreshInv, ChainInv, SignInInv, Live, Stored,
              authVars, tableVars, handlerVars
<1>6. CASE Accepted(c) \/ Unauthorized(c)
  BY <1>6, CalmAnswers
<1>7. CASE RequestFails(c) \/ UnauthorizedAgain(c) \/ AnswerLost(c) \/ NotSignedIn(c)
  BY <1>7 DEF RequestFails, UnauthorizedAgain, AnswerLost, NotSignedIn, Calm
<1>8. CASE LoggedOut(c)
  BY <1>8 DEF LoggedOut, CalmInv, TurnInv
<1> QED BY <1>1, <1>2, <1>3, <1>4, <1>5, <1>6, <1>7, <1>8 DEF Continue

LEMMA CalmHandles ==
  ASSUME NEW c \in Calls, CalmTypes, AuthInv, CalmInv, PhaseInv, MarkedInv, Handle(c),
         UNCHANGED <<kind, pc, sent, held, stored, app>>
  PROVE  CalmInv'
<1> USE DEF CalmTypes, Active, SignsIn, Ended, Refreshing, tableVars
<1>1. srv[c] \notin {"none", "answered"}
  BY DEF Handle, FindReused, FindRefused, FindUsable, Store, MarkReplaced, IssueSession, Logout,
         RevokeAllForUser
<1>2. pc[c] \in Refreshing \/ (pc[c] = "posted" /\ SignsIn(c))
  BY <1>1 DEF CalmInv, TurnInv
<1>3. CASE pc[c] \in Refreshing
  <2>1. given[c] = stored /\ srv[c] \in {"refresh", "store", "mark"} /\ Live(stored) /\ stored # 0
    BY <1>1, <1>3 DEF CalmInv, RefreshInv, Live, Stored
  <2>2. /\ \A d \in Calls \ {c} : pc[d] \notin Refreshing
        /\ \A d \in Calls : Active(d) => ~SignsIn(d)
    BY <1>3, <2>1 DEF CalmInv, TurnInv, StorageInv
  <2>3. replacedBy[stored] = 0
    BY <2>1, MaxTokensAssumption DEF MarkedInv, AuthInv, AuthTypeOK, Live, Stored, Tokens
  <2>4. SignInInv' /\ ChainInv' /\ StorageInv'
    BY <1>3, <2>2 DEF CalmInv, SignInInv, ChainInv, StorageInv
  <2>5. CASE FindUsable(c)
    BY <1>3, <2>1, <2>2, <2>4, <2>5
    DEF FindUsable, CalmInv, TurnInv, RefreshInv, Live, Stored
  <2>6. CASE Store(c)
    <3>1. issued + 1 \notin revoked \cup lapsed
      BY DEF AuthInv, AuthTypeOK, Stored
    <3> QED BY <1>3, <2>1, <2>2, <2>4, <2>6, <3>1
            DEF Store, CalmInv, TurnInv, RefreshInv, Live, Stored
  <2>7. CASE MarkReplaced(c)
    <3>1. got[c] # given[c] /\ Live(got[c])
      BY <1>3, <2>7 DEF MarkReplaced, AuthInv, RotationInv, CalmInv, RefreshInv
    <3> QED BY <1>3, <2>1, <2>2, <2>4, <2>7, <3>1
            DEF MarkReplaced, Replace, Answer, CalmInv, TurnInv, RefreshInv, Live, Stored
  <2> QED BY <2>1, <2>3, <2>5, <2>6, <2>7
          DEF Handle, FindReused, FindRefused, IssueSession, Logout, RevokeAllForUser
<1>4. CASE pc[c] = "posted" /\ SignsIn(c)
  <2>1. srv[c] = "login"
    BY <1>1, <1>4 DEF CalmInv, SignInInv
  <2>2. \A d \in Calls \ {c} : ~Active(d)
    BY <1>4 DEF CalmInv, TurnInv
  <2>3. stored = 0
    BY <1>4 DEF CalmInv, StorageInv
  <2>4. issued + 1 \notin revoked \cup lapsed
    BY DEF AuthInv, AuthTypeOK, Stored
  <2>5. IssueSession(c)
    BY <2>1 DEF Handle, FindReused, FindRefused, FindUsable, Store, MarkReplaced, Logout, RevokeAllForUser
  <2> QED BY <1>4, <2>1, <2>2, <2>3, <2>4, <2>5
          DEF IssueSession, Answer, CalmInv, TurnInv, StorageInv, RefreshInv, ChainInv, SignInInv, Live, Stored
<1> QED BY <1>2, <1>3, <1>4

LEMMA CalmStep == IInv /\ [Next]_vars /\ Calm' => CalmInv'
<1> SUFFICES ASSUME IInv, [Next]_vars, Calm' PROVE CalmInv'
  OBVIOUS
<1>1. CalmTypes /\ CalmInv /\ PhaseInv /\ MarkedInv /\ AuthInv
  BY Typed, CalmBefore DEF IInv
<1>2. ASSUME NEW c \in Calls, Begin(c) \/ Continue(c) PROVE CalmInv'
  BY <1>1, <1>2, CalmBegins, CalmContinues
<1>3. ASSUME NEW c \in Calls, Handle(c), UNCHANGED sessionVars, UNCHANGED kind PROVE CalmInv'
  BY <1>1, <1>3, CalmHandles DEF sessionVars
<1>4. CASE ServerFault /\ faulty' = TRUE
  BY <1>4 DEF Calm
<1>5. CASE Kill
  <2>1. pc' = pc /\ ~faulty'
    <3>1. ~faulty'
      BY DEF Calm
    <3>2. faulty' = (faulty \/ pc' # pc)
      BY <1>5 DEF Kill
    <3> QED BY <3>1, <3>2, Zenon
  <2>2. \A c \in Calls : ~Active(c)
    BY <1>1, <1>5, <2>1 DEF Kill, Active, CalmTypes, Ended
  <2> QED BY <1>1, <1>5, <2>1, <2>2
          DEF Kill, CalmInv, TurnInv, StorageInv, RefreshInv, SignInInv, ChainInv, Live, Stored, Active,
              SignsIn, authVars, tableVars, handlerVars
<1>6. CASE UNCHANGED <<authVars, kind, sessionVars>>
  BY <1>1, <1>6
  DEF CalmInv, TurnInv, StorageInv, RefreshInv, SignInInv, ChainInv, Live, Stored, Active,
      SignsIn, authVars, tableVars, handlerVars, sessionVars
<1> QED BY <1>2, <1>3, <1>4, <1>5, <1>6 DEF Next, Expire, vars

LEMMA Inductive == Spec => []IInv
<1>1. IInv /\ [Next]_vars => IInv'
  <2> SUFFICES ASSUME IInv, [Next]_vars PROVE IInv'
    OBVIOUS
  <2>1. AuthInv' /\ MarkedInv'
    BY ServerStep, AuthStep, MarkedStep DEF IInv
  <2> QED BY <2>1, ClientTypeStep, PhaseStep, CalmStep DEF IInv
<1> QED BY ClientInit, <1>1, PTL DEF Spec

\* Calls, storage, access tokens and the server's table keep their types,
\* whatever fails on either side.
THEOREM SessionTyped == Spec => []TypeOK
  BY Inductive, PTL DEF IInv

\* Every behaviour of the device, kills and lost answers included, is one of
\* the server on its own, which so keeps what is proved of it above.
THEOREM DeviceUsesServer == Spec => ServerSpec
<1>1. Init => \E n \in 0..MaxTokens : AuthInit(n)
  BY MaxTokensAssumption DEF Init
<1> QED BY Inductive, ServerStep, <1>1, PTL DEF Spec, ServerSpec, AuthSpec

\* While refreshes do not overlap and nothing fails, an open session's token is
\* the live end of its chain or is being replaced by the one refresh.
THEOREM LoneRefreshKeepsSession == Spec => []SoleRefresherStaysSignedIn
<1>1. IInv => SoleRefresherStaysSignedIn
  BY DEF IInv, CalmInv, Calm, StorageInv, ChainInv, RefreshInv, SoleRefresherStaysSignedIn
<1> QED BY Inductive, <1>1, PTL

=============================================================================
