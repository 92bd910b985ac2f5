----------------------- MODULE NearbyPipeline_proofs -----------------------
(* The privacy model of the nearby query, for any number of users, jobs and  *)
(* requests: what each step of a job has already seen to hold of the         *)
(* candidate it carries, whatever the writers change in the meantime.        *)
EXTENDS NearbyPipeline, TLAPS


-----------------------------------------------------------------------------
(* Types *)

\* What a request writes back is a row.
LEMMA ChangedIsRow ==
  ASSUME NEW r \in Rows, NEW q \in Updates \cup Consents, NEW t \in Nat
  PROVE  Changed(r, q, t) \in Rows
<1> USE SettingsAssumption DEF Rows, Updates, Consents
<1>1. CASE q.kind = "paused"
  <2>1. q.value \in BOOLEAN
    BY <1>1
  <2>2. [r EXCEPT !.paused = q.value] \in Rows
    BY <2>1
  <2> QED BY <1>1, <2>2 DEF Changed
<1>2. CASE q.kind = "share"
  <2>1. q.value \in BOOLEAN
    BY <1>2
  <2>2. [r EXCEPT !.share = q.value] \in Rows
    BY <2>1
  <2> QED BY <1>2, <2>2 DEF Changed
<1>3. CASE q.kind = "visibility"
  <2>1. q.value \in Visibilities
    BY <1>3
  <2>2. [r EXCEPT !.visibility = q.value] \in Rows
    BY <2>1
  <2> QED BY <1>3, <2>2 DEF Changed
<1>4. CASE q.kind = "reveal"
  <2>1. q.value \in RevealLevels
    BY <1>4
  <2>2. [r EXCEPT !.reveal = q.value] \in Rows
    BY <2>1
  <2> QED BY <1>4, <2>2 DEF Changed
<1>5. CASE q.kind = "radius"
  <2>1. q.value \in Radii
    BY <1>5
  <2>2. [r EXCEPT !.radius = q.value] \in Rows
    BY <2>1
  <2> QED BY <1>5, <2>2 DEF Changed
<1>6. CASE q.kind = "grant"
  <2>1. t + Validity \in Nat
    OBVIOUS
  <2>2. [r EXCEPT !.enabled = TRUE, !.due = t + Validity] \in Rows
    BY <2>1
  <2> QED BY <1>6, <2>2 DEF Changed
<1>7. CASE q.kind = "revoke"
  <2>1. [r EXCEPT !.enabled = FALSE, !.paused = TRUE] \in Rows
    OBVIOUS
  <2> QED BY <1>7, <2>1 DEF Changed
<1>8. q.kind \in {"paused", "share", "visibility", "reveal", "radius", "grant", "revoke"}
  OBVIOUS
<1> QED BY <1>1, <1>2, <1>3, <1>4, <1>5, <1>6, <1>7, <1>8

LEMMA DefaultIsRow == DefaultRow \in Rows
BY SettingsAssumption DEF DefaultRow, Default, Rows, Visibilities, RevealLevels

SettingsTypeOK ==
  /\ row \in [Users -> Rows]
  /\ blocked \subseteq Users \X Users /\ follows \subseteq Users \X Users
  /\ geo \subseteq Users /\ detail \in [Users -> {"none", "quiet", "track"}]
  /\ clock \in Nat
  /\ wpc \in [Writers -> {"new", "read", "zrem", "del", "done", "returned"}]
  /\ wreq \in [Writers -> Requests \cup {NoRequest}]
  /\ wrow \in [Writers -> Rows]
  /\ revoked \subseteq Users

LEMMA SettingsType == SettingsTypeOK /\ SettingsNext => SettingsTypeOK'
<1> SUFFICES ASSUME SettingsTypeOK, SettingsNext PROVE SettingsTypeOK'
  OBVIOUS
<1> USE SettingsAssumption DEF SettingsTypeOK, storeVars, indexVars, writerVars
<1>1. ASSUME NEW x \in Writers, NEW req \in Requests, ReadRow(x, req) PROVE SettingsTypeOK'
  <2>1. Changed(row[WriterUser[x]], req, clock) \in Rows
    BY <1>1, ChangedIsRow DEF ReadRow
  <2>2. /\ wpc' \in [Writers -> {"new", "read", "zrem", "del", "done", "returned"}]
        /\ wreq' \in [Writers -> Requests \cup {NoRequest}]
        /\ wrow' \in [Writers -> Rows] /\ revoked' \subseteq Users
        /\ UNCHANGED <<row, blocked, follows, geo, detail, clock>>
    BY <1>1, <2>1 DEF ReadRow
  <2> QED BY <2>2
<1>2. ASSUME NEW x \in Writers, NEW req \in Requests, EdgeRequest(x, req) PROVE SettingsTypeOK'
  <2>1. <<WriterUser[x], req.peer>> \in Users \X Users
    BY <1>2 DEF EdgeRequest, Edges
  <2>2. blocked' \subseteq Users \X Users /\ follows' \subseteq Users \X Users
    BY <1>2, <2>1 DEF EdgeRequest
  <2> QED BY <1>2, <2>2 DEF EdgeRequest
<1>3. ASSUME NEW x \in Writers, WriteRow(x) PROVE SettingsTypeOK'
  BY <1>3 DEF WriteRow
<1>4. ASSUME NEW x \in Writers, RemoveStep(x) \/ RemoveFails(x) PROVE SettingsTypeOK'
  BY <1>4 DEF RemoveStep, RemoveFails, IndexZRem, IndexDel
<1>5. ASSUME NEW x \in Writers, Return(x) \/ RequestFails(x) PROVE SettingsTypeOK'
  BY <1>5, DefaultIsRow DEF Return, RequestFails, Finish
<1>6. CASE Tick
  BY <1>6 DEF Tick
<1>7. ASSUME NEW u \in Users, DetailExpires(u) PROVE SettingsTypeOK'
  BY <1>7 DEF DetailExpires, IndexDel
<1> QED BY <1>1, <1>2, <1>3, <1>4, <1>5, <1>6, <1>7 DEF SettingsNext, Write

JobTypeOK ==
  /\ pc \in [Jobs -> {"new", "geoadd", "setdetail", "zrem", "del", "touch",
                      "geopos", "search", "filter", "settings", "follow",
                      "detail", "audit", "deliver", "done", "failed"}]
  /\ own \in [Jobs -> Rows] /\ now \in [Jobs -> Nat]
  /\ todo \in [Jobs -> SUBSET Users] /\ cand \in [Jobs -> Users \cup {NoUser}]
  /\ \A j \in Jobs : pc[j] \in {"settings", "follow"} => cand[j] \in Users
  /\ theirs \in [Jobs -> Rows] /\ keep \in [Jobs -> SUBSET Users]
  /\ named \in [Jobs -> SUBSET Users] /\ found \in [Jobs -> SUBSET Users]
  /\ out \in [Jobs -> SUBSET Users]
  /\ received \subseteq Jobs /\ audit \subseteq Jobs \X Users
  /\ windows \subseteq Users \X Users
SawTypeOK == saw \in [Jobs -> [Clauses -> SUBSET Users]]

LEMMA TypeParts == TypeOK <=> SettingsTypeOK /\ JobTypeOK /\ SawTypeOK
BY DEF TypeOK, SettingsTypeOK, JobTypeOK, SawTypeOK, Ended

\* Every store access of a job.
LEMMA JobType ==
  ASSUME SettingsTypeOK, JobTypeOK, NEW j \in Jobs, Job(j)
  PROVE  SettingsTypeOK' /\ JobTypeOK'
<1> USE PipelineAssumption DEF SettingsTypeOK, JobTypeOK, Goto, User, settingsVars, storeVars,
        indexVars, writerVars, queryVars, effectVars
<1>u. User(j) \in Users
  OBVIOUS
<1>1. CASE Start(j)
  <2>1. /\ pc'[j] \in {"zrem", "failed", "touch", "geoadd"}
        /\ own' \in [Jobs -> Rows] /\ now' \in [Jobs -> Nat]
    BY <1>1, <1>u DEF Start
  <2> QED BY <1>1, <2>1 DEF Start
<1>2. CASE GeoAdd(j)
  BY <1>2, <1>u DEF GeoAdd
<1>3. CASE SetDetail(j)
  BY <1>3, <1>u DEF SetDetail, Disclosed
<1>4. CASE Remove(j)
  <2>1. pc' = [pc EXCEPT ![j] = pc'[j]] /\ pc'[j] \in {"del", "done", "search"}
    BY <1>4 DEF Remove, AfterRemove
  <2>2. geo' \subseteq Users /\ detail' \in [Users -> {"none", "quiet", "track"}]
    <3>1. \/ geo' = geo \ {User(j)} /\ detail' = detail
          \/ geo' = geo /\ detail' = [detail EXCEPT ![User(j)] = "none"]
          \/ geo' = geo /\ detail' = detail
      BY <1>4 DEF Remove, IndexZRem, IndexDel
    <3>2. geo \subseteq Users /\ detail \in [Users -> {"none", "quiet", "track"}]
      OBVIOUS
    <3> QED BY ONLY <3>1, <3>2
  <2>3. UNCHANGED <<storeVars, clock, writerVars, revoked, queryVars, effectVars>>
    BY <1>4 DEF Remove
  <2> QED BY <2>1, <2>2, <2>3
<1>5. CASE Touch(j)
  <2>1. \E p \in {"deliver", "geopos", "search"} : pc' = [pc EXCEPT ![j] = p]
    BY <1>5 DEF Touch
  <2>2. UNCHANGED <<settingsVars, queryVars, effectVars>>
    BY <1>5 DEF Touch
  <2> QED BY <2>1, <2>2
<1>6. CASE Search(j)
  <2>1. \A v : v \in {w \in geo \ {User(j)} : Dist[User(j)][w] <= own[j].radius + Padding}
               => v \in Users
    OBVIOUS
  <2> DEFINE raw == {w \in geo \ {User(j)} : Dist[User(j)][w] <= own[j].radius + Padding}
  <2>2. /\ todo' = [todo EXCEPT ![j] = raw] \/ todo' = todo
        /\ pc' = [pc EXCEPT ![j] = "filter"] \/ pc' = [pc EXCEPT ![j] = "deliver"]
        /\ UNCHANGED <<settingsVars, own, now, cand, theirs, keep, named, found, out, effectVars>>
    BY <1>6 DEF Search
  <2>3. raw \subseteq Users
    BY <2>1
  <2> HIDE DEF raw
  <2>4. todo' \in [Jobs -> SUBSET Users]
    <3>1. todo \in [Jobs -> SUBSET Users]
      OBVIOUS
    <3> QED BY ONLY <2>2, <2>3, <3>1
  <2> QED BY <2>2, <2>4
<1>7. ASSUME NEW v \in Users, CheckBlock(j, v) PROVE SettingsTypeOK' /\ JobTypeOK'
  <2>1. todo' \in [Jobs -> SUBSET Users]
    BY <1>7 DEF CheckBlock
  <2>2. /\ \/ pc' = pc /\ cand' = cand
           \/ pc' = [pc EXCEPT ![j] = "settings"] /\ cand' = [cand EXCEPT ![j] = v]
        /\ UNCHANGED <<settingsVars, own, now, theirs, keep, named, found, out, effectVars>>
    BY <1>7 DEF CheckBlock
  <2>3. /\ cand' \in [Jobs -> Users \cup {NoUser}]
        /\ \A i \in Jobs : pc'[i] \in {"settings", "follow"} => cand'[i] \in Users
    <3>1. /\ cand \in [Jobs -> Users \cup {NoUser}] /\ DOMAIN pc = Jobs
          /\ \A i \in Jobs : pc[i] \in {"settings", "follow"} => cand[i] \in Users
      OBVIOUS
    <3>2. CASE pc' = pc /\ cand' = cand
      BY ONLY <3>1, <3>2
    <3>3. CASE pc' = [pc EXCEPT ![j] = "settings"] /\ cand' = [cand EXCEPT ![j] = v]
      BY ONLY <3>1, <3>3, v \in Users
    <3> QED BY <2>2, <3>2, <3>3
  <2>4. pc' = pc \/ pc' = [pc EXCEPT ![j] = "settings"]
    BY <2>2
  <2> QED BY <2>1, <2>2, <2>3, <2>4
<1>8. CASE CheckSettings(j)
  BY <1>8 DEF CheckSettings
<1>9. CASE CheckFollow(j)
  <2>1. cand[j] \in Users
    BY <1>9 DEF CheckFollow
  <2>2. /\ windows' \subseteq Users \X Users /\ keep' \in [Jobs -> SUBSET Users]
        /\ named' \in [Jobs -> SUBSET Users]
    <3>1. /\ windows' = windows \cup {<<User(j), cand[j]>>} \/ windows' = windows
          /\ keep' = [keep EXCEPT ![j] = @ \cup {cand[j]}] \/ keep' = keep
          /\ named' = [named EXCEPT ![j] = @ \cup {cand[j]}] \/ named' = named
      BY <1>9 DEF CheckFollow
    <3>2. /\ keep \in [Jobs -> SUBSET Users] /\ named \in [Jobs -> SUBSET Users]
          /\ windows \subseteq Users \X Users
      OBVIOUS
    <3>3. <<User(j), cand[j]>> \in Users \X Users
      BY <1>u, <2>1
    <3>4. windows' \subseteq Users \X Users
      BY ONLY <3>1, <3>2, <3>3
    <3>5. keep' \in [Jobs -> SUBSET Users]
      BY ONLY <3>1, <3>2, <2>1
    <3>6. named' \in [Jobs -> SUBSET Users]
      BY ONLY <3>1, <3>2, <2>1
    <3> QED BY <3>4, <3>5, <3>6
  <2> QED BY <1>9, <2>2 DEF CheckFollow
<1>10. CASE FilterDone(j) \/ AuditDone(j)
  <2>1. CASE FilterDone(j)
    BY <2>1, SMTT(30) DEF FilterDone
  <2>2. CASE AuditDone(j)
    BY <2>2, SMTT(30) DEF AuditDone
  <2> QED BY <1>10, <2>1, <2>2
<1>11. CASE ReadDetail(j)
  BY <1>11 DEF ReadDetail
<1>12. ASSUME NEW v \in Users, Audit(j, v) PROVE SettingsTypeOK' /\ JobTypeOK'
  BY <1>12 DEF Audit, Logged
<1>13. CASE Deliver(j)
  BY <1>13 DEF Deliver
<1>14. CASE Fail(j)
  BY <1>14 DEF Fail
<1> QED BY <1>1, <1>2, <1>3, <1>4, <1>5, <1>6, <1>7, <1>8, <1>9, <1>10, <1>11, <1>12, <1>13,
           <1>14 DEF Job

\* Every step of the system.
LEMMA TypeStep == TypeOK /\ [Next]_vars => TypeOK'
<1> SUFFICES ASSUME SettingsTypeOK, JobTypeOK, SawTypeOK, [Next]_vars
             PROVE  SettingsTypeOK' /\ JobTypeOK' /\ SawTypeOK'
  BY TypeParts, PTL
<1>1. CASE UNCHANGED vars
  BY <1>1 DEF vars, settingsVars, storeVars, indexVars, writerVars, queryVars, effectVars,
     SettingsTypeOK, JobTypeOK, SawTypeOK
<1>2. ASSUME Next PROVE SettingsTypeOK' /\ JobTypeOK'
  <2>1. ASSUME NEW j \in Jobs, Job(j) PROVE SettingsTypeOK' /\ JobTypeOK'
    BY <2>1, JobType
  <2>2. CASE Settings
    BY <2>2, SettingsType DEF Settings, JobTypeOK, queryVars, effectVars
  <2>3. ASSUME NEW p \in Users \X Users, WindowEnds(p) PROVE SettingsTypeOK' /\ JobTypeOK'
    BY <2>3 DEF WindowEnds, settingsVars, storeVars, indexVars, writerVars, queryVars,
       SettingsTypeOK, JobTypeOK
  <2> QED BY <1>2, <2>1, <2>2, <2>3 DEF Next, Step
<1>3. ASSUME Next PROVE SawTypeOK'
  <2>1. \A j \in Jobs : \A c \in Clauses : Holds(j)'[c] \subseteq Users
    BY DEF Holds, Clauses, Others
  <2>2. Nothing \in [Clauses -> SUBSET Users]
    BY DEF Nothing
  <2> QED BY <1>3, <2>1, <2>2 DEF Next, Observe, SawTypeOK
<1> QED BY <1>1, <1>2, <1>3

-----------------------------------------------------------------------------
(* What a job has seen *)

Grows(j) ==
  /\ saw[j].clear \subseteq saw'[j].clear /\ saw[j].visible \subseteq saw'[j].visible
  /\ saw[j].consenting \subseteq saw'[j].consenting /\ saw[j].everyone \subseteq saw'[j].everyone
  /\ saw[j].mutual \subseteq saw'[j].mutual /\ saw[j].open \subseteq saw'[j].open
  /\ saw[j].reaches \subseteq saw'[j].reaches /\ saw[j].live \subseteq saw'[j].live

TakesIn(j) ==
  \A v \in Others(j) :
    /\ ~BlockedEitherWay(User(j), v)' => v \in saw'[j].clear
    /\ ~Hidden(row'[v]) => v \in saw'[j].visible
    /\ Active(row'[v], now'[j]) => v \in saw'[j].consenting
    /\ row'[v].visibility = "everyone" => v \in saw'[j].everyone
    /\ Mutual(User(j), v)' => v \in saw'[j].mutual
    /\ row'[v].reveal = 2 => v \in saw'[j].open
    /\ Dist[User(j)][v] <= row'[v].radius => v \in saw'[j].reaches
    /\ HasDetail(v)' => v \in saw'[j].live

\* A step adds to the history of a call what holds after the step, and takes
\* nothing away but when the call fails.
LEMMA Observed ==
  ASSUME Next, NEW j \in Jobs, pc'[j] \notin {"new", "failed"}
  PROVE  Grows(j) /\ (pc[j] \notin Ended => TakesIn(j))
<1>1. saw'[j] = IF pc[j] \in Ended THEN saw[j]
                ELSE [c \in Clauses |-> saw[j][c] \cup Holds(j)'[c]]
  BY DEF Next, Observe
<1>2. CASE pc[j] \in Ended
  BY <1>1, <1>2 DEF Grows
<1>3. CASE pc[j] \notin Ended
  <2>1. \A c \in Clauses : saw'[j][c] = saw[j][c] \cup Holds(j)'[c]
    BY <1>1, <1>3
  <2>2. Grows(j)
    BY <2>1 DEF Grows, Clauses
  <2>3. /\ Holds(j)'.clear = {v \in Others(j) : ~BlockedEitherWay(User(j), v)'}
        /\ Holds(j)'.visible = {v \in Others(j) : ~Hidden(row'[v])}
        /\ Holds(j)'.consenting = {v \in Others(j) : Active(row'[v], now'[j])}
        /\ Holds(j)'.everyone = {v \in Others(j) : row'[v].visibility = "everyone"}
        /\ Holds(j)'.mutual = {v \in Others(j) : Mutual(User(j), v)'}
        /\ Holds(j)'.open = {v \in Others(j) : row'[v].reveal = 2}
        /\ Holds(j)'.reaches = {v \in Others(j) : Dist[User(j)][v] <= row'[v].radius}
        /\ Holds(j)'.live = {v \in Others(j) : HasDetail(v)'}
    BY DEF Holds, BlockedEitherWay, Mutual, Others, User, HasDetail
  <2>4. /\ Holds(j)'.clear \subseteq saw'[j].clear /\ Holds(j)'.visible \subseteq saw'[j].visible
        /\ Holds(j)'.consenting \subseteq saw'[j].consenting
        /\ Holds(j)'.everyone \subseteq saw'[j].everyone
        /\ Holds(j)'.mutual \subseteq saw'[j].mutual /\ Holds(j)'.open \subseteq saw'[j].open
        /\ Holds(j)'.reaches \subseteq saw'[j].reaches /\ Holds(j)'.live \subseteq saw'[j].live
    BY <2>1 DEF Clauses
  <2>5. TakesIn(j)
    BY ONLY <2>3, <2>4 DEF TakesIn
  <2> QED BY <2>2, <2>5
<1> QED BY <1>2, <1>3

\* What the clauses of the privacy model have been seen to say of v.
Kept(j, v) ==
  /\ v \in Others(j) /\ v \in saw[j].clear /\ v \in saw[j].visible
  /\ v \in saw[j].consenting /\ v \in saw[j].everyone \cup saw[j].mutual
  /\ v \in saw[j].reaches

\* The candidate passed the block check, and then the checks on its row.
CandInv(j) ==
  /\ pc[j] \in {"settings", "follow"} => cand[j] \in Others(j) /\ cand[j] \in saw[j].clear
  /\ pc[j] = "follow" =>
       /\ cand[j] \in saw[j].visible /\ cand[j] \in saw[j].consenting
       /\ theirs[j].visibility \in {"friends_only", "everyone"}
       /\ theirs[j].visibility = "everyone" => cand[j] \in saw[j].everyone
       /\ theirs[j].reveal = 2 => cand[j] \in saw[j].open
       /\ Dist[User(j)][cand[j]] <= theirs[j].radius => cand[j] \in saw[j].reaches

\* The survivors, and what becomes of them.
KeepInv(j) ==
  /\ \A v \in keep[j] : Kept(j, v)
  /\ named[j] \subseteq saw[j].mutual \cup saw[j].open
  /\ found[j] \subseteq keep[j] \cap saw[j].live /\ out[j] \subseteq found[j]
  /\ todo[j] \subseteq Others(j)

\* Results are built last; calls that have not begun or have failed hold nobody.
Late == {"audit", "deliver", "done"}
EmptyInv(j) ==
  /\ pc[j] \in {"new", "failed"} =>
       todo[j] = {} /\ keep[j] = {} /\ named[j] = {} /\ found[j] = {} /\ out[j] = {}
  /\ pc[j] \notin Late => out[j] = {}

JobInv(j) == CandInv(j) /\ KeepInv(j) /\ EmptyInv(j)

Same(j) ==
  /\ cand'[j] = cand[j] /\ theirs'[j] = theirs[j] /\ keep'[j] = keep[j]
  /\ named'[j] = named[j] /\ found'[j] = found[j] /\ out'[j] = out[j]

\* Growth alone disturbs nothing.
LEMMA KeptGrows == ASSUME NEW j \in Jobs, Grows(j), NEW v, Kept(j, v) PROVE Kept(j, v)'
BY DEF Grows, Kept, Others, User

LEMMA KeepGrows ==
  ASSUME NEW j \in Jobs, Grows(j), KeepInv(j), Same(j), todo'[j] \subseteq Others(j)
  PROVE  KeepInv(j)'
<1>1. \A v \in keep'[j] : Kept(j, v)'
  BY KeptGrows DEF Same, KeepInv
<1>2. named'[j] \subseteq saw'[j].mutual \cup saw'[j].open
  BY DEF Same, KeepInv, Grows
<1>3. found'[j] \subseteq keep'[j] \cap saw'[j].live /\ out'[j] \subseteq found'[j]
  BY DEF Same, KeepInv, Grows
<1> QED BY <1>1, <1>2, <1>3 DEF KeepInv, Others, User

LEMMA CandGrows ==
  ASSUME NEW j \in Jobs, Grows(j), CandInv(j), Same(j), pc'[j] = pc[j]
  PROVE  CandInv(j)'
BY DEF Grows, CandInv, Same, Others, User

\* A call that does not move.
LEMMA Quiet ==
  ASSUME Next, NEW j \in Jobs, JobInv(j), Same(j), pc'[j] = pc[j], todo'[j] = todo[j]
  PROVE  JobInv(j)'
<1>1. EmptyInv(j)'
  BY DEF JobInv, EmptyInv, Same
<1>2. CASE pc[j] \in {"new", "failed"}
  <2>1. todo'[j] = {} /\ keep'[j] = {} /\ named'[j] = {} /\ found'[j] = {} /\ out'[j] = {}
    BY <1>2 DEF JobInv, EmptyInv, Same
  <2>2. KeepInv(j)'
    BY ONLY <2>1 DEF KeepInv
  <2>3. CandInv(j)'
    BY <1>2 DEF CandInv
  <2> QED BY <1>1, <2>2, <2>3 DEF JobInv
<1>3. CASE pc[j] \notin {"new", "failed"}
  <2>1. Grows(j)
    BY <1>3, Observed
  <2> QED BY <1>1, <2>1, KeepGrows, CandGrows DEF JobInv, KeepInv
<1> QED BY <1>2, <1>3

\* A call that stays clear of the filter's branches: it goes somewhere the
\* candidate is not looked at, or fails and forgets everybody.
LEMMA Aside ==
  ASSUME Next, NEW j \in Jobs, JobInv(j), Same(j), todo'[j] \subseteq Others(j),
         pc[j] \notin Ended, pc'[j] \notin {"new", "failed", "settings", "follow"},
         pc[j] \in Late => pc'[j] \in Late
  PROVE  JobInv(j)'
<1>1. Grows(j)
  BY Observed
<1>2. KeepInv(j)'
  BY <1>1, KeepGrows DEF JobInv
<1>3. CandInv(j)'
  BY DEF CandInv
<1>4. EmptyInv(j)'
  BY DEF JobInv, EmptyInv, Same
<1> QED BY <1>2, <1>3, <1>4 DEF JobInv

LEMMA Forgets ==
  ASSUME NEW j \in Jobs, pc'[j] \in {"new", "failed"}, todo'[j] = {}, keep'[j] = {},
         named'[j] = {}, found'[j] = {}, out'[j] = {}
  PROVE  JobInv(j)'
BY DEF JobInv, CandInv, KeepInv, EmptyInv

\* The acting call, branch by branch.
LEMMA Acts ==
  ASSUME SettingsTypeOK, JobTypeOK, Next, NEW j \in Jobs, Job(j), JobInv(j)
  PROVE  JobInv(j)'
<1>k. KeepInv(j) /\ CandInv(j) /\ EmptyInv(j) /\ todo[j] \subseteq Others(j)
  BY DEF JobInv, KeepInv
<1>t. /\ pc \in [Jobs -> {"new", "geoadd", "setdetail", "zrem", "del", "touch",
                          "geopos", "search", "filter", "settings", "follow",
                          "detail", "audit", "deliver", "done", "failed"}]
      /\ now \in [Jobs -> Nat] /\ todo \in [Jobs -> SUBSET Users]
      /\ cand \in [Jobs -> Users \cup {NoUser}] /\ theirs \in [Jobs -> Rows]
      /\ keep \in [Jobs -> SUBSET Users] /\ named \in [Jobs -> SUBSET Users]
      /\ found \in [Jobs -> SUBSET Users] /\ out \in [Jobs -> SUBSET Users]
  BY DEF JobTypeOK
<1>1. CASE Start(j)
  <2>1. CASE pc'[j] = "failed"
    <3>1. todo' = todo /\ keep' = keep /\ named' = named /\ found' = found /\ out' = out /\ pc[j] = "new"
      BY <1>1 DEF Start
    <3> QED BY <2>1, <3>1, <1>k, Forgets DEF EmptyInv
  <2>2. CASE pc'[j] # "failed"
    <3>1. pc'[j] \in {"zrem", "touch", "geoadd"}
      BY <1>1, <1>t, <2>2 DEF Start, Goto
    <3>2. Same(j) /\ todo'[j] = todo[j] /\ pc[j] = "new"
      BY <1>1 DEF Start, Same
    <3> QED BY <1>k, <3>1, <3>2, Aside DEF Ended, Late
  <2> QED BY <2>1, <2>2
<1>2. CASE GeoAdd(j) \/ SetDetail(j) \/ Touch(j)
  <2>1. /\ Same(j) /\ todo'[j] = todo[j] /\ pc[j] \notin Ended \cup Late
        /\ pc'[j] \in {"setdetail", "search", "deliver", "geopos"}
    BY <1>2, <1>t DEF GeoAdd, SetDetail, Touch, Goto, Same, queryVars, Ended, Late
  <2> QED BY <1>k, <2>1, Aside DEF Late
<1>3. CASE Remove(j)
  <2>1. /\ Same(j) /\ todo'[j] = todo[j] /\ pc[j] \notin Ended \cup Late
        /\ pc'[j] \in {"del", "done", "search"}
    BY <1>3, <1>t DEF Remove, AfterRemove, Goto, Same, queryVars, Ended, Late
  <2> QED BY <1>k, <2>1, Aside DEF Late
<1>4. CASE Search(j)
  <2>1. /\ Same(j) /\ pc[j] \notin Ended \cup Late /\ pc'[j] \in {"filter", "deliver"}
    BY <1>4, <1>t DEF Search, Goto, Same, Ended, Late
  <2>2. todo'[j] \subseteq Others(j)
    <3>1. \A v \in geo \ {User(j)} : v \in Others(j)
      BY DEF SettingsTypeOK, Others
    <3>2. \/ todo' = [todo EXCEPT ![j] =
                        {v \in geo \ {User(j)} : Dist[User(j)][v] <= own[j].radius + Padding}]
          \/ todo' = todo
      BY <1>4 DEF Search
    <3> QED BY ONLY <3>1, <3>2, <1>k, <1>t, j \in Jobs
  <2> QED BY <2>1, <2>2, Aside DEF Late
<1>5. ASSUME NEW v \in Users, CheckBlock(j, v) PROVE JobInv(j)'
  <2>1. /\ todo'[j] = todo[j] \ {v} /\ v \in Others(j)
        /\ keep' = keep /\ named' = named /\ found' = found /\ out' = out /\ theirs' = theirs
        /\ pc[j] = "filter" /\ UNCHANGED <<row, blocked, follows>>
    BY <1>5, <1>k, <1>t DEF CheckBlock, settingsVars, storeVars
  <2>2. CASE BlockedEitherWay(User(j), v)
    <3>1. Same(j) /\ pc'[j] = "filter"
      BY <1>5, <2>1, <2>2 DEF CheckBlock, Same
    <3> QED BY <1>k, <2>1, <3>1, Aside DEF Ended, Late
  <2>3. CASE ~BlockedEitherWay(User(j), v)
    <3>1. pc'[j] = "settings" /\ cand'[j] = v
      BY <1>5, <1>t, <2>3 DEF CheckBlock, Goto
    <3>2. Grows(j) /\ TakesIn(j)
      BY <2>1, <3>1, Observed DEF Ended
    <3>3. v \in saw'[j].clear
      BY <2>1, <2>3, <3>2 DEF TakesIn, BlockedEitherWay, User
    <3>4. CandInv(j)' /\ EmptyInv(j)'
      BY <1>k, <2>1, <3>1, <3>3 DEF CandInv, EmptyInv, Late, Others, User
    <3>5. \A w \in keep'[j] : Kept(j, w)'
      BY <1>k, <2>1, <3>2, KeptGrows DEF KeepInv
    <3>6. KeepInv(j)'
      BY <1>k, <2>1, <3>2, <3>5 DEF KeepInv, Grows, Others, User
    <3> QED BY <3>4, <3>6 DEF JobInv
  <2> QED BY <2>2, <2>3
<1>6. CASE CheckSettings(j)
  <2> DEFINE v == cand[j]
             r == row[v]
  <2>1. /\ pc[j] = "settings" /\ v \in Others(j) /\ v \in Users /\ theirs'[j] = r
        /\ r \in Rows /\ UNCHANGED <<row, now, todo, cand, keep, named, found, out>>
    BY <1>6, <1>k, <1>t DEF CheckSettings, CandInv, Others, settingsVars, storeVars, SettingsTypeOK
  <2>2. pc'[j] = IF Discoverable(r, now[j]) THEN "follow" ELSE "filter"
    BY <1>6, <1>t DEF CheckSettings, Goto
  <2>3. Grows(j) /\ TakesIn(j)
    BY <2>1, <2>2, Observed DEF Ended
  <2>4. \A w \in keep'[j] : Kept(j, w)'
    BY <1>k, <2>1, <2>3, KeptGrows DEF KeepInv
  <2>5. KeepInv(j)' /\ EmptyInv(j)'
    BY <1>k, <2>1, <2>2, <2>3, <2>4 DEF KeepInv, EmptyInv, Late, Grows, Others, User
  <2>6. CASE ~Discoverable(r, now[j])
    BY <2>2, <2>5, <2>6 DEF JobInv, CandInv
  <2>7. CASE Discoverable(r, now[j])
    <3>1. v \in saw'[j].clear
      BY <1>k, <2>1, <2>3 DEF CandInv, Grows
    <3>2. /\ v \in saw'[j].visible /\ v \in saw'[j].consenting
          /\ r.visibility = "everyone" => v \in saw'[j].everyone
          /\ r.reveal = 2 => v \in saw'[j].open
          /\ Dist[User(j)][v] <= r.radius => v \in saw'[j].reaches
      BY <2>1, <2>3, <2>7 DEF TakesIn, Discoverable
    <3>3. r.visibility \in {"friends_only", "everyone"}
      BY <2>1, <2>7 DEF Discoverable, Hidden, Rows, Visibilities
    <3>4. pc'[j] = "follow" /\ cand'[j] = v /\ theirs'[j] = r
      BY <2>1, <2>2, <2>7
    <3>5. CandInv(j)'
      <4> HIDE DEF v, r
      <4> QED BY <2>1, <3>1, <3>2, <3>3, <3>4 DEF CandInv, Others, User
    <3> QED BY <2>5, <3>5 DEF JobInv
  <2> QED BY <2>6, <2>7
<1>7. CASE CheckFollow(j)
  <2> DEFINE v == cand[j]
  <2>1. /\ pc[j] = "follow" /\ v \in Others(j) /\ pc'[j] = "filter"
        /\ UNCHANGED <<row, follows, todo, cand, theirs, found, out>>
    BY <1>7, <1>k, <1>t DEF CheckFollow, Goto, CandInv, settingsVars, storeVars
  <2>2. Grows(j) /\ TakesIn(j)
    BY <2>1, Observed DEF Ended
  <2>3. \A w \in keep[j] : Kept(j, w)'
    BY <1>k, <2>2, KeptGrows DEF KeepInv
  <2>4. Mutual(User(j), v) => v \in saw'[j].mutual
    BY <2>1, <2>2 DEF TakesIn, Mutual, User
  <2>5. CandInv(j)' /\ EmptyInv(j)' /\ todo'[j] \subseteq Others(j)
    BY <2>1, <1>k DEF CandInv, EmptyInv, Late
  <2>6. CASE keep' = keep /\ named' = named
    <3>1. named'[j] \subseteq saw'[j].mutual \cup saw'[j].open
      BY <1>k, <2>2, <2>6 DEF KeepInv, Grows
    <3>2. KeepInv(j)'
      BY <1>k, <2>1, <2>2, <2>3, <2>5, <2>6, <3>1 DEF KeepInv, Grows, Others, User
    <3> QED BY <2>5, <3>2 DEF JobInv
  <2>7. CASE ~(keep' = keep /\ named' = named)
    <3>1. /\ theirs[j].visibility = "friends_only" => Mutual(User(j), v)
          /\ Dist[User(j)][v] <= theirs[j].radius
          /\ keep' = [keep EXCEPT ![j] = @ \cup {v}]
          /\ named' = IF NamedTo(User(j), v, theirs[j])
                      THEN [named EXCEPT ![j] = @ \cup {v}] ELSE named
      BY <1>7, <2>7 DEF CheckFollow
    <3>2. Kept(j, v)'
      <4>1. /\ v \in saw'[j].clear /\ v \in saw'[j].visible /\ v \in saw'[j].consenting
            /\ v \in saw'[j].reaches
        BY <1>k, <2>1, <2>2, <3>1 DEF CandInv, Grows
      <4>2. v \in saw'[j].everyone \cup saw'[j].mutual
        BY <1>k, <2>1, <2>2, <2>4, <3>1 DEF CandInv, Grows
      <4> QED BY <2>1, <4>1, <4>2 DEF Kept, Others, User
    <3>3. named'[j] \subseteq saw'[j].mutual \cup saw'[j].open
      <4>1. named[j] \subseteq saw'[j].mutual \cup saw'[j].open
        BY <1>k, <2>2 DEF KeepInv, Grows
      <4>2. NamedTo(User(j), v, theirs[j]) => v \in saw'[j].mutual \cup saw'[j].open
        BY <1>k, <2>1, <2>2, <2>4 DEF NamedTo, CandInv, Grows
      <4>3. /\ named'[j] = named[j] \cup {v} \/ named'[j] = named[j]
            /\ named'[j] # named[j] => NamedTo(User(j), v, theirs[j])
        BY <3>1, <1>t
      <4> QED BY ONLY <4>1, <4>2, <4>3
    <3>4. keep'[j] = keep[j] \cup {v}
      BY <3>1, <1>t
    <3>5. \A w \in keep'[j] : Kept(j, w)'
      BY <2>1, <2>3, <3>2, <3>4
    <3>6. KeepInv(j)'
      BY <1>k, <2>1, <2>2, <2>5, <3>3, <3>4, <3>5 DEF KeepInv, Grows, Others, User
    <3> QED BY <2>5, <3>6 DEF JobInv
  <2> QED BY <2>6, <2>7
<1>8. CASE FilterDone(j) \/ AuditDone(j) \/ Deliver(j)
  <2>1. /\ Same(j) /\ todo'[j] = todo[j] /\ pc[j] \notin Ended
        /\ pc'[j] \in {"deliver", "detail", "done"}
        /\ pc[j] = "filter" \/ pc'[j] \in {"deliver", "done"}
    BY <1>8, <1>t DEF FilterDone, AuditDone, Deliver, Goto, Same, queryVars, Ended, Late
  <2> QED BY <1>k, <2>1, Aside DEF Late
<1>9. CASE ReadDetail(j) \/ \E v \in Users : Audit(j, v)
  <2>1. /\ pc[j] \in {"detail", "audit"} /\ pc'[j] = "audit"
        /\ UNCHANGED <<row, todo, cand, theirs, keep, named>>
    BY <1>9, <1>t DEF ReadDetail, Audit, Goto, settingsVars, storeVars
  <2>2. Grows(j)
    BY <2>1, Observed
  <2>3. found'[j] \subseteq keep[j] \cap saw'[j].live /\ out'[j] \subseteq found'[j]
    <3>1. CASE ReadDetail(j)
      <4>0. out[j] = {} /\ out' = out /\ detail' = detail
        BY <3>1, <1>k DEF ReadDetail, EmptyInv, Late, settingsVars, indexVars
      <4>1. found'[j] = {v \in keep[j] : HasDetail(v)'}
        BY <3>1, <1>t, <4>0 DEF ReadDetail, HasDetail
      <4>2. TakesIn(j)
        BY <2>1, Observed DEF Ended
      <4>3. keep[j] \subseteq Others(j)
        BY <1>k DEF KeepInv, Kept
      <4> QED BY <4>0, <4>1, <4>2, <4>3 DEF TakesIn
    <3>2. ASSUME NEW v \in Users, Audit(j, v)
          PROVE  found'[j] \subseteq keep[j] \cap saw'[j].live /\ out'[j] \subseteq found'[j]
      BY <3>2, <1>k, <1>t, <2>2 DEF Audit, KeepInv, Grows
    <3> QED BY <1>9, <3>1, <3>2
  <2>4. \A w \in keep'[j] : Kept(j, w)'
    BY <1>k, <2>1, <2>2, KeptGrows DEF KeepInv
  <2>5. KeepInv(j)'
    BY <1>k, <2>1, <2>2, <2>3, <2>4 DEF KeepInv, Grows, Others, User
  <2> QED BY <2>1, <2>5 DEF JobInv, CandInv, EmptyInv, Late
<1>10. CASE Fail(j)
  <2>1. /\ pc'[j] = "failed" /\ todo'[j] = {} /\ keep'[j] = {} /\ named'[j] = {}
        /\ found'[j] = {} /\ out'[j] = {}
    BY <1>10, <1>t DEF Fail, Goto
  <2> QED BY <2>1, Forgets
<1> QED BY <1>1, <1>2, <1>3, <1>4, <1>5, <1>6, <1>7, <1>8, <1>9, <1>10 DEF Job

\* Every step leaves the other calls where they are.
LEMMA JobStep ==
  SettingsTypeOK /\ JobTypeOK /\ (\A j \in Jobs : JobInv(j)) /\ [Next]_vars
    => (\A j \in Jobs : JobInv(j))'
<1> SUFFICES ASSUME SettingsTypeOK, JobTypeOK, \A j \in Jobs : JobInv(j), [Next]_vars,
                    NEW j \in Jobs
             PROVE  JobInv(j)'
  OBVIOUS
<1>1. CASE UNCHANGED vars
  BY <1>1 DEF vars, queryVars, JobInv, CandInv, KeepInv, Kept, EmptyInv, Others, User
<1>2. CASE Next
  <2>1. ASSUME NEW i \in Jobs, Job(i), i # j PROVE JobInv(j)'
    <3>1. /\ Same(j) /\ pc'[j] = pc[j] /\ todo'[j] = todo[j]
      BY <2>1 DEF Job, Start, GeoAdd, SetDetail, Remove, Touch, Search, CheckBlock, CheckSettings,
         CheckFollow, FilterDone, ReadDetail, Audit, AuditDone, Deliver, Fail, Goto, Same,
         queryVars, JobTypeOK
    <3> QED BY <1>2, <3>1, Quiet
  <2>2. CASE Settings \/ \E p \in Users \X Users : WindowEnds(p)
    <3>1. Same(j) /\ pc'[j] = pc[j] /\ todo'[j] = todo[j]
      BY <2>2 DEF Settings, WindowEnds, Same, queryVars
    <3> QED BY <1>2, <3>1, Quiet
  <2>3. CASE Job(j)
    BY <1>2, <2>3, Acts
  <2> QED BY <1>2, <2>1, <2>2, <2>3 DEF Next, Step
<1> QED BY <1>1, <1>2

\* A result is logged before it is built.
AuditInv == \A j \in Jobs : \A v \in out[j] : <<j, v>> \in audit

LEMMA AuditStep == JobTypeOK /\ AuditInv /\ [Next]_vars => AuditInv'
<1> SUFFICES ASSUME JobTypeOK, AuditInv, [Next]_vars PROVE AuditInv'
  OBVIOUS
<1>t. out \in [Jobs -> SUBSET Users]
  BY DEF JobTypeOK
<1>1. ASSUME NEW j \in Jobs, NEW v \in Users, Audit(j, v) PROVE AuditInv'
  BY <1>1, <1>t DEF Audit, Logged, AuditInv
<1>2. ASSUME NEW j \in Jobs, Fail(j) PROVE AuditInv'
  BY <1>2, <1>t DEF Fail, effectVars, AuditInv
<1>3. ASSUME out' = out, audit' = audit PROVE AuditInv'
  BY <1>3 DEF AuditInv
<1>4. ASSUME NEW j \in Jobs, Job(j), ~Fail(j), ~\E v \in Users : Audit(j, v)
      PROVE  out' = out /\ audit' = audit
  BY <1>4 DEF Job, Start, GeoAdd, SetDetail, Remove, Touch, Search, CheckBlock, CheckSettings,
     CheckFollow, FilterDone, ReadDetail, AuditDone, Deliver, queryVars, effectVars
<1>5. CASE Settings \/ \E p \in Users \X Users : WindowEnds(p)
  BY <1>3, <1>5 DEF Settings, WindowEnds, queryVars, effectVars
<1>6. CASE UNCHANGED vars
  BY <1>3, <1>6 DEF vars, queryVars, effectVars
<1> QED BY <1>1, <1>2, <1>3, <1>4, <1>5, <1>6 DEF Next, Step

-----------------------------------------------------------------------------

IInv == TypeOK /\ (\A j \in Jobs : JobInv(j)) /\ AuditInv

LEMMA Inductive == Spec => []IInv
<1>1. Init => IInv
  <2> SUFFICES ASSUME Init PROVE IInv
    OBVIOUS
  <2>1. row \in [Users -> Rows]
    <3>1. /\ row \in [Users -> UNION {InitialRows[u] : u \in Users}]
          /\ \A u \in Users : row[u] \in InitialRows[u]
      BY DEF Init, SettingsInit, Choices
    <3>2. \A u \in Users : InitialRows[u] \subseteq Rows
      BY SettingsAssumption
    <3> QED BY <3>1, <3>2
  <2>2. SettingsTypeOK
    BY <2>1, SettingsAssumption, DefaultIsRow DEF Init, SettingsInit, SettingsTypeOK, Disclosed
  <2>3. JobTypeOK
    BY <2>1, PipelineAssumption DEF Init, JobTypeOK, User
  <2>4. SawTypeOK
    BY DEF Init, SawTypeOK, Nothing
  <2>5. \A j \in Jobs : JobInv(j)
    BY DEF Init, JobInv, CandInv, KeepInv, EmptyInv, Late
  <2>6. AuditInv
    BY DEF Init, AuditInv
  <2> QED BY <2>2, <2>3, <2>4, <2>5, <2>6, TypeParts DEF IInv
<1>2. IInv /\ [Next]_vars => IInv'
  BY TypeStep, TypeParts, JobStep, AuditStep DEF IInv
<1> QED BY <1>1, <1>2, PTL DEF Spec

\* The stores, the jobs and their histories keep their types.
THEOREM PipelineTyped == Spec => []TypeOK
<1>1. IInv => TypeOK
  BY DEF IInv
<1> QED BY <1>1, Inductive, PTL

\* Whatever rows, blocks, follows and index entries change during a call, and
\* wherever calls fail, a result names only users whom every clause of the
\* privacy model admitted at some instant of that call.
THEOREM ResultsAreDiscoverable == Spec => []OnlyDiscoverable
<1>1. IInv => OnlyDiscoverable
  <2> SUFFICES ASSUME IInv, NEW j \in Jobs, NEW v \in out[j]
               PROVE  Kept(j, v) /\ v # User(j) /\ v \in saw[j].live
    BY DEF OnlyDiscoverable, Kept
  <2> QED BY DEF IInv, JobInv, KeepInv, Kept, Others
<1> QED BY <1>1, Inductive, PTL

\* A profile is resolved only for a mutual follow or by open discovery.
THEOREM NamesAreTrusted == Spec => []NamedByTrust
<1>1. IInv => NamedByTrust
  BY DEF IInv, JobInv, KeepInv, NamedByTrust
<1> QED BY <1>1, Inductive, PTL

\* Every target of a result a requester took is in the audit log.
THEOREM DisclosuresAreAudited == Spec => []AuditCoversDisclosure
<1>1. IInv => AuditCoversDisclosure
  BY DEF IInv, TypeOK, AuditInv, AuditCoversDisclosure
<1> QED BY <1>1, Inductive, PTL

-----------------------------------------------------------------------------
(* What the history means for the user who hides                            *)

\* Why v may not be in a result of j, or ("stranger") not be named in it.
Reasons == {"blocked", "hidden", "revoked", "estranged", "beyond", "stranger"}

Withheld(reason, j, v) ==
  \/ reason = "blocked" /\ BlockedEitherWay(User(j), v)
  \/ reason = "hidden" /\ Hidden(row[v])
  \/ reason = "revoked" /\ ~row[v].enabled
  \/ reason = "estranged" /\ row[v].visibility # "everyone" /\ ~Mutual(User(j), v)
  \/ reason = "beyond" /\ ~(Dist[User(j)][v] <= row[v].radius)
  \/ reason = "stranger" /\ row[v].reveal # 2 /\ ~Mutual(User(j), v)

Unseen(reason, j, v) ==
  \/ reason = "blocked" /\ v \notin saw[j].clear
  \/ reason = "hidden" /\ v \notin saw[j].visible
  \/ reason = "revoked" /\ v \notin saw[j].consenting
  \/ reason = "estranged" /\ v \notin saw[j].everyone \cup saw[j].mutual
  \/ reason = "beyond" /\ v \notin saw[j].reaches
  \/ reason = "stranger" /\ v \notin saw[j].open \cup saw[j].mutual

Running(j) == pc[j] \notin Ended
FreshInv(j) == pc[j] = "new" => saw[j] = Nothing

\* A call writes no settings, blocks or follows.
LEMMA JobKeepsStore ==
  ASSUME NEW j \in Jobs, Job(j)
  PROVE  UNCHANGED <<row, blocked, follows>>
BY DEF Job, Start, GeoAdd, SetDetail, Remove, Touch, Search, CheckBlock, Audit, CheckSettings,
       CheckFollow, FilterDone, ReadDetail, AuditDone, Deliver, Fail, settingsVars, storeVars

LEMMA FreshStep ==
  ASSUME NEW j \in Jobs, FreshInv(j), [Next]_vars
  PROVE  FreshInv(j)'
<1>1. CASE UNCHANGED vars
  BY <1>1 DEF vars, FreshInv
<1>2. CASE Next
  BY <1>2 DEF Next, Observe, FreshInv
<1> QED BY <1>1, <1>2

\* What does not hold after a step is not taken in by it.
LEMMA NotTakenIn ==
  ASSUME NEW reason \in Reasons, NEW j \in Jobs, NEW v \in Users,
         Unseen(reason, j, v), Withheld(reason, j, v)',
         saw'[j] = [c \in Clauses |-> saw[j][c] \cup Holds(j)'[c]]
  PROVE  Unseen(reason, j, v)'
<1>1. \A c \in Clauses : saw'[j][c] = saw[j][c] \cup Holds(j)'[c]
  OBVIOUS
<1>2. /\ Holds(j)'.clear = {w \in Others(j) : ~BlockedEitherWay(User(j), w)'}
      /\ Holds(j)'.visible = {w \in Others(j) : ~Hidden(row'[w])}
      /\ Holds(j)'.consenting = {w \in Others(j) : Active(row'[w], now'[j])}
      /\ Holds(j)'.everyone = {w \in Others(j) : row'[w].visibility = "everyone"}
      /\ Holds(j)'.mutual = {w \in Others(j) : Mutual(User(j), w)'}
      /\ Holds(j)'.open = {w \in Others(j) : row'[w].reveal = 2}
      /\ Holds(j)'.reaches = {w \in Others(j) : Dist[User(j)][w] <= row'[w].radius}
  BY DEF Holds, BlockedEitherWay, Mutual, Others, User
<1>3. /\ saw'[j].clear = saw[j].clear \cup Holds(j)'.clear
      /\ saw'[j].visible = saw[j].visible \cup Holds(j)'.visible
      /\ saw'[j].consenting = saw[j].consenting \cup Holds(j)'.consenting
      /\ saw'[j].everyone = saw[j].everyone \cup Holds(j)'.everyone
      /\ saw'[j].mutual = saw[j].mutual \cup Holds(j)'.mutual
      /\ saw'[j].open = saw[j].open \cup Holds(j)'.open
      /\ saw'[j].reaches = saw[j].reaches \cup Holds(j)'.reaches
  BY <1>1 DEF Clauses
<1>4. CASE reason = "blocked"
  <2>1. v \notin Holds(j)'.clear
    BY <1>2, <1>4 DEF Withheld, BlockedEitherWay, User
  <2> QED BY <1>3, <1>4, <2>1 DEF Unseen
<1>5. CASE reason = "hidden"
  <2>1. v \notin Holds(j)'.visible
    BY <1>2, <1>5 DEF Withheld
  <2> QED BY <1>3, <1>5, <2>1 DEF Unseen
<1>6. CASE reason = "revoked"
  <2>1. v \notin Holds(j)'.consenting
    BY <1>2, <1>6 DEF Withheld, Active
  <2> QED BY <1>3, <1>6, <2>1 DEF Unseen
<1>7. CASE reason = "estranged"
  <2>1. v \notin Holds(j)'.everyone \cup Holds(j)'.mutual
    BY <1>2, <1>7 DEF Withheld, Mutual, User
  <2> QED BY <1>3, <1>7, <2>1 DEF Unseen
<1>8. CASE reason = "beyond"
  <2>1. v \notin Holds(j)'.reaches
    BY <1>2, <1>8 DEF Withheld, User
  <2> QED BY <1>3, <1>8, <2>1 DEF Unseen
<1>9. CASE reason = "stranger"
  <2>1. v \notin Holds(j)'.open \cup Holds(j)'.mutual
    BY <1>2, <1>9 DEF Withheld, Mutual, User
  <2> QED BY <1>3, <1>9, <2>1 DEF Unseen
<1> QED BY <1>4, <1>5, <1>6, <1>7, <1>8, <1>9 DEF Reasons

\* The history of a call is empty before the call begins and when it fails.
LEMMA NothingSeen ==
  ASSUME NEW reason \in Reasons, NEW j \in Jobs, NEW v \in Users, saw[j] = Nothing
  PROVE  Unseen(reason, j, v)
<1>1. \A c \in Clauses : saw[j][c] = {}
  BY DEF Nothing
<1> QED BY <1>1 DEF Unseen, Reasons, Clauses

\* As long as the reason holds while the call runs, the call never sees the
\* user: its own last step writes nothing the reason depends on.
LEMMA UnseenStep ==
  ASSUME NEW reason \in Reasons, NEW j \in Jobs, NEW v \in Users, [Next]_vars,
         Unseen(reason, j, v), Running(j) => Withheld(reason, j, v),
         Running(j)' => Withheld(reason, j, v)'
  PROVE  Unseen(reason, j, v)'
<1>1. CASE UNCHANGED vars
  BY <1>1 DEF vars, Unseen
<1>2. ASSUME Next PROVE Unseen(reason, j, v)'
  <2>1. saw'[j] = IF pc'[j] \in {"new", "failed"} THEN Nothing
                  ELSE IF pc[j] \in Ended THEN saw[j]
                  ELSE [c \in Clauses |-> saw[j][c] \cup Holds(j)'[c]]
    BY <1>2 DEF Next, Observe
  <2>2. CASE pc'[j] \in {"new", "failed"}
    <3>1. saw'[j] = Nothing
      BY <2>1, <2>2
    <3>2. \A c \in Clauses : saw'[j][c] = {}
      BY <3>1 DEF Nothing
    <3> QED BY <3>2 DEF Unseen, Reasons, Clauses
  <2>3. CASE pc'[j] \notin {"new", "failed"} /\ pc[j] \in Ended
    BY <2>1, <2>3 DEF Unseen
  <2>4. CASE pc'[j] \notin {"new", "failed"} /\ pc[j] \notin Ended
    <3>1. Withheld(reason, j, v)'
      <4>1. CASE pc'[j] = pc[j]
        BY <2>4, <4>1 DEF Running
      <4>2. CASE pc'[j] # pc[j]
        <5>1. PICK k \in Jobs : Job(k)
          BY <1>2, <4>2 DEF Next, Step, Settings, WindowEnds
        <5>2. UNCHANGED <<row, blocked, follows>>
          BY <5>1, JobKeepsStore
        <5> QED BY <2>4, <5>2 DEF Running, Withheld, BlockedEitherWay, Mutual, User, Hidden
      <4> QED BY <4>1, <4>2
    <3>2. saw'[j] = [c \in Clauses |-> saw[j][c] \cup Holds(j)'[c]]
      BY <2>1, <2>4
    <3> QED BY <3>1, <3>2, NotTakenIn
  <2> QED BY <2>2, <2>3, <2>4
<1> QED BY <1>1, <1>2

\* Whatever the calls before it did, a call during which v is withheld from
\* beginning to end never sees the clause that withholds v hold for v.
LEMMA StaysOut ==
  ASSUME NEW reason \in Reasons, NEW j \in Jobs, NEW v \in Users
  PROVE  Spec => [](pc[j] = "new" /\ [](Running(j) => Withheld(reason, j, v))
                      => []Unseen(reason, j, v))
<1>1. Init => FreshInv(j)
  BY DEF Init, FreshInv
<1>2. FreshInv(j) /\ [Next]_vars => FreshInv(j)'
  BY FreshStep
<1>3. FreshInv(j) /\ pc[j] = "new" => Unseen(reason, j, v)
  BY NothingSeen DEF FreshInv
<1>4. /\ Unseen(reason, j, v) /\ [Next]_vars
      /\ Running(j) => Withheld(reason, j, v)
      /\ (Running(j) => Withheld(reason, j, v))'
      => Unseen(reason, j, v)'
  BY UnseenStep
<1> QED BY <1>1, <1>2, <1>3, <1>4, PTL DEF Spec

\* "Efeito imediato": whoever has blocked or been blocked by the requester,
\* has paused or gone invisible, has revoked, has narrowed to friends or to a
\* radius, before a call begins and stays so while it runs, is in none of its
\* results, whatever the index still holds and however the other calls and
\* requests interleave (query in nearby_service.go).
THEOREM WithheldStayOut ==
  ASSUME NEW reason \in Reasons \ {"stranger"}, NEW j \in Jobs, NEW v \in Users
  PROVE  Spec => [](pc[j] = "new" /\ [](Running(j) => Withheld(reason, j, v))
                      => [](v \notin out[j]))
<1>1. IInv /\ Unseen(reason, j, v) => v \notin out[j]
  <2>1. ASSUME IInv, v \in out[j] PROVE Kept(j, v)
    BY <2>1 DEF IInv, JobInv, KeepInv
  <2> QED BY <2>1 DEF Kept, Unseen
<1>2. Spec => [](pc[j] = "new" /\ [](Running(j) => Withheld(reason, j, v))
                      => []Unseen(reason, j, v))
  BY StaysOut
<1> QED BY <1>1, <1>2, Inductive, PTL

\* Nobody who is neither a mutual follow nor openly discoverable while a call
\* runs is named in it (isMutual and RevealLevel in query).
THEOREM StrangersStayUnnamed ==
  ASSUME NEW j \in Jobs, NEW v \in Users
  PROVE  Spec => [](pc[j] = "new" /\ [](Running(j) => Withheld("stranger", j, v))
                      => [](v \notin named[j]))
<1>1. "stranger" \in Reasons
  BY DEF Reasons
<1>2. IInv /\ Unseen("stranger", j, v) => v \notin named[j]
  BY DEF IInv, JobInv, KeepInv, Unseen
<1>3. Init => FreshInv(j)
  BY DEF Init, FreshInv
<1>4. FreshInv(j) /\ [Next]_vars => FreshInv(j)'
  BY FreshStep
<1>5. FreshInv(j) /\ pc[j] = "new" => Unseen("stranger", j, v)
  BY <1>1, NothingSeen DEF FreshInv
<1>6. /\ Unseen("stranger", j, v) /\ [Next]_vars
      /\ Running(j) => Withheld("stranger", j, v)
      /\ (Running(j) => Withheld("stranger", j, v))'
      => Unseen("stranger", j, v)'
  BY <1>1, UnseenStep
<1> QED BY <1>2, <1>3, <1>4, <1>5, <1>6, Inductive, PTL DEF Spec

-----------------------------------------------------------------------------
(* What a revocation needs in order to stick                                *)

UnderWay(x) == wpc[x] \in {"read", "zrem", "del", "done"}
\* A user's requests on the settings row come one after the other.
OneByOne ==
  \A x, y \in Writers : WriterUser[x] = WriterUser[y] /\ UnderWay(x) /\ UnderWay(y) => x = y

\* Of a revoked user, no request carries a copy of the row with consent on; a
\* revocation under way has written its row, or is about to.
RevokedInv ==
  /\ \A x \in Writers : wpc[x] = "read" /\ WriterUser[x] \in revoked => ~wrow[x].enabled
  /\ \A x \in Writers : UnderWay(x) /\ wreq[x].kind = "revoke" =>
       IF wpc[x] = "read" THEN ~wrow[x].enabled ELSE ~row[WriterUser[x]].enabled

\* No other request of the user is in the middle of anything.
LEMMA RevokedSettings ==
  ASSUME SettingsTypeOK, RevocationSticks, RevokedInv, OneByOne, OneByOne', SettingsNext
  PROVE  RevocationSticks' /\ RevokedInv'
<1> USE SettingsAssumption DEF SettingsTypeOK, storeVars, indexVars, writerVars, RevokedInv,
        RevocationSticks
<1>1. ASSUME NEW x \in Writers, NEW req \in Requests, ReadRow(x, req)
      PROVE  RevocationSticks' /\ RevokedInv'
  <2> DEFINE u == WriterUser[x]
             copy == Changed(row[u], req, clock)
  <2>1. /\ wpc[x] = "new" /\ wpc' = [wpc EXCEPT ![x] = "read"] /\ UNCHANGED row
        /\ wreq' = [wreq EXCEPT ![x] = req] /\ wrow' = [wrow EXCEPT ![x] = copy]
        /\ req \in Updates \cup Consents
        /\ revoked' = IF req.kind = "grant" THEN revoked \ {u} ELSE revoked
    BY <1>1 DEF ReadRow
  <2>2. u \in Users /\ row[u] \in Rows
    OBVIOUS
  <2>3. /\ req.kind = "revoke" => ~copy.enabled
        /\ req.kind # "grant" /\ ~row[u].enabled => ~copy.enabled
    <3> HIDE DEF u
    <3> QED BY <2>1, <2>2 DEF Changed, Rows, Updates, Consents
  <2>4. RevocationSticks'
    BY <2>1
  <2> HIDE DEF copy
  <2>5. wrow'[x] = copy /\ wreq'[x] = req /\ wpc'[x] = "read"
    BY <2>1
  <2>6. u \in revoked' => ~copy.enabled
    BY <2>1, <2>3
  <2>7. ASSUME NEW y \in Writers, y # x
        PROVE  wpc'[y] = wpc[y] /\ wreq'[y] = wreq[y] /\ wrow'[y] = wrow[y]
    BY <2>1, <2>7
  <2>8. RevokedInv'
    <3>1. \A y \in Writers : wpc'[y] = "read" /\ WriterUser[y] \in revoked' => ~wrow'[y].enabled
      BY <2>1, <2>5, <2>6, <2>7
    <3>2. \A y \in Writers : UnderWay(y)' /\ wreq'[y].kind = "revoke" =>
            IF wpc'[y] = "read" THEN ~wrow'[y].enabled ELSE ~row'[WriterUser[y]].enabled
      BY <2>1, <2>3, <2>5, <2>7 DEF UnderWay
    <3> QED BY <3>1, <3>2
  <2> QED BY <2>4, <2>8
<1>2. ASSUME NEW x \in Writers, WriteRow(x) PROVE RevocationSticks' /\ RevokedInv'
  <2> DEFINE u == WriterUser[x]
  <2>1. /\ wpc[x] = "read" /\ row' = [row EXCEPT ![u] = wrow[x]] /\ u \in Users
        /\ \E p \in {"zrem", "done"} : wpc' = [wpc EXCEPT ![x] = p]
        /\ UNCHANGED <<wreq, wrow, revoked>>
    BY <1>2 DEF WriteRow
  <2>2. ASSUME NEW y \in Writers, y # x, UnderWay(y) PROVE WriterUser[y] # u
    BY <2>1, <2>2 DEF OneByOne, UnderWay
  <2>3. RevocationSticks'
    BY <2>1
  <2>4. \A y \in Writers : y # x => wpc'[y] = wpc[y]
    BY <2>1
  <2>5. wpc'[x] \in {"zrem", "done"} /\ row'[u] = wrow[x]
        /\ \A v \in Users \ {u} : row'[v] = row[v]
    BY <2>1
  <2>6. RevokedInv'
    <3> HIDE DEF u
    <3>1. \A y \in Writers : wpc'[y] = "read" => y # x
      BY <2>5
    <3>2. \A y \in Writers : UnderWay(y)' /\ wreq'[y].kind = "revoke" =>
            IF wpc'[y] = "read" THEN ~wrow'[y].enabled ELSE ~row'[WriterUser[y]].enabled
      <4> SUFFICES ASSUME NEW y \in Writers, UnderWay(y)', wreq'[y].kind = "revoke"
                   PROVE  IF wpc'[y] = "read" THEN ~wrow'[y].enabled
                          ELSE ~row'[WriterUser[y]].enabled
        OBVIOUS
      <4>1. CASE y = x
        BY <2>1, <2>5, <4>1 DEF UnderWay, u
      <4>2. CASE y # x
        <5>1. UnderWay(y) /\ WriterUser[y] \in Users \ {u}
          BY <2>2, <2>4, <4>2 DEF UnderWay
        <5> QED BY <2>1, <2>4, <2>5, <4>2, <5>1
      <4> QED BY <4>1, <4>2
    <3> QED BY <2>1, <2>4, <3>1, <3>2
  <2> QED BY <2>3, <2>6
<1>3. ASSUME NEW x \in Writers, RemoveStep(x) \/ RemoveFails(x)
      PROVE  RevocationSticks' /\ RevokedInv'
  <2>1. /\ wpc[x] \in {"zrem", "del"} /\ \E p \in {"del", "done"} : wpc' = [wpc EXCEPT ![x] = p]
        /\ UNCHANGED <<row, wreq, wrow, revoked>>
    BY <1>3 DEF RemoveStep, RemoveFails
  <2> QED BY <2>1 DEF UnderWay
<1>4. ASSUME NEW x \in Writers, Return(x) PROVE RevocationSticks' /\ RevokedInv'
  <2>1. /\ wpc[x] = "done" /\ Finish(x) /\ UNCHANGED row
        /\ revoked' = IF wreq[x].kind = "revoke" THEN revoked \cup {WriterUser[x]} ELSE revoked
    BY <1>4 DEF Return
  <2>2. RevocationSticks'
    BY <2>1 DEF UnderWay
  <2>3. /\ wpc'[x] = "returned"
        /\ \A y \in Writers \ {x} : wpc'[y] = wpc[y] /\ wreq'[y] = wreq[y] /\ wrow'[y] = wrow[y]
    BY <2>1 DEF Finish
  <2>4. ASSUME NEW y \in Writers, y # x, wpc[y] = "read" PROVE WriterUser[y] # WriterUser[x]
    BY <2>1, <2>4 DEF OneByOne, UnderWay
  <2> QED BY <2>1, <2>2, <2>3, <2>4 DEF UnderWay
<1>5. ASSUME NEW x \in Writers, RequestFails(x) PROVE RevocationSticks' /\ RevokedInv'
  <2>1. Finish(x) /\ UNCHANGED <<row, revoked>>
    BY <1>5 DEF RequestFails
  <2>2. /\ wpc'[x] = "returned"
        /\ \A y \in Writers \ {x} : wpc'[y] = wpc[y] /\ wreq'[y] = wreq[y] /\ wrow'[y] = wrow[y]
    BY <2>1 DEF Finish
  <2> QED BY <2>1, <2>2 DEF UnderWay
<1>6. ASSUME NEW x \in Writers, NEW req \in Requests, EdgeRequest(x, req)
      PROVE  RevocationSticks' /\ RevokedInv'
  <2>1. wpc' = [wpc EXCEPT ![x] = "returned"] /\ UNCHANGED <<row, wreq, wrow, revoked>>
    BY <1>6 DEF EdgeRequest
  <2> QED BY <2>1 DEF UnderWay
<1>7. CASE UNCHANGED <<row, wpc, wreq, wrow, revoked>>
  BY <1>7 DEF UnderWay
<1> QED
  BY <1>1, <1>2, <1>3, <1>4, <1>5, <1>6, <1>7 DEF SettingsNext, Write, Tick, DetailExpires

LEMMA RevokedStep ==
  ASSUME TypeOK, RevocationSticks, RevokedInv, OneByOne, OneByOne', [Next]_vars
  PROVE  RevocationSticks' /\ RevokedInv'
<1>1. CASE SettingsNext
  BY <1>1, TypeParts, RevokedSettings
<1>2. CASE UNCHANGED <<row, wpc, wreq, wrow, revoked>>
  BY <1>2 DEF RevocationSticks, RevokedInv, UnderWay
<1>3. ASSUME NEW j \in Jobs, Job(j) PROVE UNCHANGED <<row, wpc, wreq, wrow, revoked>>
  BY <1>3 DEF Job, Start, GeoAdd, SetDetail, Remove, Touch, Search, CheckBlock, Audit,
     CheckSettings, CheckFollow, FilterDone, ReadDetail, AuditDone, Deliver, Fail, settingsVars,
     storeVars, writerVars
<1> QED BY <1>1, <1>2, <1>3
        DEF Next, Step, Settings, WindowEnds, settingsVars, storeVars, writerVars, vars

\* The other half of the finding about RevokeConsent: overlapping requests on
\* the same row are the only way to undo a revocation. While a user's requests
\* come one after the other, consent that was revoked stays off until the user
\* grants it again, whatever queries, failures and lapses come between.
THEOREM SerialRevocationSticks == Spec /\ []OneByOne => []RevocationSticks
<1>1. Init => RevocationSticks /\ RevokedInv
  BY DEF Init, SettingsInit, RevocationSticks, RevokedInv, UnderWay
<1>2. /\ TypeOK /\ RevocationSticks /\ RevokedInv /\ OneByOne /\ OneByOne' /\ [Next]_vars
      => RevocationSticks' /\ RevokedInv'
  BY RevokedStep
<1> QED BY <1>1, <1>2, PipelineTyped, PTL DEF Spec
=============================================================================
