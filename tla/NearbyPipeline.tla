--------------------------- MODULE NearbyPipeline ---------------------------
(***************************************************************************)
(* What a hub worker does with a frame: NearbyService.ApplyUpdate,         *)
(* ApplyHeartbeat and the query they share                                 *)
(* (internal/presence/nearby_service.go), step by step over the stores of  *)
(* PrivacySettings, while REST requests change the very rows, blocks,      *)
(* follows and index entries the query is reading.                         *)
(* A job is one call, running in one worker; several run at once, also for *)
(* the same user. Every access to Postgres or Redis is a step of its own,  *)
(* and any of them may fail.                                               *)
(* Positions are fixed, so a candidate is near or far by Dist. History     *)
(* variable saw records, for each job and each clause of the privacy       *)
(* model, the users for whom the clause held at some instant of the job.   *)
(***************************************************************************)
EXTENDS PrivacySettings

CONSTANTS
    Jobs,      \* calls in progress, each runs once
    JobUser,   \* the user whose connection sent the frame
    JobKind,   \* "update", "heartbeat", or "leave" (invisible frame, disconnect)
    Dist,      \* from where a user asks to where another is indexed
    Padding,   \* searchPadding, by which the search is wider than the radius
    NoUser     \* no candidate

ASSUME PipelineAssumption ==
    /\ JobUser \in [Jobs -> Users]
    /\ JobKind \in [Jobs -> {"update", "heartbeat", "leave"}]
    /\ Dist \in [Users -> [Users -> Nat]]
    /\ Padding \in Nat
    /\ NoUser \notin Users

VARIABLES
    pc,        \* where each job is
    own,       \* the requester's row, read once
    now,       \* the instant the job works with
    todo,      \* candidates of the search not yet filtered
    cand,      \* the candidate being filtered
    theirs,    \* its row, as read
    keep,      \* survivors of the filter
    named,     \* survivors whose profile is disclosed
    found,     \* survivors whose detail was still there
    out,       \* results built so far
    received,  \* jobs whose result the requester's connection took
    audit,     \* the append-only log: <<job, target>>
    windows,   \* pairs whose 30 s query window is open
    saw        \* history, see above

queryVars == <<own, now, todo, cand, theirs, keep, named, found, out>>
effectVars == <<received, audit, windows>>
vars == <<settingsVars, pc, queryVars, effectVars, saw>>

User(j) == JobUser[j]
BlockedEitherWay(u, v) == <<u, v>> \in blocked \/ <<v, u>> \in blocked
Mutual(u, v) == <<u, v>> \in follows /\ <<v, u>> \in follows

Clauses == {"clear", "visible", "consenting", "everyone", "mutual", "open",
            "reaches", "live"}

Others(j) == Users \ {User(j)}
HasDetail(v) == detail[v] # "none"

\* The others for whom each clause holds at this instant, as job j sees it.
Holds(j) ==
    [clear      |-> {v \in Others(j) : ~BlockedEitherWay(User(j), v)},
     visible    |-> {v \in Others(j) : ~Hidden(row[v])},
     consenting |-> {v \in Others(j) : Active(row[v], now[j])},
     everyone   |-> {v \in Others(j) : row[v].visibility = "everyone"},
     mutual     |-> {v \in Others(j) : Mutual(User(j), v)},
     open       |-> {v \in Others(j) : row[v].reveal = 2},
     reaches    |-> {v \in Others(j) : Dist[User(j)][v] <= row[v].radius},
     live       |-> {v \in Others(j) : HasDetail(v)}]

Nothing == [c \in Clauses |-> {}]

Ended == {"done", "failed"}

Init ==
    /\ SettingsInit
    /\ pc = [j \in Jobs |-> "new"]
    /\ own = [j \in Jobs |-> row[User(j)]]
    /\ now = [j \in Jobs |-> 0]
    /\ todo = [j \in Jobs |-> {}]
    /\ cand = [j \in Jobs |-> NoUser]
    /\ theirs = [j \in Jobs |-> row[User(j)]]
    /\ keep = [j \in Jobs |-> {}]
    /\ named = [j \in Jobs |-> {}]
    /\ found = [j \in Jobs |-> {}]
    /\ out = [j \in Jobs |-> {}]
    /\ received = {}
    /\ audit = {}
    /\ windows = {}
    /\ saw = [j \in Jobs |-> Nothing]

Goto(j, p) == pc' = [pc EXCEPT ![j] = p]

-----------------------------------------------------------------------------
(* Before the query: the requester's own row and index entry.              *)

\* settingsOrDefault, clock.Now and checkConsent. Without active consent the
\* call ends in an error, and the hub closes the connection.
Start(j) ==
    /\ pc[j] = "new"
    /\ own' = [own EXCEPT ![j] = row[User(j)]]
    /\ now' = [now EXCEPT ![j] = clock]
    /\ Goto(j, CASE JobKind[j] = "leave"            -> "zrem"
                 [] ~Active(row[User(j)], clock)    -> "failed"
                 [] JobKind[j] = "heartbeat"        -> "touch"
                 [] Hidden(row[User(j)])            -> "zrem"
                 [] OTHER                           -> "geoadd")
    /\ UNCHANGED <<settingsVars, todo, cand, theirs, keep, named, found,
                   out, effectVars>>

\* Store.Upsert: GEOADD, then SET with what the entry discloses.
GeoAdd(j) ==
    /\ pc[j] = "geoadd"
    /\ geo' = geo \cup {User(j)}
    /\ Goto(j, "setdetail")
    /\ UNCHANGED <<storeVars, detail, clock, writerVars, revoked, queryVars,
                   effectVars>>

SetDetail(j) ==
    /\ pc[j] = "setdetail"
    /\ detail' = [detail EXCEPT ![User(j)] = Disclosed(own[j])]
    /\ Goto(j, "search")
    /\ UNCHANGED <<storeVars, geo, clock, writerVars, revoked, queryVars,
                   effectVars>>

\* Store.Remove, whose error is ignored here; a leaving connection asks for
\* nothing more.
AfterRemove(j) == IF JobKind[j] = "leave" THEN "done" ELSE "search"

Remove(j) ==
    /\ \/ /\ pc[j] = "zrem"
          /\ IndexZRem(User(j))
          /\ Goto(j, "del")
       \/ /\ pc[j] = "del"
          /\ IndexDel(User(j))
          /\ Goto(j, AfterRemove(j))
       \/ /\ pc[j] \in {"zrem", "del"}
          /\ Goto(j, AfterRemove(j))
          /\ UNCHANGED indexVars
    /\ UNCHANGED <<storeVars, clock, writerVars, revoked, queryVars, effectVars>>

\* Store.Touch: GET of the detail key, then GEOPOS (EXPIRE only moves the
\* TTL). Without either the answer is an empty list.
Touch(j) ==
    /\ \/ /\ pc[j] = "touch"
          /\ Goto(j, IF detail[User(j)] = "none" THEN "deliver" ELSE "geopos")
       \/ /\ pc[j] = "geopos"
          /\ Goto(j, IF User(j) \in geo THEN "search" ELSE "deliver")
    /\ UNCHANGED <<settingsVars, queryVars, effectVars>>

-----------------------------------------------------------------------------
(* query: search, filter each candidate, read the details, write the audit *)
(* log, answer.                                                            *)

\* The GEO members within the requester's padded radius (GEOSEARCH and GEOPOS
\* in one step: a member that leaves between them is not a candidate); then,
\* if there are any, the daily budget, which may be spent.
Search(j) ==
    LET raw == {v \in geo \ {User(j)} : Dist[User(j)][v] <= own[j].radius + Padding}
    IN  /\ pc[j] = "search"
        /\ \/ /\ raw # {}
              /\ todo' = [todo EXCEPT ![j] = raw]
              /\ Goto(j, "filter")
           \/ /\ Goto(j, "deliver")
              /\ UNCHANGED todo
        /\ UNCHANGED <<settingsVars, own, now, cand, theirs, keep, named,
                       found, out, effectVars>>

\* IsBlockedEitherWay for the next candidate.
CheckBlock(j, v) ==
    /\ pc[j] = "filter"
    /\ v \in todo[j]
    /\ todo' = [todo EXCEPT ![j] = @ \ {v}]
    /\ IF BlockedEitherWay(User(j), v)
       THEN UNCHANGED <<pc, cand>>
       ELSE Goto(j, "settings") /\ cand' = [cand EXCEPT ![j] = v]
    /\ UNCHANGED <<settingsVars, own, now, theirs, keep, named, found,
                   out, effectVars>>

\* Variant: an entry in the index is taken as leave to be seen.
ConsentingOnly(r, t) == Active(r, t)
Discoverable(r, t) == ~Hidden(r) /\ Active(r, t)

\* The candidate's row: paused or invisible, consent, each read now.
CheckSettings(j) ==
    LET r == row[cand[j]]
    IN  /\ pc[j] = "settings"
        /\ theirs' = [theirs EXCEPT ![j] = r]
        /\ Goto(j, IF Discoverable(r, now[j]) THEN "follow" ELSE "filter")
        /\ UNCHANGED <<settingsVars, own, now, todo, cand, keep, named, found,
                       out, effectVars>>

\* Variant: following somebody is enough to be told who it is.
NamedToFollowers(u, v, r) == <<u, v>> \in follows \/ r.reveal = 2
NamedTo(u, v, r) == Mutual(u, v) \/ r.reveal = 2

\* IsMutualFollow, the intersection of the two radii, and the pair limiter,
\* which opens the pair's window when it allows.
CheckFollow(j) ==
    LET v == cand[j]
        u == User(j)
    IN  /\ pc[j] = "follow"
        /\ Goto(j, "filter")
        /\ IF /\ theirs[j].visibility = "friends_only" => Mutual(u, v)
              /\ Dist[u][v] <= own[j].radius /\ Dist[u][v] <= theirs[j].radius
              /\ <<u, v>> \notin windows
           THEN /\ windows' = windows \cup {<<u, v>>}
                /\ keep' = [keep EXCEPT ![j] = @ \cup {v}]
                /\ named' = IF NamedTo(u, v, theirs[j])
                            THEN [named EXCEPT ![j] = @ \cup {v}] ELSE named
           ELSE UNCHANGED <<windows, keep, named>>
        /\ UNCHANGED <<settingsVars, own, now, todo, cand, theirs, found,
                       out, received, audit>>

FilterDone(j) ==
    /\ pc[j] = "filter"
    /\ todo[j] = {}
    /\ Goto(j, IF keep[j] = {} THEN "deliver" ELSE "detail")
    /\ UNCHANGED <<settingsVars, queryVars, effectVars>>

\* MGET of the survivors' detail keys; the profiles of those to be named are
\* resolved next, which changes nothing here.
ReadDetail(j) ==
    /\ pc[j] = "detail"
    /\ found' = [found EXCEPT ![j] = {v \in keep[j] : HasDetail(v)}]
    /\ Goto(j, "audit")
    /\ UNCHANGED <<settingsVars, own, now, todo, cand, theirs, keep, named,
                   out, effectVars>>

NotLogged(j, v) == audit    \* variant: a failed append is ignored
Logged(j, v) == audit \cup {<<j, v>>}

\* One audit row, then one result.
Audit(j, v) ==
    /\ pc[j] = "audit"
    /\ v \in found[j] \ out[j]
    /\ audit' = Logged(j, v)
    /\ out' = [out EXCEPT ![j] = @ \cup {v}]
    /\ UNCHANGED <<settingsVars, pc, own, now, todo, cand, theirs, keep,
                   named, found, received, windows>>

AuditDone(j) ==
    /\ pc[j] = "audit"
    /\ out[j] = found[j]
    /\ Goto(j, "deliver")
    /\ UNCHANGED <<settingsVars, queryVars, effectVars>>

\* The hub offers the result to the connection, which takes it or drops it.
Deliver(j) ==
    /\ pc[j] = "deliver"
    /\ Goto(j, "done")
    /\ received' \in {received, received \cup {j}}
    /\ UNCHANGED <<settingsVars, queryVars, audit, windows>>

\* Any store call may fail; the whole call then returns an error and no
\* result, and the hub delivers nothing.
Fail(j) ==
    /\ \/ pc[j] \in {"new", "geoadd", "setdetail", "touch", "geopos", "search",
                     "settings", "follow", "detail"}
       \/ pc[j] = "filter" /\ todo[j] # {}
       \/ pc[j] = "audit" /\ out[j] # found[j]
    /\ Goto(j, "failed")
    /\ todo' = [todo EXCEPT ![j] = {}]
    /\ cand' = [cand EXCEPT ![j] = NoUser]
    /\ keep' = [keep EXCEPT ![j] = {}]
    /\ named' = [named EXCEPT ![j] = {}]
    /\ found' = [found EXCEPT ![j] = {}]
    /\ out' = [out EXCEPT ![j] = {}]
    /\ UNCHANGED <<settingsVars, own, now, theirs, effectVars>>

-----------------------------------------------------------------------------
(* The pair limiter's window ends.                                         *)

WindowEnds(p) ==
    /\ p \in windows
    /\ windows' = windows \ {p}
    /\ UNCHANGED <<settingsVars, pc, queryVars, received, audit>>

-----------------------------------------------------------------------------

Job(j) == \/ Start(j)
          \/ GeoAdd(j)
          \/ SetDetail(j)
          \/ Remove(j)
          \/ Touch(j)
          \/ Search(j)
          \/ \E v \in Users : CheckBlock(j, v) \/ Audit(j, v)
          \/ CheckSettings(j)
          \/ CheckFollow(j)
          \/ FilterDone(j)
          \/ ReadDetail(j)
          \/ AuditDone(j)
          \/ Deliver(j)
          \/ Fail(j)

Settings == SettingsNext /\ UNCHANGED <<pc, queryVars, effectVars>>

Step == \/ \E j \in Jobs : Job(j)
        \/ Settings
        \/ \E p \in Users \X Users : WindowEnds(p)

\* The history of a running job takes in every instant from its start; a
\* failed call has no result to judge.
Observe ==
    saw' = [j \in Jobs |->
              IF pc'[j] \in {"new", "failed"} THEN Nothing
              ELSE IF pc[j] \in Ended THEN saw[j]
              ELSE [c \in Clauses |-> saw[j][c] \cup Holds(j)'[c]]]

Next == Step /\ Observe

Spec == Init /\ [][Next]_vars

-----------------------------------------------------------------------------
(* Properties.                                                             *)

\* Every variable stays in its type.
TypeOK ==
    /\ row \in [Users -> Rows]
    /\ blocked \subseteq Users \X Users
    /\ follows \subseteq Users \X Users
    /\ geo \subseteq Users
    /\ detail \in [Users -> {"none", "quiet", "track"}]
    /\ clock \in Nat
    /\ wpc \in [Writers -> {"new", "read", "zrem", "del", "done", "returned"}]
    /\ wreq \in [Writers -> Requests \cup {NoRequest}]
    /\ wrow \in [Writers -> Rows]
    /\ revoked \subseteq Users
    /\ pc \in [Jobs -> {"new", "geoadd", "setdetail", "zrem", "del", "touch",
                        "geopos", "search", "filter", "settings", "follow",
                        "detail", "audit", "deliver"} \cup Ended]
    /\ own \in [Jobs -> Rows]
    /\ now \in [Jobs -> Nat]
    /\ todo \in [Jobs -> SUBSET Users]
    /\ cand \in [Jobs -> Users \cup {NoUser}]
    /\ \A j \in Jobs : pc[j] \in {"settings", "follow"} => cand[j] \in Users
    /\ theirs \in [Jobs -> Rows]
    /\ keep \in [Jobs -> SUBSET Users]
    /\ named \in [Jobs -> SUBSET Users]
    /\ found \in [Jobs -> SUBSET Users]
    /\ out \in [Jobs -> SUBSET Users]
    /\ received \subseteq Jobs
    /\ audit \subseteq Jobs \X Users
    /\ windows \subseteq Users \X Users
    /\ saw \in [Jobs -> [Clauses -> SUBSET Users]]

\* Whoever appears in a result was, within that very call, not blocked in
\* either direction, not hidden, consenting at the call's instant, open to
\* everyone or a mutual follow, in range, and alive in the index: a user who has
\* blocked, paused, revoked, narrowed or lapsed before the call began is never
\* in it, whatever members the GEO set still holds (query in nearby_service.go).
OnlyDiscoverable ==
    \A j \in Jobs : \A v \in out[j] :
        /\ v # User(j)
        /\ v \in saw[j].clear
        /\ v \in saw[j].visible
        /\ v \in saw[j].consenting
        /\ v \in saw[j].everyone \cup saw[j].mutual
        /\ v \in saw[j].reaches
        /\ v \in saw[j].live

\* A name or avatar is disclosed only to a mutual follow or by open discovery,
\* as they stood within the call.
NamedByTrust ==
    \A j \in Jobs : named[j] \subseteq saw[j].mutual \cup saw[j].open

\* What a requester has received is in the audit log, target by target, even
\* when calls fail half way.
AuditCoversDisclosure ==
    \A j \in received : \A v \in out[j] : <<j, v>> \in audit

\* "Revogacao ... efeito imediato" (RevokeConsent): once a revocation has
\* returned, consent stays off until the user asks to grant it again.
RevocationSticks == \A u \in revoked : ~row[u].enabled

=============================================================================
