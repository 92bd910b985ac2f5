-------------------------- MODULE PrivacySettings --------------------------
(***************************************************************************)
(* The durable privacy settings and the controls that change them          *)
(* (internal/presence/settings_service.go), over the stores they share     *)
(* with the nearby pipeline: the presence_privacy_settings rows and the    *)
(* block and follow lists in Postgres, and the live index in Redis         *)
(* (redisstore/geoindex.go), a GEO set and one detail key per user with a  *)
(* TTL of its own.                                                         *)
(* A REST request is a writer. Update, GrantConsent, RevokeConsent and     *)
(* SetPaused all read the whole row, change some fields and write the      *)
(* whole row back; there is no transaction around the two and no version   *)
(* to compare. A request that leaves the user hidden then removes the      *)
(* index entry, with two Redis commands that may fail.                     *)
(***************************************************************************)
EXTENDS Naturals, FiniteSets

CONSTANTS
    Users,
    Writers,      \* REST requests in flight, each runs once
    WriterUser,   \* the user who makes each
    Requests,     \* what a request may ask for
    Verified,     \* users with a verified MFA factor
    Radii,        \* AllowedRadiiM
    DefaultRadius,
    Validity,     \* ConsentValidityPeriod
    MaxClock,     \* bound on the clock
    InitialRows,  \* user -> the rows it may start from
    Present,      \* the users in the index at the start
    Following     \* who follows whom at the start

Visibilities == {"invisible", "friends_only", "everyone"}
RevealLevels == 0..2

Rows == [enabled    : BOOLEAN,       \* ProximityConsentEnabled
         due        : Nat,           \* ProximityConsentRenewDue, 0 for nil
         paused     : BOOLEAN,
         visibility : Visibilities,
         share      : BOOLEAN,       \* PresenceShareTrack
         reveal     : RevealLevels,
         radius     : Radii]

\* What Update may change, the two consent calls, and the calls on the block
\* and follow lists.
Updates ==
    [kind : {"paused", "share"}, value : BOOLEAN]
    \cup [kind : {"visibility"}, value : Visibilities]
    \cup [kind : {"reveal"}, value : RevealLevels]
    \cup [kind : {"radius"}, value : Radii]
Consents == [kind : {"grant", "revoke"}]
Edges == [kind : {"block", "unblock", "follow", "unfollow"}, peer : Users]

ASSUME SettingsAssumption ==
    /\ WriterUser \in [Writers -> Users]
    /\ Requests \subseteq Updates \cup Consents \cup Edges
    /\ Verified \subseteq Users
    /\ Radii \subseteq Nat /\ DefaultRadius \in Radii
    /\ Validity \in Nat \ {0}
    /\ MaxClock \in Nat
    /\ InitialRows \in [Users -> SUBSET Rows]
    /\ Present \subseteq Users
    /\ Following \subseteq Users \X Users

VARIABLES
    row,       \* user -> settings row
    blocked,   \* pairs <<blocker, blocked>>
    follows,   \* pairs <<follower, followed>>
    geo,       \* members of the GEO set
    detail,    \* user -> detail key: "none", or whether it shares the track
    clock,
    wpc,       \* where each request is
    wreq,      \* what it asks for
    wrow,      \* the row it will write back
    revoked    \* history: users whose last consent decision is a revocation

storeVars == <<row, blocked, follows>>
indexVars == <<geo, detail>>
writerVars == <<wpc, wreq, wrow>>
settingsVars == <<storeVars, indexVars, clock, writerVars, revoked>>

\* checkConsent and HasActiveConsent.
Active(r, t) == r.enabled /\ t < r.due
Hidden(r) == r.paused \/ r.visibility = "invisible"

Default(radius) == [enabled |-> FALSE, due |-> 0, paused |-> TRUE,
                    visibility |-> "invisible", share |-> FALSE, reveal |-> 0,
                    radius |-> radius]

\* DefaultPrivacySettings, read for a user without a row; it also stands in
\* for the row of a request that is not under way.
UnlistedDefault == Default(0)    \* variant: a radius the service would refuse
DefaultRow == Default(DefaultRadius)

\* What an upsert made under row r discloses.
Disclosed(r) == IF r.share THEN "track" ELSE "quiet"

NoRequest == [kind |-> "none"]

\* The functions that choose a member of each of the sets f[u].
Choices(f) == {g \in [Users -> UNION {f[u] : u \in Users}] : \A u \in Users : g[u] \in f[u]}

SettingsInit ==
    /\ row \in Choices(InitialRows)
    /\ blocked = {}
    /\ follows = Following
    /\ geo = Present
    /\ detail = [u \in Users |-> IF u \in Present THEN Disclosed(row[u]) ELSE "none"]
    /\ clock = 0
    /\ wpc = [x \in Writers |-> "new"]
    /\ wreq = [x \in Writers |-> NoRequest]
    /\ wrow = [x \in Writers |-> DefaultRow]
    /\ revoked = {}

-----------------------------------------------------------------------------
(* Requests on the settings row.                                           *)

\* The row a request writes back, made from the row r it read at time t.
Changed(r, req, t) ==
    CASE req.kind = "paused"     -> [r EXCEPT !.paused = req.value]
      [] req.kind = "share"      -> [r EXCEPT !.share = req.value]
      [] req.kind = "visibility" -> [r EXCEPT !.visibility = req.value]
      [] req.kind = "reveal"     -> [r EXCEPT !.reveal = req.value]
      [] req.kind = "radius"     -> [r EXCEPT !.radius = req.value]
      [] req.kind = "grant"      -> [r EXCEPT !.enabled = TRUE, !.due = t + Validity]
      [] OTHER                   -> [r EXCEPT !.enabled = FALSE, !.paused = TRUE]

\* GrantConsent refuses a user without a verified second factor.
Permitted(u, req) == req.kind = "grant" => u \in Verified

\* Get, and the change made to the copy in memory. A grant is a new decision
\* on consent from the moment it is asked for.
ReadRow(x, req) ==
    /\ wpc[x] = "new"
    /\ req \in Updates \cup Consents
    /\ Permitted(WriterUser[x], req)
    /\ wpc' = [wpc EXCEPT ![x] = "read"]
    /\ wreq' = [wreq EXCEPT ![x] = req]
    /\ wrow' = [wrow EXCEPT ![x] = Changed(row[WriterUser[x]], req, clock)]
    /\ revoked' = IF req.kind = "grant" THEN revoked \ {WriterUser[x]} ELSE revoked
    /\ UNCHANGED <<storeVars, indexVars, clock>>

\* Upsert of the whole row. A request that leaves the user hidden goes on to
\* removeFromIndex; GrantConsent does not.
WriteRow(x) ==
    /\ wpc[x] = "read"
    /\ row' = [row EXCEPT ![WriterUser[x]] = wrow[x]]
    /\ wpc' = [wpc EXCEPT ![x] =
                 IF Hidden(wrow[x]) /\ wreq[x].kind # "grant" THEN "zrem" ELSE "done"]
    /\ UNCHANGED <<blocked, follows, indexVars, clock, wreq, wrow, revoked>>

Finish(x) ==
    /\ wpc' = [wpc EXCEPT ![x] = "returned"]
    /\ wreq' = [wreq EXCEPT ![x] = NoRequest]
    /\ wrow' = [wrow EXCEPT ![x] = DefaultRow]

\* The request has returned; a revocation counts from here.
Return(x) ==
    /\ wpc[x] = "done"
    /\ Finish(x)
    /\ revoked' = IF wreq[x].kind = "revoke" THEN revoked \cup {WriterUser[x]} ELSE revoked
    /\ UNCHANGED <<storeVars, indexVars, clock>>

\* A store call fails before anything is written: the request gives up.
RequestFails(x) ==
    /\ wpc[x] = "read"
    /\ Finish(x)
    /\ UNCHANGED <<storeVars, indexVars, clock, revoked>>

-----------------------------------------------------------------------------
(* Store.Remove: ZREM, then DEL; a failure of the first skips the second.  *)

IndexZRem(u) == geo' = geo \ {u} /\ UNCHANGED detail
IndexDel(u) == detail' = [detail EXCEPT ![u] = "none"] /\ UNCHANGED geo

RemoveStep(x) ==
    /\ \/ /\ wpc[x] = "zrem"
          /\ IndexZRem(WriterUser[x])
          /\ wpc' = [wpc EXCEPT ![x] = "del"]
       \/ /\ wpc[x] = "del"
          /\ IndexDel(WriterUser[x])
          /\ wpc' = [wpc EXCEPT ![x] = "done"]
    /\ UNCHANGED <<storeVars, clock, wreq, wrow, revoked>>

\* removeFromIndex ignores the error.
RemoveFails(x) ==
    /\ wpc[x] \in {"zrem", "del"}
    /\ wpc' = [wpc EXCEPT ![x] = "done"]
    /\ UNCHANGED <<storeVars, indexVars, clock, wreq, wrow, revoked>>

-----------------------------------------------------------------------------
(* Block, Unblock and the follow lists: one statement each.                *)

EdgeRequest(x, req) ==
    LET edge == <<WriterUser[x], req.peer>>
    IN  /\ wpc[x] = "new"
        /\ req \in Edges
        /\ WriterUser[x] # req.peer
        /\ wpc' = [wpc EXCEPT ![x] = "returned"]
        /\ blocked' = CASE req.kind = "block"   -> blocked \cup {edge}
                        [] req.kind = "unblock" -> blocked \ {edge}
                        [] OTHER                -> blocked
        /\ follows' = CASE req.kind = "follow"   -> follows \cup {edge}
                        [] req.kind = "unfollow" -> follows \ {edge}
                        [] OTHER                 -> follows
        /\ UNCHANGED <<row, indexVars, clock, wreq, wrow, revoked>>

-----------------------------------------------------------------------------
(* Time: consents lapse and detail keys expire.                            *)

Tick ==
    /\ clock < MaxClock
    /\ clock' = clock + 1
    /\ UNCHANGED <<storeVars, indexVars, writerVars, revoked>>

DetailExpires(u) ==
    /\ detail[u] # "none"
    /\ IndexDel(u)
    /\ UNCHANGED <<storeVars, clock, writerVars, revoked>>

-----------------------------------------------------------------------------

Write(x) == \/ \E req \in Requests : ReadRow(x, req) \/ EdgeRequest(x, req)
            \/ WriteRow(x)
            \/ RemoveStep(x)
            \/ RemoveFails(x)
            \/ Return(x)
            \/ RequestFails(x)

SettingsNext == \/ \E x \in Writers : Write(x)
                \/ Tick
                \/ \E u \in Users : DetailExpires(u)

=============================================================================
