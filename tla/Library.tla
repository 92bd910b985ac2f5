------------------------------ MODULE Library ------------------------------
(***************************************************************************)
(* The library service: one playlist, whose entries are placed by numbers, *)
(* and one user's saved tracks, listed by keyset pages.  A handler runs    *)
(* one statement per action; no transaction spans two of them.             *)
(***************************************************************************)
EXTENDS KeysetPaging

CONSTANTS
  Owner, Stranger,  \* callers: the playlist's owner and somebody else
  Catalog,          \* the tracks the catalog has
  Requests,         \* requests in flight at once
  Gap,              \* positionGap, in units of the smallest positive float64
  MaxRequests,      \* bound: requests in all
  MaxClock          \* bound: clock ticks

ASSUME LibraryAssumption ==
  /\ Catalog \subseteq Tracks
  /\ Gap \in Nat \ {0}
  /\ MaxRequests \in Nat /\ MaxClock \in Nat

Kinds == {"start", "end", "remove", "save", "unsave"}
Rows == (0..MaxClock) \X Tracks

VARIABLES
  entries,   \* rows of playlist_tracks
  saved,     \* rows of library_tracks: <<added_at, track>>
  now,       \* the service's clock
  begun,     \* requests begun: also the id an entry gets
  req,       \* each request in flight
  listing,   \* "idle", "reading" or "done": a client paging its saved tracks
  cursors,   \* {} or the one cursor that client holds
  got,       \* the rows it was given
  steady     \* history: rows there all along since the listing began

reader == <<listing, cursors, got, steady>>
libraryVars == <<entries, saved, now, begun, req, reader>>

\* A request's place is the position or added_at its insert will store; seen
\* is history: the ids of the entries there were when it read the position.
Idle == [at |-> "idle", kind |-> "end", user |-> Owner, track |-> 0,
         place |-> 0, id |-> 0, seen |-> {}]

LibraryInit ==
  /\ entries = {} /\ saved = {} /\ now = 0 /\ begun = 0
  /\ req = [r \in Requests |-> Idle]
  /\ listing = "idle" /\ cursors = {} /\ got = {} /\ steady = {}

Goto(r, p) == req' = [req EXCEPT ![r].at = p]
Leave(r) == req' = [req EXCEPT ![r] = Idle]

-----------------------------------------------------------------------------
(* AddTrack, RemoveTrack, SaveTrack, UnsaveTrack *)

\* What SaveTrack would be without its check of the track.
Unchecked(k) == CASE k = "save" -> "insert"
                  [] k = "unsave" -> "delete"
                  [] OTHER -> "owner"
FirstStep(k) == CASE k = "save" -> "track"
                  [] k = "unsave" -> "delete"
                  [] OTHER -> "owner"

Begin(r, k, u, t) ==
  /\ req[r].at = "idle" /\ begun < MaxRequests
  /\ begun' = begun + 1
  /\ req' = [req EXCEPT ![r] = [Idle EXCEPT !.at = FirstStep(k), !.kind = k,
                                            !.user = u, !.track = t, !.id = begun']]
  /\ UNCHANGED <<entries, saved, now, reader>>

\* getOwnedPlaylist: anybody else is refused.
CheckOwner(r) ==
  /\ req[r].at = "owner"
  /\ IF req[r].user # Owner THEN Leave(r)
     ELSE Goto(r, IF req[r].kind = "remove" THEN "delete" ELSE "track")
  /\ UNCHANGED <<entries, saved, now, begun, reader>>

\* TrackExists; a save reads its clock before it inserts.
CheckTrack(r) ==
  /\ req[r].at = "track"
  /\ IF req[r].track \notin Catalog THEN Leave(r)
     ELSE IF req[r].kind = "save"
       THEN req' = [req EXCEPT ![r].at = "insert", ![r].place = now]
       ELSE Goto(r, "place")
  /\ UNCHANGED <<entries, saved, now, begun, reader>>

\* n / 2 in float64: below the smallest normal number, half a unit rounds
\* to the even neighbour.
Half(n) == IF n % 2 = 0 THEN n \div 2
           ELSE IF (n \div 2) % 2 = 0 THEN n \div 2 ELSE n \div 2 + 1

\* MinPosition; a slip would be to read any row.
AnyEntry(e) == e \in entries
First(e) == \A f \in entries : e.pos <= f.pos
Last(e) == \A f \in entries : f.pos <= e.pos

\* computePosition: half the first position, or a gap after the last one.
ReadPosition(r) ==
  LET Take(p) == req' = [req EXCEPT ![r].at = "insert", ![r].place = p,
                                    ![r].seen = {e.id : e \in entries}]
  IN /\ req[r].at = "place"
     /\ \/ entries = {} /\ Take(Gap)
        \/ /\ req[r].kind = "start"
           /\ \E e \in entries : First(e) /\ Take(Half(e.pos))
        \/ /\ req[r].kind = "end"
           /\ \E e \in entries : Last(e) /\ Take(e.pos + Gap)
     /\ UNCHANGED <<entries, saved, now, begun, reader>>

\* PlaylistTrackRepo.Add
InsertEntry(r) ==
  /\ req[r].at = "insert" /\ req[r].kind # "save"
  /\ entries' = entries \cup
       {[id |-> req[r].id, track |-> req[r].track, kind |-> req[r].kind,
         pos |-> req[r].place, seen |-> req[r].seen]}
  /\ Leave(r)
  /\ UNCHANGED <<saved, now, begun, reader>>

\* PlaylistTrackRepo.Remove deletes every entry of the track.
DeleteEntries(r) ==
  /\ req[r].at = "delete" /\ req[r].kind = "remove"
  /\ entries' = {e \in entries : e.track # req[r].track}
  /\ Leave(r)
  /\ UNCHANGED <<saved, now, begun, reader>>

\* ON CONFLICT (user_id, track_id) DO NOTHING
Saved(S, at, t) == IF \E x \in S : x[2] = t THEN S ELSE S \cup {<<at, t>>}

InsertSaved(r) ==
  /\ req[r].at = "insert" /\ req[r].kind = "save"
  /\ saved' = Saved(saved, req[r].place, req[r].track)
  /\ Leave(r)
  /\ UNCHANGED <<entries, now, begun, reader>>

DeleteSaved(r) ==
  /\ req[r].at = "delete" /\ req[r].kind = "unsave"
  /\ saved' = {x \in saved : x[2] # req[r].track}
  /\ steady' = steady \cap saved'
  /\ Leave(r)
  /\ UNCHANGED <<entries, now, begun, listing, cursors, got>>

\* A statement fails, or the client is gone: what was done stays done.
Fail(r) ==
  /\ req[r].at # "idle"
  /\ Leave(r)
  /\ UNCHANGED <<entries, saved, now, begun, reader>>

-----------------------------------------------------------------------------
(* ListSavedTracks, page after page *)

\* ORDER BY added_at DESC, track_id DESC
Newer == {p \in Rows \X Rows :
            \/ p[1][1] > p[2][1]
            \/ p[1][1] = p[2][1] /\ p[1][2] > p[2][2]}

StartListing ==
  /\ listing = "idle"
  /\ listing' = "reading" /\ steady' = saved
  /\ UNCHANGED <<entries, saved, now, begun, req, cursors, got>>

NextPage ==
  LET rest == Beyond(saved, Newer, cursors)
      page == FirstRows(rest, Newer, Limit)
  IN /\ listing = "reading"
     /\ got' = got \cup page
     /\ IF rest = page THEN listing' = "done" /\ UNCHANGED cursors
        ELSE cursors' = NextCursor(rest, Newer, Limit) /\ UNCHANGED listing
     /\ UNCHANGED <<entries, saved, now, begun, req, steady>>

Tick == /\ now < MaxClock /\ now' = now + 1
        /\ UNCHANGED <<entries, saved, begun, req, reader>>

LibraryNext ==
  \/ \E r \in Requests :
       \/ \E k \in Kinds, u \in {Owner, Stranger}, t \in Tracks : Begin(r, k, u, t)
       \/ CheckOwner(r) \/ CheckTrack(r) \/ ReadPosition(r) \/ Fail(r)
       \/ InsertEntry(r) \/ DeleteEntries(r) \/ InsertSaved(r) \/ DeleteSaved(r)
  \/ StartListing \/ NextPage \/ Tick

LibrarySpec == LibraryInit /\ [][LibraryNext]_libraryVars

-----------------------------------------------------------------------------

Request == [at : {"idle", "owner", "track", "place", "insert", "delete"},
            kind : Kinds, user : {Owner, Stranger}, track : Tracks \cup {0},
            place : Nat, id : 0..MaxRequests, seen : SUBSET (1..MaxRequests)]

EntryRow == [id : 1..MaxRequests, track : Catalog, kind : {"start", "end"},
             pos : Nat, seen : SUBSET (1..MaxRequests)]

\* Types; an entry is always of a track the catalog has, and a saved row never
\* carries a time to come (AddTrack and SaveTrack check before they insert).
TypeOK ==
  /\ entries \subseteq EntryRow
  /\ saved \subseteq (0..now) \X Catalog
  /\ now \in 0..MaxClock /\ begun \in 0..MaxRequests
  /\ req \in [Requests -> Request]
  /\ listing \in {"idle", "reading", "done"}
  /\ cursors \subseteq Rows /\ got \subseteq Rows /\ steady \subseteq Rows

\* Whatever other requests do between the read of the position and the insert
\* (computePosition, then Add): a track added at the end comes strictly after
\* every entry there was at the read, and one added at the start strictly
\* before, until halving has reached zero.
PlacedAsAsked ==
  \A e, f \in entries : e.id \in f.seen =>
    IF f.kind = "end" THEN f.pos > e.pos ELSE f.pos < e.pos \/ f.pos = 0

\* What the listing is still to get.
ToList == IF listing = "reading" THEN Beyond(saved, Newer, cursors) ELSE {}

\* A client that pages through its saved tracks is given every row that stays
\* saved all along, and no row twice, although tracks are saved and unsaved
\* between its pages and times may be equal (LibraryTrackRepo.List's cursor).
SavedPagesFit == steady \subseteq got \cup ToList /\ got \cap ToList = {}
=============================================================================
