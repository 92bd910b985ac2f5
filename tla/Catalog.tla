------------------------------ MODULE Catalog ------------------------------
(***************************************************************************)
(* The catalog service: curators create artists, albums and tracks while   *)
(* others search.  Nothing is ever deleted.  A track, its credits and its  *)
(* assets are written in one transaction, the checks before it are not     *)
(* part of it.                                                             *)
(***************************************************************************)
EXTENDS KeysetPaging

CONSTANTS
  Writers,         \* create requests in flight at once
  Title,           \* the title of each track
  Artists, Albums, \* ids
  Queries,         \* search texts
  Matches          \* Matches[q]: the tracks similar enough to q

ASSUME CatalogAssumption ==
  /\ Title \in [Tracks -> Nat]
  /\ Matches \in [Queries -> SUBSET Tracks]

VARIABLES
  curator,   \* users.role of the caller is catalog_curator
  artists, albums, tracks,  \* committed rows
  credits,   \* committed rows of track_artists: <<track, artist>>
  albumOf,   \* <<track, album>> for the committed tracks that have one
  write      \* each create request

database == <<artists, albums, tracks, credits, albumOf>>
catalogVars == <<curator, database, write>>

\* A request creates one row: a track with a credit and perhaps an album.
NoWrite == [at |-> "idle", row |-> <<"none", 0>>, artist |-> {}, album |-> {}]

CatalogInit ==
  /\ curator \in BOOLEAN
  /\ artists = {} /\ albums = {} /\ tracks = {} /\ credits = {} /\ albumOf = {}
  /\ write = [w \in Writers |-> NoWrite]

Proceed(w, p) == write' = [write EXCEPT ![w].at = p]
Answer(w) == write' = [write EXCEPT ![w] = NoWrite]

\* ids.NewID
Fresh(row) == /\ row \notin ({"artist"} \X artists) \cup ({"album"} \X albums)
                            \cup ({"track"} \X tracks)
              /\ \A w \in Writers : write[w].row # row

NewRows == ({"artist"} \X Artists) \cup ({"album"} \X Albums) \cup ({"track"} \X Tracks)
AtMostOne(S) == {{}} \cup {{x} : x \in S}

\* A track needs a credit; an album may name its primary artist.
BeginCreate(w) ==
  /\ write[w].at = "idle"
  /\ \E row \in NewRows, a \in AtMostOne(Artists), b \in AtMostOne(Albums) :
       /\ Fresh(row)
       /\ row[1] = "artist" => a = {}
       /\ row[1] = "track" => a # {}
       /\ row[1] # "track" => b = {}
       /\ write' = [write EXCEPT ![w] = [at |-> "role", row |-> row, artist |-> a, album |-> b]]
  /\ UNCHANGED <<curator, database>>

\* RequireRole asks HasRole, which reads the user's row.
CheckRole(w) ==
  /\ write[w].at = "role"
  /\ IF curator THEN Proceed(w, "check") ELSE Answer(w)
  /\ UNCHANGED <<curator, database>>

\* CreateAlbum looks for the primary artist, CreateTrack for the album.
Known(w) == CASE write[w].row[1] = "album" -> write[w].artist \subseteq artists
              [] write[w].row[1] = "track" -> write[w].album \subseteq albums
              [] OTHER -> TRUE

CheckParent(w) ==
  /\ write[w].at = "check"
  /\ IF Known(w) THEN Proceed(w, "insert") ELSE Answer(w)
  /\ UNCHANGED <<curator, database>>

\* ArtistRepo.Create, AlbumRepo.Create
InsertSimple(w) ==
  /\ write[w].at = "insert" /\ write[w].row[1] # "track"
  /\ artists' = artists \cup {i \in Artists : <<"artist", i>> = write[w].row}
  /\ albums' = albums \cup {i \in Albums : <<"album", i>> = write[w].row}
  /\ Answer(w)
  /\ UNCHANGED <<curator, tracks, credits, albumOf>>

\* Without a transaction the row would show before it is whole.
InsertTrackOutright(w) ==
  /\ write[w].at = "insert" /\ write[w].row[1] = "track"
  /\ tracks' = tracks \cup {write[w].row[2]}
  /\ Proceed(w, "credit")
  /\ UNCHANGED <<curator, artists, albums, credits, albumOf>>

\* TrackRepo.Create begins: inside the transaction a row is nobody else's.
InsertTrack(w) ==
  /\ write[w].at = "insert" /\ write[w].row[1] = "track"
  /\ Proceed(w, "credit")
  /\ UNCHANGED <<curator, database>>

\* The foreign key refuses a credit of an artist there is not; rolled back.
InsertCredit(w) ==
  /\ write[w].at = "credit"
  /\ IF write[w].artist \subseteq artists THEN Proceed(w, "commit") ELSE Answer(w)
  /\ UNCHANGED <<curator, database>>

Commit(w) ==
  /\ write[w].at = "commit"
  /\ tracks' = tracks \cup {write[w].row[2]}
  /\ credits' = credits \cup ({write[w].row[2]} \X write[w].artist)
  /\ albumOf' = albumOf \cup ({write[w].row[2]} \X write[w].album)
  /\ Answer(w)
  /\ UNCHANGED <<curator, artists, albums>>

\* A statement fails (a duplicate slug or ISRC, a lost connection): rollback.
FailCreate(w) ==
  /\ write[w].at # "idle"
  /\ Answer(w) /\ UNCHANGED <<curator, database>>

\* The role is changed by hand, outside the program.
ChangeRole == curator' = ~curator /\ UNCHANGED <<database, write>>

CatalogNext ==
  \/ \E w \in Writers : BeginCreate(w) \/ CheckRole(w) \/ CheckParent(w) \/ InsertSimple(w)
                        \/ InsertTrack(w) \/ InsertCredit(w) \/ Commit(w) \/ FailCreate(w)
  \/ ChangeRole

-----------------------------------------------------------------------------
(* Search: one statement *)

\* ORDER BY title ASC, id ASC
ByTitle == {p \in Tracks \X Tracks :
              \/ Title[p[1]] < Title[p[2]]
              \/ Title[p[1]] = Title[p[2]] /\ p[1] < p[2]}

Found(q, cursor) == Beyond(tracks \cap Matches[q], ByTitle, cursor)

\* Whoever finds a track finds it whole, with a credit, and what it refers to
\* exists: the checks, the foreign keys and the transaction of
\* TrackRepo.Create, of several curators and failing statements.
TracksAreWhole ==
  /\ \A t \in tracks : \E a \in artists : <<t, a>> \in credits
  /\ \A c \in credits : c[1] \in tracks /\ c[2] \in artists
  /\ \A b \in albumOf : b[1] \in tracks /\ b[2] \in albums
=============================================================================
