------------------------ MODULE LibrarySearch_proofs ------------------------
(***************************************************************************)
(* The library, the catalog and the search, for any number of requests, of *)
(* tracks and of calls.  Both lists of tracks are cut into keyset pages,   *)
(* so that the lemmas about pages come first.                              *)
(***************************************************************************)
EXTENDS Library, SearchClient, FiniteSetTheorems, TLAPS

-----------------------------------------------------------------------------
(* Keyset pages *)

\* A finite set of rows that is not empty has a first row: of the sets of rows
\* before each row one is smallest.
LEMMA FirstRow ==
  ASSUME NEW R, NEW order, IsOrder(order, R), NEW S \in SUBSET R, IsFiniteSet(S), S # {}
  PROVE  \E f \in S : \A s \in S : <<s, f>> \notin order
<1> DEFINE before(r) == {s \in S : <<s, r>> \in order}
           all == {before(r) : r \in S}
<1>1. all # {} /\ all \subseteq FiniteSubsetsOf(S)
  <2>1. all # {} /\ \A p \in all : p \in SUBSET S
    OBVIOUS
  <2> HIDE DEF all
  <2> QED BY <2>1, FS_FiniteSubsetsOfFinite
<1>2. PICK m \in all : \A p \in all : ~(<<p, m>> \in StrictSubsetOrdering(S))
  <2> HIDE DEF all
  <2> QED BY <1>1, WFMin, FS_StrictSubsetOrderingWellFounded
<1>3. PICK f \in S : m = before(f)
  BY <1>2
<1>4. SUFFICES ASSUME NEW s \in S, <<s, f>> \in order PROVE FALSE
  BY <1>3
<1>5. s \notin before(s) /\ s \in before(f) /\ before(s) \subseteq before(f)
  BY <1>4 DEF IsOrder
<1>6. <<before(s), before(f)>> \in StrictSubsetOrdering(S)
  BY <1>5 DEF StrictSubsetOrdering
<1> QED BY <1>2, <1>3, <1>6

\* It has a last row as well: the first one of the converse order.
LEMMA LastRow ==
  ASSUME NEW R, NEW order, IsOrder(order, R), NEW S \in SUBSET R, IsFiniteSet(S), S # {}
  PROVE  LastOf(S, order) # {}
<1> DEFINE conv == {p \in R \X R : <<p[2], p[1]>> \in order}
<1>1. \A a, b \in R : <<a, b>> \in conv <=> <<b, a>> \in order
  OBVIOUS
<1> HIDE DEF conv
<1>2. IsOrder(conv, R)
  BY <1>1 DEF IsOrder
<1>3. PICK l \in S : \A s \in S : <<s, l>> \notin conv
  BY <1>2, FirstRow
<1>4. \A s \in S \ {l} : <<s, l>> \in order
  BY <1>1, <1>3 DEF IsOrder
<1> QED BY <1>4 DEF LastOf

\* What the first rows of a set leave out comes after every one of them:
\* wherever in the page the cursor points, nothing is skipped.
LEMMA PageIsPrefix ==
  ASSUME NEW R, NEW order, IsOrder(order, R), NEW S \in SUBSET R, IsFiniteSet(S),
         NEW n \in Nat, NEW c \in FirstRows(S, order, n),
         NEW x \in S \ FirstRows(S, order, n)
  PROVE  <<c, x>> \in order
<1> DEFINE before(r) == {s \in S : <<s, r>> \in order}
<1>1. /\ Cardinality(before(c)) < n /\ c \in S
      /\ ~(Cardinality(before(x)) < n)
  BY DEF FirstRows
<1>2. SUFFICES ASSUME <<c, x>> \notin order PROVE FALSE
  OBVIOUS
<1>3. <<x, c>> \in order
  BY <1>1, <1>2 DEF IsOrder
<1>4. before(x) \subseteq before(c)
  BY <1>1, <1>3 DEF IsOrder
<1>5. IsFiniteSet(before(c)) /\ IsFiniteSet(before(x))
  BY FS_Subset
<1>6. Cardinality(before(x)) <= Cardinality(before(c))
  BY <1>4, <1>5, FS_Subset
<1>7. Cardinality(before(x)) \in Nat /\ Cardinality(before(c)) \in Nat
  BY <1>5, FS_CardinalityType
<1> HIDE DEF before
<1> QED BY <1>1, <1>6, <1>7

\* A page that is not the whole rest has a last row, and the cursor that names
\* it parts what was handed out from what is left.
LEMMA CursorParts ==
  ASSUME NEW R, NEW order, IsOrder(order, R), NEW S \in SUBSET R, IsFiniteSet(S),
         FirstRows(S, order, Limit) # S
  PROVE  LET page == FirstRows(S, order, Limit)
             next == NextCursor(S, order, Limit)
         IN  /\ next # {} /\ next \subseteq page
             /\ \A x \in page, c \in next : x = c \/ <<x, c>> \in order
             /\ \A x \in S \ page, c \in next : <<c, x>> \in order
<1> DEFINE page == FirstRows(S, order, Limit)
           next == NextCursor(S, order, Limit)
<1>n. Limit \in Nat \ {0}
  BY PagingAssumption
<1>1. page \subseteq S /\ next \subseteq page
      /\ \A x \in page, c \in next : x = c \/ <<x, c>> \in order
  BY DEF FirstRows, NextCursor, LastOf
<1>2. PICK f \in S : \A s \in S : <<s, f>> \notin order
  BY <1>1, FirstRow
<1>3. {s \in S : <<s, f>> \in order} = {}
  BY <1>2
<1>4. f \in page
  <2>1. Cardinality({s \in S : <<s, f>> \in order}) = 0
    BY <1>3, FS_EmptySet
  <2> QED BY <2>1, <1>n DEF FirstRows
<1>5. next # {}
  <2>1. page \in SUBSET R /\ IsFiniteSet(page)
    BY <1>1, FS_Subset
  <2> HIDE DEF page
  <2> QED BY <2>1, <1>4, LastRow DEF NextCursor, page
<1>6. \A x \in S \ page, c \in next : <<c, x>> \in order
  <2>1. SUFFICES ASSUME NEW x \in S \ page, NEW c \in page PROVE <<c, x>> \in order
    BY <1>1
  <2> QED BY <1>n, PageIsPrefix
<1> QED BY <1>1, <1>5, <1>6

-----------------------------------------------------------------------------
(* The library: playlists and saved tracks *)

\* How far a request of a kind can be.
PathInv ==
  \A r \in Requests :
    /\ req[r].at = "owner" => req[r].kind \in {"start", "end", "remove"}
    /\ req[r].at = "track" => req[r].kind \in {"start", "end", "save"}
    /\ req[r].at = "delete" => req[r].kind \in {"remove", "unsave"}
    /\ req[r].at \in {"place", "insert"} => req[r].track \in Catalog
    /\ req[r].at = "place" => req[r].kind \in {"start", "end"}
    /\ req[r].at = "insert" => req[r].kind \in {"start", "end", "save"}
    /\ req[r].at = "insert" /\ req[r].kind = "save" => req[r].place <= now

\* An entry's id is its own: no request under way will insert it, nor one that
\* an entry or a request has already seen.
IdInv ==
  \A r \in Requests : req[r].at # "idle" =>
    /\ req[r].id \in 1..begun
    /\ \A q \in Requests : q # r => req[q].id # req[r].id
    /\ \A q \in Requests : req[r].id \notin req[q].seen
    /\ \A e \in entries : e.id # req[r].id /\ req[r].id \notin e.seen
SeenInv ==
  /\ \A r \in Requests : req[r].seen \subseteq 1..begun /\ (req[r].at = "idle" => req[r].id = 0)
  /\ \A e \in entries : e.id \in 1..begun /\ e.seen \subseteq 1..begun

\* The place a request carries is on the asked side of what it saw.
Apart(kind, place, pos) == IF kind = "end" THEN place > pos ELSE place < pos \/ place = 0
PlaceInv ==
  \A r \in Requests : req[r].at = "insert" /\ req[r].kind # "save" =>
    \A e \in entries : e.id \in req[r].seen => Apart(req[r].kind, req[r].place, e.pos)

\* A row that stays saved was handed out or comes after the cursor, and none
\* that was handed out does.
PageInv ==
  /\ IsFiniteSet(saved)
  /\ steady \subseteq saved
  /\ listing = "idle" => cursors = {} /\ got = {} /\ steady = {}
  /\ listing = "done" => steady \subseteq got
  /\ listing = "reading" =>
       /\ \A x \in steady : x \in got \/ \A c \in cursors : <<c, x>> \in Newer
       /\ \A x \in got : /\ cursors # {}
                         /\ \A c \in cursors : x = c \/ <<x, c>> \in Newer

-----------------------------------------------------------------------------

\* Half a position is less, until it is zero.
LEMMA HalfIsLess ==
  ASSUME NEW n \in Nat
  PROVE  Half(n) \in Nat /\ (Half(n) < n \/ Half(n) = 0)
BY DEF Half

\* The order of the query is total: equal times are told apart by the track.
LEMMA NewerIsOrder == IsOrder(Newer, Rows)
<1> DEFINE lt(a, b) == a[1] > b[1] \/ (a[1] = b[1] /\ a[2] > b[2])
<1>1. ASSUME NEW a \in Rows, NEW b \in Rows PROVE <<a, b>> \in Newer <=> lt(a, b)
  BY DEF Newer
<1>2. ASSUME NEW a \in Rows PROVE a[1] \in Int /\ a[2] \in Int /\ a = <<a[1], a[2]>>
  <2>1. PICK t \in 0..MaxClock, k \in Tracks : a = <<t, k>>
    BY DEF Rows
  <2>2. t \in Int /\ k \in Int
    BY PagingAssumption
  <2> QED BY <2>1, <2>2
<1>3. \A a \in Rows : ~lt(a, a)
  BY <1>2
<1>4. ASSUME NEW a \in Rows, NEW b \in Rows, a # b PROVE lt(a, b) \/ lt(b, a)
  BY <1>2, <1>4
<1>5. ASSUME NEW a \in Rows, NEW b \in Rows, NEW c \in Rows, lt(a, b), lt(b, c)
      PROVE  lt(a, c)
  BY <1>2, <1>5
<1> HIDE DEF lt
<1> QED BY <1>1, <1>3, <1>4, <1>5 DEF IsOrder

-----------------------------------------------------------------------------

\* A request is begun and goes on by one of these.
Handling(r) == \/ CheckOwner(r) \/ CheckTrack(r) \/ ReadPosition(r) \/ Fail(r)
               \/ InsertEntry(r) \/ DeleteEntries(r) \/ InsertSaved(r) \/ DeleteSaved(r)
Beginning(r) == \E k \in Kinds, u \in {Owner, Stranger}, t \in Tracks : Begin(r, k, u, t)

LEMMA LibrarySteps ==
  ASSUME LibraryNext
  PROVE  \/ StartListing \/ NextPage \/ Tick
         \/ \E r \in Requests : Beginning(r) \/ Handling(r)
BY Zenon DEF LibraryNext, Handling, Beginning

\* The place that is read is on the asked side of everything there is.
LEMMA Places ==
  ASSUME TypeOK, PathInv, NEW r \in Requests, ReadPosition(r)
  PROVE  \E p \in Nat :
           /\ req' = [req EXCEPT ![r].at = "insert", ![r].place = p,
                                 ![r].seen = {e.id : e \in entries}]
           /\ \A e \in entries : Apart(req[r].kind, p, e.pos)
<1> DEFINE Take(p) == req' = [req EXCEPT ![r].at = "insert", ![r].place = p,
                                         ![r].seen = {e.id : e \in entries}]
<1>0. \A e \in entries : e.pos \in Nat
  BY DEF TypeOK, EntryRow
<1>g. Gap \in Nat \ {0}
  BY LibraryAssumption
<1>1. CASE entries = {} /\ Take(Gap)
  BY <1>1, <1>g
<1>2. CASE /\ req[r].kind = "start"
           /\ \E e \in entries : First(e) /\ Take(Half(e.pos))
  <2>1. PICK e \in entries : First(e) /\ Take(Half(e.pos))
    BY <1>2
  <2>2. Half(e.pos) \in Nat /\ \A f \in entries : Half(e.pos) < f.pos \/ Half(e.pos) = 0
    BY <2>1, <1>0, HalfIsLess DEF First
  <2> QED BY <1>2, <2>1, <2>2 DEF Apart
<1>3. CASE /\ req[r].kind = "end"
           /\ \E e \in entries : Last(e) /\ Take(e.pos + Gap)
  <2>1. PICK e \in entries : Last(e) /\ Take(e.pos + Gap)
    BY <1>3
  <2>2. e.pos + Gap \in Nat /\ \A f \in entries : e.pos + Gap > f.pos
    BY <2>1, <1>0, <1>g DEF Last
  <2> QED BY <1>3, <2>1, <2>2 DEF Apart
<1>4. \/ entries = {} /\ Take(Gap)
      \/ req[r].kind = "start" /\ \E e \in entries : First(e) /\ Take(Half(e.pos))
      \/ req[r].kind = "end" /\ \E e \in entries : Last(e) /\ Take(e.pos + Gap)
  BY Zenon DEF ReadPosition
<1> QED BY <1>1, <1>2, <1>3, <1>4

\* Every statement keeps the types, and leaves its request where its kind may be.
LEMMA EntryTypeStep ==
  ASSUME TypeOK, PathInv, IdInv, [LibraryNext]_libraryVars
  PROVE  TypeOK' /\ PathInv'
<1> USE LibraryAssumption DEF TypeOK, PathInv, reader, Goto, Leave, Request, Kinds
<1>0. CASE UNCHANGED libraryVars
  BY <1>0 DEF libraryVars
<1>n. /\ Idle.at = "idle" /\ Idle.kind = "end" /\ Idle.user = Owner /\ Idle.track = 0
      /\ Idle.place = 0 /\ Idle.id = 0 /\ Idle.seen = {} /\ Idle \in Request
  BY DEF Idle
<1>1. CASE StartListing
  <2>1. Catalog \subseteq Tracks /\ 0..now \subseteq 0..MaxClock
    OBVIOUS
  <2> QED BY <1>1, <2>1 DEF StartListing, Rows
<1>2. CASE NextPage
  <2>1. saved \subseteq Rows
    <3>1. Catalog \subseteq Tracks /\ 0..now \subseteq 0..MaxClock
      OBVIOUS
    <3> QED BY <3>1 DEF Rows
  <2>2. /\ got' \subseteq Rows /\ cursors' \subseteq Rows
        /\ listing' \in {"idle", "reading", "done"}
        /\ UNCHANGED <<entries, saved, now, begun, req, steady>>
    BY <1>2, <2>1 DEF NextPage, FirstRows, Beyond, NextCursor, LastOf
  <2> QED BY <2>2
<1>3. CASE Tick
  <2>1. now' \in 0..MaxClock /\ now < now'
    BY <1>3 DEF Tick
  <2>2. 0..now \subseteq 0..now'
    BY <2>1
  <2> QED BY <1>3, <2>1, <2>2 DEF Tick
<1>4. ASSUME NEW r \in Requests, Beginning(r) PROVE TypeOK' /\ PathInv'
  <2>1. PICK k \in Kinds, u \in {Owner, Stranger}, t \in Tracks : Begin(r, k, u, t)
    BY <1>4 DEF Beginning
  <2> DEFINE new == [Idle EXCEPT !.at = FirstStep(k), !.kind = k,
                                 !.user = u, !.track = t, !.id = begun']
  <2>2. /\ begun' \in 0..MaxRequests /\ UNCHANGED <<entries, saved, now, reader>>
        /\ req' = [req EXCEPT ![r] = new]
    BY <2>1 DEF Begin
  <2>3. /\ new \in Request /\ new.at \in {"owner", "track", "delete"}
        /\ new.at = "owner" => k \in {"start", "end", "remove"}
        /\ new.at = "track" => k \in {"start", "end", "save"}
        /\ new.at = "delete" => k \in {"remove", "unsave"}
        /\ new.kind = k
    BY <2>2, <1>n DEF FirstStep, Idle
  <2> HIDE DEF new
  <2> QED BY <2>2, <2>3
<1>5. ASSUME NEW r \in Requests, Handling(r) PROVE TypeOK' /\ PathInv'
  <2>1. CASE CheckOwner(r) BY <2>1, <1>n DEF CheckOwner
  <2>2. CASE CheckTrack(r) BY <2>2, <1>n DEF CheckTrack
  <2>3. CASE ReadPosition(r)
    <3>1. PICK p \in Nat :
            /\ req' = [req EXCEPT ![r].at = "insert", ![r].place = p,
                                  ![r].seen = {e.id : e \in entries}]
            /\ \A e \in entries : Apart(req[r].kind, p, e.pos)
      BY <2>3, Places
    <3>2. {e.id : e \in entries} \subseteq 1..MaxRequests
      BY DEF EntryRow
    <3>3. /\ req[r].at = "place" /\ req[r].kind \in {"start", "end"}
          /\ req[r].track \in Catalog /\ UNCHANGED <<entries, saved, now, begun, reader>>
      BY <2>3 DEF ReadPosition
    <3>4. /\ req'[r] \in Request /\ req'[r].at = "insert" /\ req'[r].kind = req[r].kind
          /\ req'[r].track = req[r].track /\ req' \in [Requests -> Request]
          /\ \A q \in Requests : q # r => req'[q] = req[q]
      <4>1. req \in [Requests -> Request] /\ req[r] \in Request
        OBVIOUS
      <4> DEFINE new == [req[r] EXCEPT !.at = "insert", !.place = p,
                                       !.seen = {e.id : e \in entries}]
      <4>2. new \in Request /\ new.at = "insert" /\ new.kind = req[r].kind
            /\ new.track = req[r].track
        BY ONLY <3>2, <4>1, p \in Nat DEF Request
      <4>3. req' = [req EXCEPT ![r] = new]
        BY ONLY <3>1, <4>1 DEF Request
      <4> HIDE DEF new
      <4> QED BY ONLY <4>1, <4>2, <4>3, r \in Requests
    <3> QED BY <3>3, <3>4
  <2>4. CASE Fail(r) BY <2>4, <1>n DEF Fail
  <2>5. CASE InsertEntry(r)
    <3>1. req[r] \in Request /\ 1..begun \subseteq 1..MaxRequests
      OBVIOUS
    <3>2. /\ req[r].id \in 1..MaxRequests /\ req[r].track \in Catalog
          /\ req[r].kind \in {"start", "end"} /\ req[r].place \in Nat
          /\ req[r].seen \in SUBSET (1..MaxRequests)
      BY <2>5, <3>1 DEF InsertEntry, IdInv
    <3>3. entries' \subseteq EntryRow
      BY <2>5, <3>2 DEF InsertEntry, EntryRow
    <3> QED BY <2>5, <3>3, <1>n DEF InsertEntry
  <2>6. CASE DeleteEntries(r) BY <2>6, <1>n DEF DeleteEntries
  <2>7. CASE InsertSaved(r) BY <2>7, <1>n DEF InsertSaved, Saved
  <2>8. CASE DeleteSaved(r) BY <2>8, <1>n DEF DeleteSaved
  <2> QED BY <1>5, <2>1, <2>2, <2>3, <2>4, <2>5, <2>6, <2>7, <2>8 DEF Handling
<1> QED BY <1>0, <1>1, <1>2, <1>3, <1>4, <1>5, LibrarySteps

\* Ids are never given twice.
LEMMA IdStep ==
  ASSUME TypeOK, PathInv, IdInv, SeenInv, [LibraryNext]_libraryVars
  PROVE  IdInv' /\ SeenInv'
<1> USE DEF IdInv, SeenInv, reader, Goto, Leave
<1>t. req \in [Requests -> Request] /\ begun \in Nat /\ entries \subseteq EntryRow
  BY DEF TypeOK
<1>n. Idle.at = "idle" /\ Idle.id = 0 /\ Idle.seen = {}
  BY DEF Idle
<1>0. CASE UNCHANGED libraryVars
  BY <1>0 DEF libraryVars
<1>1. CASE StartListing \/ NextPage \/ Tick
  BY <1>1 DEF StartListing, NextPage, Tick
<1>2. ASSUME NEW r \in Requests, Beginning(r) PROVE IdInv' /\ SeenInv'
  <2>1. /\ begun' = begun + 1 /\ entries' = entries
        /\ req'[r].id = begun + 1 /\ req'[r].seen = {} /\ req'[r].at # "idle"
        /\ \A q \in Requests : q # r => req'[q] = req[q]
    BY <1>2, <1>t, <1>n DEF Beginning, Begin, FirstStep, Idle
  <2>2. ASSUME NEW S, S \subseteq 1..begun PROVE begun + 1 \notin S /\ S \subseteq 1..begun'
    BY <2>1, <2>2, <1>t
  <2>3. \A q \in Requests : req[q].id # begun + 1 /\ begun + 1 \notin req[q].seen
    BY <2>2, <1>t
  <2> QED BY <2>1, <2>2, <2>3, <1>t
<1>3. ASSUME NEW r \in Requests, Handling(r), ~ReadPosition(r), ~InsertEntry(r)
      PROVE  IdInv' /\ SeenInv'
  <2>1. /\ begun' = begun /\ entries' \subseteq entries
        /\ \A q \in Requests : q # r => req'[q] = req[q]
    BY <1>3, <1>t DEF Handling, CheckOwner, CheckTrack, Fail, DeleteEntries,
       InsertSaved, DeleteSaved
  <2>2. \/ req'[r] = Idle
        \/ req[r].at # "idle" /\ req'[r].id = req[r].id /\ req'[r].seen = req[r].seen
    BY <1>3, <1>t DEF Handling, CheckOwner, CheckTrack, Fail, DeleteEntries,
       InsertSaved, DeleteSaved, Request
  <2>3. CASE req'[r] = Idle
    BY <2>1, <2>3, <1>n, <1>t
  <2>4. CASE req[r].at # "idle" /\ req'[r].id = req[r].id /\ req'[r].seen = req[r].seen
    <3>1. IdInv'
      BY <2>1, <2>4
    <3>2. SeenInv'
      <4>1. req'[r].at # "idle"
        BY <1>3, <2>4, <1>t, <1>n DEF SeenInv, Handling, CheckOwner, CheckTrack, Fail,
           DeleteEntries, InsertSaved, DeleteSaved, Request
      <4> QED BY <2>1, <2>4, <4>1
    <3> QED BY <3>1, <3>2
  <2> QED BY <2>2, <2>3, <2>4
<1>4. ASSUME NEW r \in Requests, ReadPosition(r) PROVE IdInv' /\ SeenInv'
  <2>0. PICK p \in Nat : req' = [req EXCEPT ![r].at = "insert", ![r].place = p,
                                            ![r].seen = {e.id : e \in entries}]
    BY <1>4, Places
  <2>a. /\ req[r].at = "place" /\ begun' = begun /\ entries' = entries
    BY <1>4 DEF ReadPosition
  <2>1. /\ \A q \in Requests : q # r => req'[q] = req[q]
        /\ req'[r].seen = {e.id : e \in entries} /\ req'[r].id = req[r].id
        /\ req'[r].at = "insert"
    BY ONLY <2>0, <1>t, r \in Requests DEF Request
  <2>2. \A q \in Requests : req[q].at # "idle" => req[q].id \notin {e.id : e \in entries}
    OBVIOUS
  <2>3. {e.id : e \in entries} \subseteq 1..begun
    OBVIOUS
  <2> QED BY <2>a, <2>1, <2>2, <2>3
<1>5. ASSUME NEW r \in Requests, InsertEntry(r) PROVE IdInv' /\ SeenInv'
  <2> DEFINE new == [id |-> req[r].id, track |-> req[r].track, kind |-> req[r].kind,
                     pos |-> req[r].place, seen |-> req[r].seen]
  <2>1. /\ req[r].at = "insert" /\ begun' = begun /\ entries' = entries \cup {new}
        /\ \A q \in Requests : q # r => req'[q] = req[q]
        /\ req'[r] = Idle
    BY <1>5, <1>t DEF InsertEntry
  <2>2. new.id = req[r].id /\ new.seen = req[r].seen
    OBVIOUS
  <2> HIDE DEF new
  <2> QED BY <2>1, <2>2, <1>t, <1>n
<1> QED BY <1>0, <1>1, <1>2, <1>3, <1>4, <1>5, LibrarySteps DEF Handling

\* What a request is about to insert stays apart from what it saw: later
\* entries have ids it has not seen, and positions never change.
LEMMA PlaceStep ==
  ASSUME TypeOK, PathInv, IdInv, PlaceInv, PlacedAsAsked, [LibraryNext]_libraryVars
  PROVE  PlaceInv' /\ PlacedAsAsked'
<1> USE DEF reader, Goto, Leave
<1>t. req \in [Requests -> Request]
  BY DEF TypeOK
<1>n. Idle.at = "idle"
  BY DEF Idle
<1>k. ASSUME entries' \subseteq entries,
             \A q \in Requests : \/ req'[q] = req[q] \/ req'[q].at # "insert"
                                \/ req'[q].kind = "save"
      PROVE  PlaceInv' /\ PlacedAsAsked'
  BY <1>k DEF PlaceInv, PlacedAsAsked
<1>0. CASE UNCHANGED libraryVars
  BY <1>0, <1>k DEF libraryVars
<1>1. CASE StartListing \/ NextPage \/ Tick
  BY <1>1, <1>k DEF StartListing, NextPage, Tick
<1>2. ASSUME NEW r \in Requests, Beginning(r) PROVE PlaceInv' /\ PlacedAsAsked'
  <2>1. /\ entries' = entries /\ req'[r].at # "insert"
        /\ \A q \in Requests : q # r => req'[q] = req[q]
    BY <1>2, <1>t DEF Beginning, Begin, FirstStep, Idle, Kinds
  <2> QED BY <1>k, <2>1
<1>3. ASSUME NEW r \in Requests, Handling(r), ~ReadPosition(r), ~InsertEntry(r)
      PROVE  PlaceInv' /\ PlacedAsAsked'
  <2>1. /\ entries' \subseteq entries
        /\ \A q \in Requests : q # r => req'[q] = req[q]
    BY <1>3, <1>t DEF Handling, CheckOwner, CheckTrack, Fail, DeleteEntries,
       InsertSaved, DeleteSaved
  <2>2. req'[r].at # "insert" \/ req'[r].kind = "save"
    BY <1>3, <1>t, <1>n DEF Handling, CheckOwner, CheckTrack, Fail, DeleteEntries,
       InsertSaved, DeleteSaved, Request
  <2> QED BY <1>k, <2>1, <2>2
<1>4. ASSUME NEW r \in Requests, ReadPosition(r) PROVE PlaceInv' /\ PlacedAsAsked'
  <2>1. PICK p \in Nat :
          /\ req' = [req EXCEPT ![r].at = "insert", ![r].place = p,
                                ![r].seen = {e.id : e \in entries}]
          /\ \A e \in entries : Apart(req[r].kind, p, e.pos)
    BY <1>4, Places
  <2>2. entries' = entries
    BY <1>4 DEF ReadPosition
  <2>3. /\ \A q \in Requests : q # r => req'[q] = req[q]
        /\ req'[r].kind = req[r].kind /\ req'[r].place = p
    BY ONLY <2>1, <1>t, r \in Requests DEF Request
  <2> QED BY <2>1, <2>2, <2>3 DEF PlaceInv, PlacedAsAsked
<1>5. ASSUME NEW r \in Requests, InsertEntry(r) PROVE PlaceInv' /\ PlacedAsAsked'
  <2> DEFINE new == [id |-> req[r].id, track |-> req[r].track, kind |-> req[r].kind,
                     pos |-> req[r].place, seen |-> req[r].seen]
  <2>1. /\ req[r].at = "insert" /\ req[r].kind # "save" /\ entries' = entries \cup {new}
        /\ \A q \in Requests : q # r => req'[q] = req[q]
        /\ req'[r].at = "idle"
    BY <1>5, <1>t, <1>n DEF InsertEntry
  <2>2. /\ new.id = req[r].id /\ new.seen = req[r].seen
        /\ new.pos = req[r].place /\ new.kind = req[r].kind
    OBVIOUS
  <2> HIDE DEF new
  <2>3. /\ \A q \in Requests : new.id \notin req[q].seen
        /\ \A e \in entries : new.id \notin e.seen
        /\ new.id \notin new.seen
    BY <2>1, <2>2 DEF IdInv
  <2>4. PlaceInv'
    BY <2>1, <2>3 DEF PlaceInv
  <2>5. \A e \in entries : e.id \in new.seen => Apart(new.kind, new.pos, e.pos)
    BY <2>1, <2>2 DEF PlaceInv
  <2>6. PlacedAsAsked'
    BY <2>1, <2>3, <2>5 DEF PlacedAsAsked, Apart
  <2> QED BY <2>4, <2>6
<1> QED BY <1>0, <1>1, <1>2, <1>3, <1>4, <1>5, LibrarySteps DEF Handling

\* No row before a cursor, or named by it, comes after it.
LEMMA PagesFitNow ==
  ASSUME TypeOK, PageInv
  PROVE  SavedPagesFit
<1>1. CASE listing = "reading"
  <2>1. steady \subseteq got \cup ToList
    BY <1>1 DEF PageInv, ToList, Beyond
  <2>2. ASSUME NEW x \in got, x \in ToList PROVE FALSE
    <3>1. PICK c \in cursors : x = c \/ <<x, c>> \in Newer
      BY <1>1 DEF PageInv
    <3>2. <<c, x>> \in Newer
      BY <1>1, <2>2 DEF ToList, Beyond
    <3>3. x \in Rows /\ c \in Rows
      BY DEF TypeOK
    <3> QED BY <3>1, <3>2, <3>3, NewerIsOrder DEF IsOrder
  <2> QED BY <2>1, <2>2 DEF SavedPagesFit
<1>2. CASE listing \in {"idle", "done"}
  BY <1>2 DEF PageInv, SavedPagesFit, ToList
<1> QED BY <1>1, <1>2 DEF TypeOK

\* A page ends where the next one begins.
LEMMA PageStep ==
  ASSUME TypeOK, PageInv, [LibraryNext]_libraryVars
  PROVE  PageInv'
<1> USE DEF reader
<1>r. saved \subseteq Rows /\ got \subseteq Rows /\ cursors \subseteq Rows
  <2>1. Catalog \subseteq Tracks /\ 0..now \subseteq 0..MaxClock
    BY LibraryAssumption DEF TypeOK
  <2> QED BY <2>1 DEF Rows, TypeOK
<1>0. CASE UNCHANGED libraryVars
  BY <1>0 DEF libraryVars, PageInv
<1>1. CASE StartListing
  BY <1>1 DEF StartListing, PageInv
<1>2. CASE NextPage
  <2> DEFINE rest == Beyond(saved, Newer, cursors)
             page == FirstRows(rest, Newer, Limit)
             next == NextCursor(rest, Newer, Limit)
  <2>1. /\ listing = "reading" /\ got' = got \cup page
        /\ UNCHANGED <<saved, steady>>
        /\ \/ rest = page /\ listing' = "done"
           \/ page # rest /\ cursors' = next /\ listing' = "reading"
    BY <1>2 DEF NextPage
  <2>2. /\ rest \subseteq saved /\ page \subseteq rest
        /\ \A x \in rest, c \in cursors : <<c, x>> \in Newer
    BY DEF Beyond, FirstRows
  <2>3. IsFiniteSet(rest) /\ rest \in SUBSET Rows
    BY <1>r, <2>2, FS_Subset DEF PageInv
  <2>4. \A x \in steady : x \in got \/ x \in rest
    BY <2>1 DEF PageInv, Beyond
  <2>5. ASSUME page # rest
        PROVE  /\ next # {} /\ next \subseteq page
               /\ \A x \in page, c \in next : x = c \/ <<x, c>> \in Newer
               /\ \A x \in rest \ page, c \in next : <<c, x>> \in Newer
    <3> HIDE DEF rest
    <3> QED BY <2>3, <2>5, NewerIsOrder, CursorParts
  <2> HIDE DEF rest, page, next
  <2>6. CASE rest = page /\ listing' = "done"
    BY <2>1, <2>4, <2>6 DEF PageInv
  <2>7. CASE page # rest /\ cursors' = next /\ listing' = "reading"
    <3>1. \A x \in steady : x \in got' \/ \A c \in next : <<c, x>> \in Newer
      BY <2>1, <2>4, <2>5, <2>7
    <3>2. ASSUME NEW x \in got, NEW c \in next PROVE <<x, c>> \in Newer
      <4>1. PICK d \in cursors : x = d \/ <<x, d>> \in Newer
        BY <2>1 DEF PageInv
      <4>2. <<d, c>> \in Newer
        BY <2>2, <2>5, <2>7
      <4>3. x \in Rows /\ d \in Rows /\ c \in Rows
        BY <1>r, <2>2, <2>5, <2>7
      <4> QED BY <4>1, <4>2, <4>3, NewerIsOrder DEF IsOrder
    <3>3. \A x \in got' : next # {} /\ \A c \in next : x = c \/ <<x, c>> \in Newer
      BY <2>1, <2>5, <2>7, <3>2
    <3> QED BY <2>1, <2>7, <3>1, <3>3 DEF PageInv
  <2> QED BY <2>1, <2>6, <2>7
<1>3. CASE Tick
  BY <1>3 DEF Tick, PageInv
<1>4. ASSUME NEW r \in Requests, Beginning(r) PROVE PageInv'
  BY <1>4 DEF Beginning, Begin, PageInv
<1>5. ASSUME NEW r \in Requests, InsertSaved(r) PROVE PageInv'
  <2>1. saved' = saved \/ saved' = saved \cup {<<req[r].place, req[r].track>>}
    BY <1>5 DEF InsertSaved, Saved
  <2>2. IsFiniteSet(saved') /\ saved \subseteq saved'
    BY <2>1, FS_AddElement DEF PageInv
  <2> QED BY <1>5, <2>2 DEF InsertSaved, PageInv
<1>6. ASSUME NEW r \in Requests, DeleteSaved(r) PROVE PageInv'
  <2>1. /\ saved' \subseteq saved /\ steady' = steady \cap saved'
        /\ UNCHANGED <<listing, cursors, got>>
    BY <1>6 DEF DeleteSaved
  <2>2. IsFiniteSet(saved')
    BY <2>1, FS_Subset DEF PageInv
  <2> QED BY <2>1, <2>2 DEF PageInv
<1>7. ASSUME NEW r \in Requests, Handling(r), ~InsertSaved(r), ~DeleteSaved(r)
      PROVE  PageInv'
  <2>1. UNCHANGED <<saved, reader>>
    BY <1>7 DEF Handling, CheckOwner, CheckTrack, ReadPosition, Fail, InsertEntry,
       DeleteEntries
  <2> QED BY <2>1 DEF PageInv
<1> QED BY <1>0, <1>1, <1>2, <1>3, <1>4, <1>5, <1>6, <1>7, LibrarySteps

-----------------------------------------------------------------------------

LibraryInv == /\ TypeOK /\ PathInv /\ IdInv /\ SeenInv
              /\ PlaceInv /\ PlacedAsAsked /\ PageInv

LEMMA LibraryInductive == LibrarySpec => []LibraryInv
<1>1. LibraryInit => LibraryInv
  <2> SUFFICES ASSUME LibraryInit PROVE LibraryInv
    OBVIOUS
  <2>1. /\ Idle.at = "idle" /\ Idle.id = 0 /\ Idle.seen = {} /\ Idle \in Request
    BY LibraryAssumption DEF Idle, Request, Kinds
  <2>2. TypeOK
    <3>1. now \in 0..MaxClock /\ begun \in 0..MaxRequests
      BY LibraryAssumption DEF LibraryInit
    <3> QED BY <2>1, <3>1 DEF LibraryInit, TypeOK
  <2>3. PathInv /\ IdInv /\ SeenInv
    BY <2>1 DEF LibraryInit, PathInv, IdInv, SeenInv
  <2>4. PlaceInv /\ PlacedAsAsked
    BY <2>1 DEF LibraryInit, PlaceInv, PlacedAsAsked
  <2>5. PageInv
    BY FS_EmptySet DEF LibraryInit, PageInv
  <2> QED BY <2>2, <2>3, <2>4, <2>5 DEF LibraryInv
<1>2. LibraryInv /\ [LibraryNext]_libraryVars => LibraryInv'
  BY EntryTypeStep, IdStep, PlaceStep, PageStep DEF LibraryInv
<1> QED BY <1>1, <1>2, PTL DEF LibrarySpec

\* Entries, saved rows, requests under way and the client's pages keep their types,
\* and every entry and every saved row is of a track the catalog has.
THEOREM LibraryTyped == LibrarySpec => []TypeOK
<1>1. LibraryInv => TypeOK
  BY DEF LibraryInv
<1> QED BY <1>1, LibraryInductive, PTL

\* A track added at an end of the playlist is beyond every entry its position
\* was computed from, however many additions and removals overlap.
THEOREM PositionsHold == LibrarySpec => []PlacedAsAsked
<1>1. LibraryInv => PlacedAsAsked
  BY DEF LibraryInv
<1> QED BY <1>1, LibraryInductive, PTL

\* Paging yields every saved track that was not removed meanwhile, and none
\* twice, for any page size and any number of equal times.
THEOREM SavedPages == LibrarySpec => []SavedPagesFit
<1>1. LibraryInv => SavedPagesFit
  BY PagesFitNow DEF LibraryInv
<1> QED BY <1>1, LibraryInductive, PTL

-----------------------------------------------------------------------------
(* The catalog: what curators write *)

WriteRecord ==
  [at : {"idle", "role", "check", "insert", "credit", "commit"},
   row : NewRows \cup {<<"none", 0>>}, artist : SUBSET Artists, album : SUBSET Albums]

DatabaseTypes ==
  /\ curator \in BOOLEAN
  /\ artists \subseteq Artists /\ albums \subseteq Albums
  /\ tracks \subseteq Tracks /\ IsFiniteSet(tracks)
  /\ write \in [Writers -> WriteRecord]

\* What a request has found out by where it is: nothing it looked for is ever
\* deleted.
WriteInv ==
  \A w \in Writers :
    /\ write[w].at \in {"credit", "commit"} => write[w].row[1] = "track"
    /\ write[w].row[1] = "track" => write[w].row[2] \in Tracks /\ write[w].artist # {}
    /\ write[w].row[1] = "track" /\ write[w].at \in {"insert", "credit", "commit"}
         => write[w].album \subseteq albums
    /\ write[w].at = "commit" => write[w].artist \subseteq artists

CatalogInv == DatabaseTypes /\ WriteInv /\ TracksAreWhole


LEMMA CatalogStart == CatalogInit => CatalogInv
<1> SUFFICES ASSUME CatalogInit PROVE CatalogInv
  OBVIOUS
<1>1. NoWrite \in WriteRecord /\ NoWrite.at = "idle" /\ NoWrite.row[1] = "none"
  BY DEF NoWrite, WriteRecord
<1> QED BY <1>1, FS_EmptySet
    DEF CatalogInit, CatalogInv, DatabaseTypes, WriteInv, TracksAreWhole

\* A request that goes on, or ends, keeps what it has found out.
LEMMA WriteStep ==
  ASSUME DatabaseTypes, WriteInv, CatalogNext
  PROVE  DatabaseTypes' /\ WriteInv'
<1> USE DEF database
<1>t. write \in [Writers -> WriteRecord] /\ \A w \in Writers : write[w] \in WriteRecord
  BY DEF DatabaseTypes
<1>n. NoWrite \in WriteRecord /\ NoWrite.at = "idle" /\ NoWrite.row[1] = "none"
  BY DEF NoWrite, WriteRecord
<1>k. ASSUME NEW w \in Writers, UNCHANGED <<curator, database>>,
             \E new \in WriteRecord :
               /\ write' = [write EXCEPT ![w] = new]
               /\ new.at \in {"credit", "commit"} => new.row[1] = "track"
               /\ new.row[1] = "track" => new.row[2] \in Tracks /\ new.artist # {}
               /\ new.row[1] = "track" /\ new.at \in {"insert", "credit", "commit"}
                    => new.album \subseteq albums
               /\ new.at = "commit" => new.artist \subseteq artists
      PROVE  DatabaseTypes' /\ WriteInv'
  BY <1>k, <1>t DEF DatabaseTypes, WriteInv
<1>m. ASSUME NEW w \in Writers, Answer(w), UNCHANGED curator,
             artists \subseteq artists', artists' \subseteq Artists,
             albums \subseteq albums', albums' \subseteq Albums,
             tracks' \subseteq Tracks, IsFiniteSet(tracks')
      PROVE  DatabaseTypes' /\ WriteInv'
  BY <1>m, <1>t, <1>n DEF DatabaseTypes, WriteInv, Answer
<1>1. ASSUME NEW w \in Writers, BeginCreate(w) PROVE DatabaseTypes' /\ WriteInv'
  <2>1. PICK row \in NewRows, a \in AtMostOne(Artists), b \in AtMostOne(Albums) :
          /\ row[1] = "track" => a # {}
          /\ write' = [write EXCEPT ![w] = [at |-> "role", row |-> row,
                                           artist |-> a, album |-> b]]
    BY <1>1 DEF BeginCreate
  <2>2. row[1] = "track" => row[2] \in Tracks
    BY DEF NewRows
  <2>3. a \subseteq Artists /\ b \subseteq Albums
    BY DEF AtMostOne
  <2> DEFINE new == [at |-> "role", row |-> row, artist |-> a, album |-> b]
  <2>4. /\ new \in WriteRecord /\ new.at = "role" /\ new.row = row /\ new.artist = a
    BY <2>3 DEF WriteRecord
  <2>5. UNCHANGED <<curator, database>>
    BY <1>1 DEF BeginCreate
  <2> HIDE DEF new
  <2> QED BY <1>k, <2>1, <2>2, <2>4, <2>5 DEF new
<1>2. ASSUME NEW w \in Writers, NEW p \in {"check", "insert", "credit", "commit"},
             Proceed(w, p), UNCHANGED <<curator, database>>,
             p \in {"credit", "commit"} => write[w].row[1] = "track",
             write[w].row[1] = "track" /\ p \in {"insert", "credit", "commit"}
               => write[w].album \subseteq albums,
             p = "commit" => write[w].artist \subseteq artists
      PROVE  DatabaseTypes' /\ WriteInv'
  <2> DEFINE new == [write[w] EXCEPT !.at = p]
  <2>1. /\ new \in WriteRecord /\ new.at = p /\ new.row = write[w].row
        /\ new.artist = write[w].artist /\ new.album = write[w].album
    BY <1>t DEF WriteRecord
  <2>2. write' = [write EXCEPT ![w] = new]
    BY <1>2, <1>t DEF Proceed
  <2>3. write[w].row[1] = "track" => write[w].row[2] \in Tracks /\ write[w].artist # {}
    BY DEF WriteInv
  <2> HIDE DEF new
  <2> QED BY <1>2, <1>k, <2>1, <2>2, <2>3
<1>3. ASSUME NEW w \in Writers, CheckRole(w) PROVE DatabaseTypes' /\ WriteInv'
  BY <1>3, <1>2, <1>m DEF CheckRole, DatabaseTypes
<1>4. ASSUME NEW w \in Writers, CheckParent(w) PROVE DatabaseTypes' /\ WriteInv'
  BY <1>4, <1>2, <1>m DEF CheckParent, Known, DatabaseTypes
<1>5. ASSUME NEW w \in Writers, InsertSimple(w) PROVE DatabaseTypes' /\ WriteInv'
  BY <1>5, <1>m DEF InsertSimple, DatabaseTypes
<1>6. ASSUME NEW w \in Writers, InsertTrack(w) PROVE DatabaseTypes' /\ WriteInv'
  BY <1>6, <1>2 DEF InsertTrack, WriteInv
<1>7. ASSUME NEW w \in Writers, InsertCredit(w) PROVE DatabaseTypes' /\ WriteInv'
  BY <1>7, <1>2, <1>m DEF InsertCredit, DatabaseTypes, WriteInv
<1>8. ASSUME NEW w \in Writers, Commit(w) PROVE DatabaseTypes' /\ WriteInv'
  <2>1. write[w].row[2] \in Tracks
    BY <1>8 DEF Commit, WriteInv
  <2>2. tracks' \subseteq Tracks /\ IsFiniteSet(tracks')
    BY <1>8, <2>1, FS_AddElement DEF Commit, DatabaseTypes
  <2> QED BY <1>8, <2>2, <1>m DEF Commit, DatabaseTypes
<1>9. ASSUME NEW w \in Writers, FailCreate(w) PROVE DatabaseTypes' /\ WriteInv'
  BY <1>9, <1>m DEF FailCreate, DatabaseTypes
<1>10. CASE ChangeRole
  BY <1>10 DEF ChangeRole, DatabaseTypes, WriteInv
<1> QED BY <1>1, <1>3, <1>4, <1>5, <1>6, <1>7, <1>8, <1>9, <1>10 DEF CatalogNext

\* A track shows up only with its credit, in one commit.
LEMMA WholeStep ==
  ASSUME WriteInv, TracksAreWhole, CatalogNext
  PROVE  TracksAreWhole' /\ tracks \subseteq tracks'
<1> USE DEF database
<1>1. ASSUME NEW w \in Writers, Commit(w)
      PROVE  TracksAreWhole' /\ tracks \subseteq tracks'
  <2> DEFINE t == write[w].row[2]
  <2>1. /\ tracks' = tracks \cup {t} /\ artists' = artists /\ albums' = albums
        /\ credits' = credits \cup ({t} \X write[w].artist)
        /\ albumOf' = albumOf \cup ({t} \X write[w].album)
    BY <1>1 DEF Commit
  <2>2. /\ write[w].artist # {} /\ write[w].artist \subseteq artists
        /\ write[w].album \subseteq albums
    BY <1>1 DEF Commit, WriteInv
  <2> HIDE DEF t
  <2>3. \A x \in tracks' : \E a \in artists' : <<x, a>> \in credits'
    BY <2>1, <2>2 DEF TracksAreWhole
  <2>4. \A x \in credits' : x[1] \in tracks' /\ x[2] \in artists'
    BY <2>1, <2>2 DEF TracksAreWhole
  <2>5. \A x \in albumOf' : x[1] \in tracks' /\ x[2] \in albums'
    BY <2>1, <2>2 DEF TracksAreWhole
  <2> QED BY <2>1, <2>3, <2>4, <2>5 DEF TracksAreWhole
<1>2. ASSUME NEW w \in Writers, InsertSimple(w)
      PROVE  TracksAreWhole' /\ tracks \subseteq tracks'
  BY <1>2 DEF InsertSimple, TracksAreWhole
<1>3. CASE UNCHANGED database
  BY <1>3 DEF TracksAreWhole
<1> QED BY <1>1, <1>2, <1>3 DEF CatalogNext, BeginCreate, CheckRole, CheckParent, InsertTrack,
       InsertCredit, FailCreate, ChangeRole

LEMMA CatalogStep ==
  ASSUME CatalogInv, [CatalogNext]_catalogVars
  PROVE  CatalogInv' /\ tracks \subseteq tracks'
<1>1. CASE CatalogNext
  BY <1>1, WriteStep, WholeStep DEF CatalogInv
<1>2. CASE UNCHANGED catalogVars
  BY <1>2 DEF catalogVars, database, CatalogInv, DatabaseTypes, WriteInv, TracksAreWhole
<1> QED BY <1>1, <1>2

-----------------------------------------------------------------------------
(* The search *)

ResultSet == [query : Queries \cup {None}, items : SUBSET Tracks, cursor : SUBSET Tracks,
              more : BOOLEAN, loading : BOOLEAN, since : SUBSET Tracks]

Call == [at : {"free", "sent", "answered", "failed"}, query : Queries \cup {None}, gen : Nat,
         base : ResultSet \cup {None}, page : ResultSet \cup {None}]

ClientTypes ==
  /\ typed \in Queries \cup {None} /\ generation \in Nat
  /\ timer \in BOOLEAN /\ late \in BOOLEAN
  /\ shown \in ResultSet \cup {None}
  /\ call \in [Calls -> Call]

\* The pages of some results so far: nothing is missing, and everything shown
\* is before the cursor or named by it.
Fits(s) ==
  /\ s.since \subseteq s.items \cup ToCome(s)
  /\ s.more => /\ s.cursor # {}
               /\ \A x \in s.items, c \in s.cursor : x = c \/ <<x, c>> \in ByTitle

\* Whatever may be shown fits: also what a call was made from or brings back,
\* which is for the text of the call.
Sound(s) == s # None => Fits(s)
CallOk(k) ==
  /\ Sound(k.base) /\ Sound(k.page)
  /\ k.base # None => k.base.more /\ k.base.query = k.query
  /\ k.page # None => k.page.query = k.query
  /\ k.at # "free" /\ k.gen = 0 => k.base # None
  /\ k.gen <= generation
  /\ k.gen = generation /\ k.gen > 0 => k.query = typed
CallInv == \A c \in Calls : CallOk(call[c])

\* A text that is not shown is waited for, by the timer or by a call.
LatestInv ==
  /\ timer => generation > 0
  /\ ~late => \/ timer
              \/ \E c \in Calls : call[c].at # "free" /\ call[c].gen > 0
                                  /\ call[c].gen = generation
              \/ shown = None \/ shown.query = typed

SearchInv == CatalogInv /\ ClientTypes /\ Sound(shown) /\ CallInv /\ LatestInv

\* The order of the query is total: equal titles are told apart by the id.
LEMMA ByTitleIsOrder == IsOrder(ByTitle, Tracks)
<1> DEFINE lt(a, b) == Title[a] < Title[b] \/ (Title[a] = Title[b] /\ a < b)
<1>1. \A a, b \in Tracks : <<a, b>> \in ByTitle <=> lt(a, b)
  BY DEF ByTitle
<1>2. \A a \in Tracks : a \in Int /\ Title[a] \in Int
  BY PagingAssumption, CatalogAssumption
<1>3. \A a \in Tracks : ~lt(a, a)
  BY <1>2
<1>4. \A a, b \in Tracks : a # b => lt(a, b) \/ lt(b, a)
  BY <1>2
<1>5. \A a, b, c \in Tracks : lt(a, b) /\ lt(b, c) => lt(a, c)
  BY <1>2
<1> HIDE DEF lt
<1> QED BY <1>1, <1>3, <1>4, <1>5 DEF IsOrder

\* Results that fit repeat nothing: what is shown is not after the cursor.
LEMMA ResultsFitNow ==
  ASSUME DatabaseTypes, ClientTypes, Sound(shown)
  PROVE  PagesFit
<1> SUFFICES ASSUME shown # None PROVE shown.items \cap ToCome(shown) = {}
  BY DEF PagesFit, Sound, Fits
<1>1. SUFFICES ASSUME shown.more, NEW x \in shown.items, x \in ToCome(shown) PROVE FALSE
  BY DEF ToCome
<1>2. shown \in ResultSet
  BY DEF ClientTypes
<1>3. PICK c \in shown.cursor : x = c \/ <<x, c>> \in ByTitle
  BY <1>1 DEF Sound, Fits
<1>4. <<c, x>> \in ByTitle
  BY <1>1 DEF ToCome, Found, Beyond
<1>5. x \in Tracks /\ c \in Tracks
  BY <1>2 DEF ResultSet
<1> QED BY <1>3, <1>4, <1>5, ByTitleIsOrder DEF IsOrder

\* Tracks that are created later only add to what is to come.
LEMMA StaysSound ==
  ASSUME tracks \subseteq tracks', NEW s, Sound(s)
  PROVE  Sound(s)'
<1>1. ToCome(s) \subseteq ToCome(s)'
  BY DEF ToCome, Found, Beyond
<1> QED BY <1>1 DEF Sound, Fits

\* What Serve answers to a request that starts from base.
AnswerAfter(q, base, since) ==
  LET rest == Found(q, base.cursor)
      page == FirstRows(rest, ByTitle, Limit)
      next == IF rest # page THEN NextCursor(rest, ByTitle, Limit) ELSE {}
  IN  Results(q, base.items \cup page, next, rest # page, FALSE, since)

\* Adding the next page to results that fit gives results that fit.
LEMMA PageSound ==
  ASSUME DatabaseTypes, NEW q \in Queries \cup {None},
         NEW base \in ResultSet, base.since \subseteq base.items \cup Found(q, base.cursor),
         \A x \in base.items :
           base.cursor # {} /\ \A c \in base.cursor : x = c \/ <<x, c>> \in ByTitle,
         NEW since \in SUBSET Tracks, since \in {base.since, Found(q, base.cursor)}
  PROVE  LET s == AnswerAfter(q, base, since)
         IN  s \in ResultSet /\ s.query = q /\ Fits(s)
<1> DEFINE rest == Found(q, base.cursor)
           page == FirstRows(rest, ByTitle, Limit)
           next == IF rest # page THEN NextCursor(rest, ByTitle, Limit) ELSE {}
           s == Results(q, base.items \cup page, next, rest # page, FALSE, since)
<1>1. /\ rest \subseteq Tracks /\ IsFiniteSet(rest) /\ page \subseteq rest
      /\ \A x \in rest, c \in base.cursor : <<c, x>> \in ByTitle
  <2>1. rest \subseteq tracks /\ page \subseteq rest
    BY DEF Found, Beyond, FirstRows
  <2>2. \A x \in rest, c \in base.cursor : <<c, x>> \in ByTitle
    BY DEF Found, Beyond
  <2> QED BY <2>1, <2>2, FS_Subset DEF DatabaseTypes
<1>2. ASSUME rest # page
      PROVE  /\ next # {} /\ next \subseteq page
             /\ \A x \in page, c \in next : x = c \/ <<x, c>> \in ByTitle
             /\ \A x \in rest \ page, c \in next : <<c, x>> \in ByTitle
  <2>1. page = FirstRows(rest, ByTitle, Limit) /\ next = NextCursor(rest, ByTitle, Limit)
    BY <1>2
  <2> HIDE DEF rest, page, next
  <2> QED BY <1>1, <1>2, <2>1, ByTitleIsOrder, CursorParts
<1>3. base.items \subseteq Tracks /\ base.cursor \subseteq Tracks /\ base.since \subseteq Tracks
  BY DEF ResultSet
<1>4. next \subseteq Tracks
  BY <1>1, <1>2
<1>5. /\ s.query = q /\ s.items = base.items \cup page /\ s.cursor = next
      /\ s.more = (rest # page) /\ s.since = since
  BY DEF Results
<1>6. s \in ResultSet
  BY <1>1, <1>3, <1>4 DEF Results, ResultSet
<1>e. since = base.since \/ since = rest
  OBVIOUS
<1>g. rest = Found(q, base.cursor) /\ base.since \subseteq base.items \cup rest
  OBVIOUS
<1>n. s = AnswerAfter(q, base, since)
  BY DEF AnswerAfter
<1> HIDE DEF s, rest, page, next
<1>7. rest \subseteq page \cup ToCome(s)
  <2>1. ASSUME NEW x \in rest, x \notin page PROVE x \in ToCome(s)
    <3>1. \A c \in next : <<c, x>> \in ByTitle
      BY <1>2, <2>1
    <3>2. x \in tracks \cap Matches[q]
      BY <1>g, <2>1 DEF Found, Beyond
    <3> QED BY <1>5, <2>1, <3>1, <3>2 DEF ToCome, Found, Beyond
  <2> QED BY <2>1
<1>8. s.since \subseteq s.items \cup ToCome(s)
  BY <1>5, <1>7, <1>e, <1>g
<1>9. ASSUME s.more, NEW x \in s.items, NEW c \in s.cursor PROVE x = c \/ <<x, c>> \in ByTitle
  <2>1. rest # page /\ c \in page /\ c \in Tracks
    BY <1>1, <1>2, <1>5, <1>9
  <2>2. CASE x \in page
    BY <1>2, <1>5, <1>9, <2>2
  <2>3. CASE x \in base.items
    <3>1. PICK d \in base.cursor : x = d \/ <<x, d>> \in ByTitle
      BY <2>3
    <3>2. <<d, c>> \in ByTitle
      BY <1>1, <2>1
    <3> QED BY <1>3, <2>1, <2>3, <3>1, <3>2, ByTitleIsOrder DEF IsOrder
  <2> QED BY <1>5, <1>9, <2>2, <2>3
<1>10. s \in ResultSet /\ s.query = q /\ Fits(s)
  BY <1>2, <1>5, <1>6, <1>8, <1>9 DEF Fits
<1> QED BY <1>10, <1>n

\* What the server answers fits to what it was asked with.
LEMMA ServeStep ==
  ASSUME DatabaseTypes, ClientTypes, CallInv, NEW c \in Calls, Serve(c)
  PROVE  \E page \in ResultSet :
           /\ page.query = call[c].query /\ Fits(page)
           /\ call' = [call EXCEPT ![c].at = "answered", ![c].page = page]
<1> DEFINE q == call[c].query
           base == IF call[c].base = None THEN Empty(q) ELSE call[c].base
           rest == Found(q, base.cursor)
           since == IF call[c].base = None THEN rest ELSE base.since
<1>t. call[c] \in Call /\ CallOk(call[c])
  BY DEF ClientTypes, CallInv
<1>1. q \in Queries \cup {None}
  BY <1>t DEF Call
<1>2. rest \in SUBSET Tracks
  BY DEF Found, Beyond, DatabaseTypes
<1>3. /\ base \in ResultSet /\ base.query = q
      /\ base.since \subseteq base.items \cup rest
      /\ \A x \in base.items :
           base.cursor # {} /\ \A d \in base.cursor : x = d \/ <<x, d>> \in ByTitle
  <2>1. CASE call[c].base = None
    <3>1. base = Empty(q)
      BY <2>1
    <3>2. Empty(q) \in ResultSet /\ Empty(q).query = q /\ Empty(q).since = {} /\ Empty(q).items = {}
      BY <1>1 DEF Empty, Results, ResultSet
    <3> HIDE DEF base, q
    <3> QED BY <3>1, <3>2
  <2>2. CASE call[c].base # None
    <3>1. base = call[c].base
      BY <2>2
    <3>2. /\ call[c].base \in ResultSet /\ Fits(call[c].base)
          /\ call[c].base.more /\ call[c].base.query = q
      BY <1>t, <2>2 DEF Call, CallOk, Sound
    <3>3. ToCome(base) = rest
      BY <3>1, <3>2 DEF ToCome
    <3> HIDE DEF base, q, rest
    <3> QED BY <3>1, <3>2, <3>3 DEF Fits
  <2> QED BY <2>1, <2>2
<1>4. since \in SUBSET Tracks /\ since \in {base.since, rest}
  BY <1>2, <1>3 DEF ResultSet
<1> DEFINE new == AnswerAfter(q, base, since)
<1>5. call' = [call EXCEPT ![c].at = "answered", ![c].page = new]
  BY DEF Serve, AnswerAfter
<1>6. new \in ResultSet /\ new.query = q /\ Fits(new)
  <2>1. since \in {base.since, Found(q, base.cursor)}
    BY <1>4
  <2> HIDE DEF base, since, q, rest, new
  <2>2. /\ AnswerAfter(q, base, since) \in ResultSet /\ AnswerAfter(q, base, since).query = q
        /\ Fits(AnswerAfter(q, base, since))
    BY <1>1, <1>3, <1>4, <2>1, PageSound DEF rest
  <2> QED BY <2>2 DEF new
<1> HIDE DEF new, q
<1> QED BY <1>5, <1>6 DEF q

\* Every step of the client keeps what may be shown in order.
LEMMA ClientStep ==
  ASSUME DatabaseTypes, ClientTypes, Sound(shown), CallInv, LatestInv, Client
  PROVE  ClientTypes' /\ Sound(shown)' /\ CallInv' /\ LatestInv'
<1>t. /\ call \in [Calls -> Call] /\ shown \in ResultSet \cup {None} /\ generation \in Nat
      /\ typed \in Queries \cup {None}
      /\ \A c \in Calls : call[c] \in Call /\ CallOk(call[c])
  BY DEF ClientTypes, CallInv
<1>u. UNCHANGED catalogVars => UNCHANGED tracks
  BY DEF catalogVars, database
<1>s. ASSUME UNCHANGED tracks, NEW s PROVE Sound(s)' <=> Sound(s)
  BY <1>s DEF Sound, Fits, ToCome, Found, Beyond
<1>1. ASSUME NEW q \in Queries \cup {None}, OnQueryChanged(q)
      PROVE  ClientTypes' /\ Sound(shown)' /\ CallInv' /\ LatestInv'
  <2>1. /\ generation' = generation + 1 /\ typed' = q /\ timer' = (q # None)
        /\ shown' = (IF q = None THEN Empty(None) ELSE shown) /\ call' = call
        /\ late' = (q # None /\ late) /\ UNCHANGED tracks
    BY <1>1, <1>u DEF OnQueryChanged
  <2>2. Empty(None) \in ResultSet /\ Empty(None).query = None /\ Fits(Empty(None))
    BY DEF Empty, Results, ResultSet, Fits, ToCome
  <2>3. ClientTypes'
    BY <2>1, <2>2, <1>t DEF ClientTypes
  <2>4. Sound(shown')
    BY <2>1, <2>2 DEF Sound
  <2>5. Sound(shown)'
    BY <2>1, <2>4 DEF Sound, Fits, ToCome, Found, Beyond
  <2>6. ASSUME NEW k \in Call, CallOk(k) PROVE CallOk(k)'
    <3>1. k.gen \in Nat
      BY DEF Call
    <3> QED BY <2>1, <2>6, <3>1, <1>t, <1>s DEF CallOk
  <2>7. CallInv'
    BY <2>1, <2>6, <1>t DEF CallInv
  <2>8. CASE q = None
    <3>1. shown'.query = typed' /\ ~timer'
      BY <2>1, <2>2, <2>8
    <3>2. LatestInv'
      BY <3>1 DEF LatestInv
    <3> QED BY <2>3, <2>5, <2>7, <3>2
  <2>9. CASE q # None
    <3>1. timer'
      BY <2>1, <2>9, Zenon
    <3>2. generation' > 0
      BY <2>1, <1>t
    <3>3. LatestInv'
      BY <3>1, <3>2 DEF LatestInv
    <3> QED BY <2>3, <2>5, <2>7, <3>3
  <2> QED BY <2>8, <2>9
<1>k. ASSUME NEW c \in Calls, NEW new \in Call, call' = [call EXCEPT ![c] = new],
             UNCHANGED <<tracks, typed, generation>>, CallOk(new),
             shown' \in ResultSet \cup {None}, Sound(shown'),
             timer' \in BOOLEAN, late' \in BOOLEAN
      PROVE  ClientTypes' /\ Sound(shown)' /\ CallInv'
  <2>1. ClientTypes'
    BY <1>k, <1>t DEF ClientTypes
  <2>2. Sound(shown)'
    BY <1>k DEF Sound, Fits, ToCome, Found, Beyond
  <2>3. ASSUME NEW k, CallOk(k) PROVE CallOk(k)'
    BY <1>k, <1>s, <2>3 DEF CallOk
  <2>4. CallInv'
    BY <1>k, <1>t, <2>3 DEF CallInv
  <2> QED BY <2>1, <2>2, <2>4
<1>n. /\ NoCall \in Call /\ NoCall.at = "free" /\ NoCall.base = None /\ NoCall.page = None
      /\ NoCall.gen = 0
  BY DEF NoCall, Call
<1>f. CallOk(NoCall)
  BY <1>n, <1>t DEF CallOk, Sound
<1>2. ASSUME NEW c \in Calls, RunSearch(c)
      PROVE  ClientTypes' /\ Sound(shown)' /\ CallInv' /\ LatestInv'
  <2> DEFINE new == [at |-> "sent", query |-> typed, gen |-> generation, base |-> None,
                     page |-> None]
  <2>1. /\ timer /\ ~timer' /\ timer' \in BOOLEAN /\ call' = [call EXCEPT ![c] = new]
        /\ UNCHANGED <<tracks, typed, generation, shown, late>>
    BY <1>2, <1>u DEF RunSearch, Send
  <2>2. generation > 0
    BY <2>1 DEF LatestInv
  <2>3. /\ new \in Call /\ new.at = "sent" /\ new.gen = generation /\ new.query = typed
        /\ new.base = None /\ new.page = None
    BY <1>t DEF Call
  <2> HIDE DEF new
  <2>4. CallOk(new)
    BY <2>2, <2>3, <1>t DEF CallOk, Sound
  <2>5. LatestInv'
    BY <2>1, <2>2, <2>3, <1>t DEF LatestInv
  <2> QED BY <2>1, <2>3, <2>4, <2>5, <1>k, <1>t DEF ClientTypes
<1>3. ASSUME NEW c \in Calls, LoadMore(c)
      PROVE  ClientTypes' /\ Sound(shown)' /\ CallInv' /\ LatestInv'
  <2> DEFINE new == [at |-> "sent", query |-> shown.query, gen |-> 0, base |-> shown,
                     page |-> None]
  <2>1. /\ shown # None /\ shown.more /\ call[c] = NoCall
        /\ call' = [call EXCEPT ![c] = new] /\ shown' = [shown EXCEPT !.loading = TRUE]
        /\ UNCHANGED <<tracks, typed, generation, timer, late>>
    BY <1>3, <1>u DEF LoadMore, Send
  <2>2. shown \in ResultSet /\ Fits(shown)
    BY <2>1, <1>t DEF Sound
  <2>3. /\ new \in Call /\ new.at = "sent" /\ new.gen = 0 /\ new.query = shown.query
        /\ new.base = shown /\ new.page = None
    BY <2>2 DEF Call, ResultSet
  <2> HIDE DEF new
  <2>4. CallOk(new)
    BY <2>1, <2>2, <2>3, <1>t DEF CallOk, Sound
  <2>5. /\ shown' \in ResultSet /\ shown'.query = shown.query /\ shown'.items = shown.items
        /\ shown'.cursor = shown.cursor /\ shown'.more = shown.more /\ shown'.since = shown.since
    BY <2>1, <2>2 DEF ResultSet
  <2>6. Sound(shown')
    BY <2>2, <2>5 DEF Sound, Fits, ToCome
  <2>7. LatestInv'
    BY <2>1, <2>3, <2>5, <1>t, <1>n DEF LatestInv
  <2> QED BY <2>1, <2>3, <2>4, <2>5, <2>6, <2>7, <1>k DEF ClientTypes
<1>4. ASSUME NEW c \in Calls, Serve(c)
      PROVE  ClientTypes' /\ Sound(shown)' /\ CallInv' /\ LatestInv'
  <2>1. PICK page \in ResultSet :
          /\ page.query = call[c].query /\ Fits(page)
          /\ call' = [call EXCEPT ![c].at = "answered", ![c].page = page]
    BY <1>4, ServeStep
  <2>2. call[c].at = "sent" /\ UNCHANGED <<tracks, typed, generation, timer, shown, late>>
    BY <1>4, <1>u DEF Serve
  <2> DEFINE new == [call[c] EXCEPT !.at = "answered", !.page = page]
  <2>3. /\ new \in Call /\ new.at = "answered" /\ new.gen = call[c].gen
        /\ new.query = call[c].query /\ new.base = call[c].base /\ new.page = page
    BY <1>t DEF Call
  <2>4. call' = [call EXCEPT ![c] = new]
    BY <2>1, <1>t
  <2> HIDE DEF new
  <2>5. CallOk(new)
    BY <2>1, <2>2, <2>3, <1>t DEF CallOk, Sound
  <2>6. LatestInv'
    BY <2>2, <2>3, <2>4, <1>t DEF LatestInv
  <2> QED BY <2>2, <2>3, <2>4, <2>5, <2>6, <1>k, <1>t DEF ClientTypes
<1>5. ASSUME NEW c \in Calls, Lose(c)
      PROVE  ClientTypes' /\ Sound(shown)' /\ CallInv' /\ LatestInv'
  <2> DEFINE new == [call[c] EXCEPT !.at = "failed"]
  <2>1. /\ call[c].at = "sent" /\ UNCHANGED <<tracks, typed, generation, timer, shown, late>>
        /\ call' = [call EXCEPT ![c] = new]
    BY <1>5, <1>u DEF Lose
  <2>2. /\ new \in Call /\ new.at = "failed" /\ new.gen = call[c].gen
        /\ new.query = call[c].query /\ new.base = call[c].base /\ new.page = call[c].page
    BY <1>t DEF Call
  <2> HIDE DEF new
  <2>3. CallOk(new)
    BY <2>1, <2>2, <1>t DEF CallOk
  <2>4. LatestInv'
    BY <2>1, <2>2, <1>t DEF LatestInv
  <2> QED BY <2>1, <2>2, <2>3, <2>4, <1>k, <1>t DEF ClientTypes
<1>6. ASSUME NEW c \in Calls, TakeSearch(c)
      PROVE  ClientTypes' /\ Sound(shown)' /\ CallInv' /\ LatestInv'
  <2>1. /\ call[c].gen > 0 /\ call' = [call EXCEPT ![c] = NoCall]
        /\ UNCHANGED <<tracks, typed, generation, timer>>
        /\ \/ call[c].gen = generation /\ shown' = call[c].page /\ ~late' /\ late' \in BOOLEAN
           \/ call[c].gen # generation /\ UNCHANGED <<shown, late>>
    BY <1>6, <1>u DEF TakeSearch, IsCurrent
  <2>2. CASE call[c].gen = generation /\ shown' = call[c].page /\ ~late' /\ late' \in BOOLEAN
    <3>1. /\ shown' \in ResultSet \cup {None} /\ Sound(shown')
          /\ shown' = None \/ shown'.query = typed
      BY <2>1, <2>2, <1>t DEF Call, CallOk
    <3>2. LatestInv'
      BY <2>1, <3>1 DEF LatestInv
    <3> QED BY <2>1, <2>2, <3>1, <3>2, <1>k, <1>n, <1>f DEF ClientTypes
  <2>3. CASE call[c].gen # generation /\ UNCHANGED <<shown, late>>
    <3>1. LatestInv'
      BY <2>1, <2>3, <1>t DEF LatestInv
    <3> QED BY <2>1, <2>3, <3>1, <1>k, <1>n, <1>f, <1>t DEF ClientTypes
  <2> QED BY <2>1, <2>2, <2>3
<1>7. ASSUME NEW c \in Calls, TakePage(c)
      PROVE  ClientTypes' /\ Sound(shown)' /\ CallInv' /\ LatestInv'
  <2>1. /\ call[c].gen = 0 /\ call[c].at # "free" /\ call' = [call EXCEPT ![c] = NoCall]
        /\ UNCHANGED <<tracks, typed, generation, timer>>
        /\ shown' = call[c].page \/ shown' = call[c].base
        /\ late' = (call[c].query # typed)
    BY <1>7, <1>u DEF TakePage
  <2>2. /\ shown' \in ResultSet \cup {None} /\ Sound(shown')
        /\ shown' = None \/ shown'.query = call[c].query
    BY <2>1, <1>t DEF Call, CallOk
  <2>3. LatestInv'
    BY <2>1, <2>2 DEF LatestInv
  <2> QED BY <2>1, <2>2, <2>3, <1>k, <1>n, <1>f DEF ClientTypes
<1> QED BY <1>1, <1>2, <1>3, <1>4, <1>5, <1>6, <1>7 DEF Client

LEMMA SearchInductive == Spec => []SearchInv
<1>1. Init => SearchInv
  <2> SUFFICES ASSUME Init PROVE SearchInv
    OBVIOUS
  <2>1. Empty(None) \in ResultSet /\ Empty(None).query = None /\ Fits(Empty(None))
    BY DEF Empty, Results, ResultSet, Fits, ToCome
  <2>2. /\ NoCall \in Call /\ NoCall.at = "free" /\ NoCall.base = None /\ NoCall.page = None
        /\ NoCall.gen = 0
    BY DEF NoCall, Call
  <2>3. ClientTypes /\ Sound(shown) /\ LatestInv
    BY <2>1, <2>2 DEF Init, ClientTypes, Sound, LatestInv
  <2>4. generation = 0 /\ \A c \in Calls : call[c] = NoCall
    BY DEF Init
  <2>5. CallInv
    BY <2>2, <2>4 DEF CallInv, CallOk, Sound
  <2> QED BY <2>3, <2>5, CatalogStart DEF Init, SearchInv
<1>2. SearchInv /\ [Next]_vars => SearchInv'
  <2> SUFFICES ASSUME SearchInv, [Next]_vars PROVE SearchInv'
    OBVIOUS
  <2>1. CASE [CatalogNext]_catalogVars /\ UNCHANGED clientVars
    <3>1. CatalogInv' /\ tracks \subseteq tracks'
      BY <2>1, CatalogStep DEF SearchInv
    <3>2. UNCHANGED <<typed, generation, timer, shown, call, late>>
      BY <2>1 DEF clientVars
    <3>3. ClientTypes' /\ LatestInv'
      BY <3>2 DEF SearchInv, ClientTypes, LatestInv
    <3>4. Sound(shown)'
      <4>1. shown' = shown /\ (shown # None => Fits(shown))
        BY <3>2 DEF SearchInv, Sound
      <4>2. ToCome(shown) \subseteq ToCome(shown)'
        BY <3>1, <4>1 DEF ToCome, Found, Beyond
      <4> QED BY <4>1, <4>2 DEF Sound, Fits
    <3>5. CallInv'
      <4>1. ASSUME NEW k, CallOk(k) PROVE CallOk(k)'
        BY <3>1, <3>2, <4>1, StaysSound DEF CallOk
      <4> QED BY <3>2, <4>1 DEF SearchInv, CallInv
    <3> QED BY <3>1, <3>3, <3>4, <3>5 DEF SearchInv
  <2>2. CASE Client
    <3>1. UNCHANGED catalogVars
      BY <2>2 DEF Client, OnQueryChanged, RunSearch, LoadMore, Serve, Lose, TakeSearch, TakePage
    <3>2. CatalogInv'
      BY <3>1, CatalogStep DEF SearchInv
    <3> QED BY <2>2, <3>2, ClientStep DEF SearchInv, CatalogInv
  <2> QED BY <2>1, <2>2 DEF Next, vars
<1> QED BY <1>1, <1>2, PTL DEF Spec

\* Whoever finds a track finds it whole, whatever requests of curators overlap
\* and fail, and however many there are.
THEOREM FoundWhole == Spec => []TracksAreWhole
<1>1. SearchInv => TracksAreWhole
  BY DEF SearchInv, CatalogInv
<1> QED BY <1>1, SearchInductive, PTL

\* Page after page of a search is handed out without a gap or a repetition,
\* for any page size, any titles and any number of overlapping calls.
THEOREM SearchPages == Spec => []PagesFit
<1>1. SearchInv => PagesFit
  BY ResultsFitNow DEF SearchInv, CatalogInv
<1> QED BY <1>1, SearchInductive, PTL

\* When all is quiet the results are those of the last text, unless a further
\* page of an older one came in late.
THEOREM LatestShown == Spec => []SettledShowsLatest
<1>1. SearchInv => SettledShowsLatest
  <2>1. NoCall.at = "free"
    BY DEF NoCall
  <2> QED BY <2>1 DEF SearchInv, LatestInv, SettledShowsLatest
<1> QED BY <1>1, SearchInductive, PTL
=============================================================================
