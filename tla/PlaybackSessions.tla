-------------------------- MODULE PlaybackSessions --------------------------
(***************************************************************************)
(* The playback service.  A session is one value in Redis; a request reads *)
(* it, checks its owner and the track, and writes the whole value back,    *)
(* without asking whether it changed meanwhile.  Each action is one        *)
(* command to a store.                                                     *)
(***************************************************************************)
EXTENDS Integers, Sequences

CONSTANTS
  Calls,            \* requests in flight at once
  Users,
  Tracks, Catalog,  \* track ids; those the catalog has
  None,             \* nothing: no session, no track
  MaxSessions       \* bound: sessions ever created

ASSUME PlaybackAssumption ==
  /\ Catalog \subseteq Tracks /\ None \notin Tracks
  /\ MaxSessions \in Nat /\ None \notin 1..MaxSessions

Ids == 1..MaxSessions

VARIABLES
  session,    \* playback:session:<id> in Redis, None when expired or not yet there
  made,       \* sessions created
  call,       \* each request
  queued,     \* history: how many entries each session's queue accepted
  handed,     \* history: the entries Next took, by session
  disturbed   \* history: sessions written over a change the writer had not read

history == <<queued, handed, disturbed>>
server == <<session, made, call, history>>

\* SessionState; a queue entry is a track with the number of the entry.
Empty(u) == [user |-> u, track |-> None, playing |-> FALSE, queue |-> <<>>]

\* A call's base is the state it loaded, its track the one asked for and then
\* the one answered. Create answers the session's id.
Free == [at |-> "free", op |-> "state", user |-> None, id |-> 0, track |-> None,
         front |-> FALSE, base |-> None]

ServerInit ==
  /\ session = [i \in Ids |-> None] /\ made = 0
  /\ call = [c \in Calls |-> Free]
  /\ queued = [i \in Ids |-> 0] /\ handed = [i \in Ids |-> {}] /\ disturbed = {}

Step(c, p) == call' = [call EXCEPT ![c].at = p]
Reply(c, p) == call' = [call EXCEPT ![c].at = p, ![c].base = None]

\* The request of a client, as it leaves.
Send(c, op, u, id, t, front) ==
  /\ call[c].at = "free"
  /\ call' = [call EXCEPT ![c] =
       [at |-> IF op = "create" THEN "save" ELSE "load", op |-> op, user |-> u,
        id |-> id, track |-> t, front |-> front, base |-> None]]

Unguarded(s, u) == s # None
Owned(s, u) == s # None /\ s.user = u

\* getOwnedSession; Next refuses an empty queue before it looks at the track.
Load(c) ==
  LET s == session[call[c].id]
      op == call[c].op
  IN /\ call[c].at = "load"
     /\ IF ~Owned(s, call[c].user) THEN Reply(c, "refused")
        ELSE IF op = "next" /\ s.queue = <<>> THEN Reply(c, "refused")
        ELSE IF op = "state" THEN Reply(c, "answered")
        ELSE call' = [call EXCEPT
               ![c].base = s,
               ![c].track = IF op = "next" THEN Head(s.queue)[2] ELSE @,
               ![c].at = IF op \in {"pause", "seek"} THEN "save" ELSE "check"]
     /\ UNCHANGED <<session, made, history>>

\* TrackExists, then Resolve, which only signs.
CheckTrack(c) ==
  /\ call[c].at = "check"
  /\ IF call[c].track \in Catalog THEN Step(c, "save") ELSE Reply(c, "refused")
  /\ UNCHANGED <<session, made, history>>

\* The state a request writes; seek moves the position, which is not kept
\* here. The tracks of one enqueue are checked and added as one.
Played(s, t) == [s EXCEPT !.track = t, !.playing = TRUE]
Kept(q) == q
Taken(q) == Tail(q)

Updated(k, entry) ==
  CASE k.op = "play" -> Played(k.base, k.track)
    [] k.op = "next" -> [Played(k.base, k.track) EXCEPT !.queue = Taken(@)]
    [] k.op = "pause" -> [k.base EXCEPT !.playing = FALSE]
    [] k.op = "enqueue" /\ k.front -> [k.base EXCEPT !.queue = <<entry>> \o @]
    [] k.op = "enqueue" /\ ~k.front -> [k.base EXCEPT !.queue = Append(@, entry)]
    [] OTHER -> k.base

Create(c) ==
  /\ call[c].at = "save" /\ call[c].op = "create" /\ made < MaxSessions
  /\ made' = made + 1
  /\ session' = [session EXCEPT ![made'] = Empty(call[c].user)]
  /\ call' = [call EXCEPT ![c].at = "answered", ![c].id = made']
  /\ UNCHANGED history

\* StateStore.Save, whatever is there by now; the recorder of play events does
\* nothing.
Save(c) ==
  LET k == call[c]
      i == k.id
      entry == <<queued[i] + 1, k.track>>
  IN /\ k.at = "save" /\ k.op # "create"
     /\ session' = [session EXCEPT ![i] = Updated(k, entry)]
     /\ queued' = IF k.op = "enqueue" THEN [queued EXCEPT ![i] = @ + 1] ELSE queued
     /\ handed' = IF k.op = "next"
                  THEN [handed EXCEPT ![i] = @ \cup {Head(k.base.queue)[1]}] ELSE handed
     /\ disturbed' = IF session[i] = k.base THEN disturbed ELSE disturbed \cup {i}
     /\ Reply(c, "answered")
     /\ UNCHANGED made

\* The TTL ends; every save renews it.
Expire(i) ==
  /\ session[i] # None
  /\ session' = [session EXCEPT ![i] = None]
  /\ UNCHANGED <<made, call, history>>

\* A store fails, or the request or its answer is lost: what was saved stays.
Break(c) ==
  /\ call[c].at \in {"load", "check", "save", "answered"}
  /\ Reply(c, "failed")
  /\ UNCHANGED <<session, made, history>>

Serve(c) == Load(c) \/ CheckTrack(c) \/ Create(c) \/ Save(c)

\* What was queued waits or was handed out, nothing of it twice and nothing
\* lost, as long as no request wrote over another's change (Enqueue, Next, the
\* load and the save around them).
QueueConserved ==
  \A i \in Ids \ disturbed : session[i] # None =>
    LET waiting == {session[i].queue[n][1] : n \in DOMAIN session[i].queue}
    IN waiting \cap handed[i] = {} /\ waiting \cup handed[i] = 1..queued[i]
=============================================================================
