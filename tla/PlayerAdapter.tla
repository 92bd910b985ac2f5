---------------------------- MODULE PlayerAdapter ----------------------------
(***************************************************************************)
(* JustAudioPlaybackAdapter on top of the playback service and of the      *)
(* native engine: the queue of the app, the engine's own list of sources   *)
(* and the session calls of the commands, which overlap.  An action is the *)
(* Dart code between two awaits.  Whether the engine is playing is left    *)
(* out; that it goes on to the next source of its list by itself is not.   *)
(***************************************************************************)
EXTENDS PlaybackSessions

CONSTANTS
  App, Other,    \* the adapter's user, and another client of the API
  Queues,        \* the queues given to playFromQueue
  MaxCommands    \* bound: commands and requests in all

\* SessionState, as the service stores it.
Session == [user : Users, track : Tracks \cup {None}, playing : BOOLEAN,
            queue : Seq(Nat \X Catalog)]

ASSUME AdapterAssumption ==
  /\ App # Other /\ {App, Other} \subseteq Users
  /\ Queues \subseteq Seq(Catalog) /\ MaxCommands \in Nat
  /\ None \notin Session

VARIABLES
  queue, index,  \* _queue; _currentIndex from 1, 0 before the first queue,
                 \* one past the end when a queue was started there
  sid,           \* _sessionId
  warm,          \* _prefetchedResolution
  sources,       \* the engine's ConcatenatingAudioSource
  heard,         \* which of them it is at, 0 before the first
  task,          \* each command under way, on the call it makes
  commands,
  failed,        \* the last command that loads a track ended in PlayerState.error
  faulty,        \* history: a call or a step of the engine failed, or a session expired
  overlap,       \* history: the last command that loads a track met another one
  outrun         \* history: it began before a prefetch under way had answered

player == <<queue, index, sid, warm, failed>>
engine == <<sources, heard>>
marks == <<faulty, overlap, outrun>>
vars == <<server, player, engine, task, commands, marks>>

\* A task's item is the queue item it was started for, res the track of its
\* resolution; how is the call that resolves it.
NoTask == [at |-> "idle", how |-> "play", item |-> None, res |-> None]

Init ==
  /\ ServerInit
  /\ queue = <<>> /\ index = 0 /\ sid = None /\ warm = None
  /\ sources = <<>> /\ heard = 0
  /\ task = [c \in Calls |-> NoTask] /\ commands = 0
  /\ failed = FALSE /\ faulty = FALSE
  /\ overlap = FALSE /\ outrun = FALSE

Current == IF index \in 1..Len(queue) THEN queue[index] ELSE None
NextItem == IF index + 1 <= Len(queue) THEN queue[index + 1] ELSE None

Loading(c) == task[c].at \in {"session", "resolve", "load"}
Command(c) == /\ task[c] = NoTask /\ call[c] = Free /\ commands < MaxCommands
              /\ commands' = commands + 1
\* The sid answered, or the track of a play or next.
Answered(c) == call[c].at = "answered"
Lost(c) == call[c].at \in {"refused", "failed"}
Release(c) == call' = [call EXCEPT ![c] = Free]
TaskGoes(c, p) == task' = [task EXCEPT ![c].at = p]
TaskEnds(c) == task' = [task EXCEPT ![c] = NoTask]

-----------------------------------------------------------------------------
(* playFromQueue, skipNext, skipPrevious *)

\* A command that loads a track, up to its first await.
StartLoading(c, how, item) ==
  /\ task' = [task EXCEPT ![c] = [at |-> "session", how |-> how, item |-> item, res |-> None]]
  /\ failed' = FALSE
  /\ overlap' = \E d \in Calls : Loading(d)
  /\ outrun' = \E d \in Calls : task[d].at = "prefetch"

PlayFromQueue(c, q, i) ==
  /\ Command(c)
  /\ queue' = q /\ index' = i
  /\ StartLoading(c, "play", q[i])
  /\ UNCHANGED <<server, engine, sid, warm, faulty>>

\* A start index past the end, so that of the empty queue: nothing is current,
\* and the engine keeps what it has.
PlayNothing(c, q) ==
  /\ Command(c)
  /\ queue' = q /\ index' = Len(q) + 1
  /\ UNCHANGED <<server, engine, sid, warm, failed, task, marks>>

\* By the user, or by completionStream; at the end of the queue it pauses.
SkipNext(c) ==
  /\ Command(c)
  /\ NextItem # None /\ index' = index + 1
  /\ StartLoading(c, "next", NextItem)
  /\ UNCHANGED <<server, engine, queue, sid, warm, faulty>>

\* Within the first three seconds; later it is seekTo.
SkipPrevious(c) ==
  /\ Command(c)
  /\ index > 1 /\ index' = index - 1
  /\ StartLoading(c, "play", queue[index - 1])
  /\ UNCHANGED <<server, engine, queue, sid, warm, faulty>>

\* catch (e): the error is shown, the index stays.
GiveUp(c) == TaskEnds(c) /\ failed' = TRUE

IsWarm(item) == warm = item

\* _ensureSession, then the warm resolution if it is this track's, else a call.
AskSession(c) ==
  /\ task[c].at = "session" /\ call[c] = Free /\ sid = None
  /\ Send(c, "create", App, 0, None, FALSE)
  /\ UNCHANGED <<session, made, history, player, engine, task, commands, marks>>

TakeSession(c) ==
  /\ task[c].at = "session" /\ call[c] # Free
  /\ \/ Answered(c) /\ sid' = call[c].id /\ UNCHANGED <<task, failed>>
     \/ Lost(c) /\ GiveUp(c) /\ UNCHANGED sid
  /\ Release(c)
  /\ UNCHANGED <<session, made, history, engine, queue, index, warm,
                 commands, marks>>

UseWarm(c) ==
  /\ task[c].at = "session" /\ call[c] = Free /\ sid # None
  /\ task[c].how = "next" /\ IsWarm(task[c].item)
  /\ task' = [task EXCEPT ![c].at = "load", ![c].res = warm]
  /\ warm' = None
  /\ UNCHANGED <<server, engine, queue, index, sid, failed, commands, marks>>

AskTrack(c) ==
  /\ task[c].at = "session" /\ call[c] = Free /\ sid # None
  /\ ~(task[c].how = "next" /\ IsWarm(task[c].item))
  /\ Send(c, task[c].how, App, sid, IF task[c].how = "play" THEN task[c].item ELSE None, FALSE)
  /\ TaskGoes(c, "resolve")
  /\ UNCHANGED <<session, made, history, player, engine, commands, marks>>

TakeTrack(c) ==
  /\ task[c].at = "resolve"
  /\ \/ /\ Answered(c)
        /\ task' = [task EXCEPT ![c].at = "load", ![c].res = call[c].track]
        /\ warm' = IF task[c].how = "next" THEN None ELSE warm
        /\ UNCHANGED failed
     \/ Lost(c) /\ GiveUp(c) /\ UNCHANGED warm
  /\ Release(c)
  /\ UNCHANGED <<session, made, history, engine, queue, index, sid,
                 commands, marks>>

\* load() seeds a new list with the one source. One that only added to the list
\* would leave the engine at the old source.
SeedBehind(t) == sources' = Append(sources, t) /\ heard' = IF heard = 0 THEN 1 ELSE heard
Seed(t) == sources' = <<t>> /\ heard' = 1

\* _loadAndPlay: load(), which may fail with the old list or the new one, and
\* play(), which may fail too.
LoadSource(c) ==
  /\ task[c].at = "load"
  /\ \/ Seed(task[c].res) /\ TaskGoes(c, "playing") /\ UNCHANGED <<failed, faulty>>
     \/ (Seed(task[c].res) \/ UNCHANGED engine) /\ GiveUp(c) /\ faulty' = TRUE
  /\ UNCHANGED <<server, queue, index, sid, warm, commands, overlap, outrun>>

\* The engine goes on to the next source of its list; only the end of the list
\* is told to the adapter (completionStream).
EngineAdvances ==
  /\ heard < Len(sources) /\ heard' = heard + 1
  /\ UNCHANGED <<server, player, sources, task, commands, marks>>

\* The engine's play() returns, at once or when playback stops: _prefetchNext.
\* At the end of the queue, setNextSource(null) leaves the list as it is.
Prefetch(c) ==
  /\ task[c].at = "playing"
  /\ IF NextItem = None
       THEN warm' = None /\ TaskEnds(c) /\ UNCHANGED call
       ELSE /\ Send(c, "play", App, sid, NextItem, FALSE)
            /\ task' = [task EXCEPT ![c].at = "prefetch", ![c].item = NextItem]
            /\ UNCHANGED warm
  /\ UNCHANGED <<session, made, history, engine, queue, index, sid, failed,
                 commands, marks>>

\* setNextSource adds to the list that is loaded by now, if any.
SetNextSource(t) == sources' = IF sources = <<>> THEN sources ELSE Append(sources, t)

\* The resolution is kept and its source goes to the engine, which may fail to
\* add it: catch (_) then drops the resolution, or a later one.
TakePrefetch(c) ==
  /\ task[c].at = "prefetch"
  /\ \/ /\ Answered(c) /\ warm' = call[c].track
        /\ \/ SetNextSource(call[c].track) /\ TaskEnds(c) /\ UNCHANGED faulty
           \/ TaskGoes(c, "dropping") /\ faulty' = TRUE /\ UNCHANGED sources
     \/ Lost(c) /\ warm' = None /\ TaskEnds(c) /\ UNCHANGED <<sources, faulty>>
  /\ Release(c)
  /\ UNCHANGED <<session, made, history, queue, index, sid, heard, failed,
                 commands, overlap, outrun>>

DropWarm(c) ==
  /\ task[c].at = "dropping" /\ warm' = None /\ TaskEnds(c)
  /\ UNCHANGED <<server, engine, queue, index, sid, failed, commands, marks>>

-----------------------------------------------------------------------------
(* pause and seekTo, as far as the server hears of them, and other clients *)

\* Best effort: a failure is ignored. resume tells the engine only.
Sync(c, op) ==
  /\ Command(c) /\ Current # None /\ sid # None
  /\ Send(c, op, App, sid, None, FALSE) /\ TaskGoes(c, "sync")
  /\ UNCHANGED <<session, made, history, player, engine, marks>>

EndSync(c) ==
  /\ task[c].at = "sync" /\ (Answered(c) \/ Lost(c))
  /\ Release(c) /\ TaskEnds(c)
  /\ UNCHANGED <<session, made, history, player, engine, commands, marks>>

\* Another user's requests, for sessions of its own or the app's.
OtherAsks(c, op, i, t, front) ==
  /\ Command(c)
  /\ (i = 0) = (op = "create") /\ (t # None) = (op \in {"play", "enqueue"})
  /\ front => op = "enqueue"
  /\ Send(c, op, Other, i, t, front)
  /\ UNCHANGED <<session, made, history, player, engine, task, marks>>

OtherDone(c) ==
  /\ call[c].user = Other /\ (Answered(c) \/ Lost(c))
  /\ Release(c)
  /\ UNCHANGED <<session, made, history, player, engine, task, commands, marks>>

World ==
  /\ \/ (\E c \in Calls : Serve(c)) /\ UNCHANGED faulty
     \/ ((\E c \in Calls : Break(c)) \/ (\E i \in Ids : Expire(i))) /\ faulty' = TRUE
  /\ UNCHANGED <<player, engine, task, commands, overlap, outrun>>

OtherOps == {"create", "state", "play", "pause", "seek", "next", "enqueue"}

Next ==
  \/ \E c \in Calls :
       \/ \E q \in Queues : \E i \in DOMAIN q : PlayFromQueue(c, q, i)
       \/ \E q \in Queues \cup {<<>>} : PlayNothing(c, q)
       \/ SkipNext(c) \/ SkipPrevious(c) \/ \E op \in {"pause", "seek"} : Sync(c, op)
       \/ AskSession(c) \/ TakeSession(c) \/ UseWarm(c) \/ AskTrack(c) \/ TakeTrack(c)
       \/ LoadSource(c) \/ Prefetch(c) \/ TakePrefetch(c) \/ DropWarm(c)
       \/ EndSync(c)
       \/ \E op \in OtherOps, i \in 0..made, t \in Tracks \cup {None}, front \in BOOLEAN :
            OtherAsks(c, op, i, t, front)
       \/ OtherDone(c)
  \/ EngineAdvances
  \/ World

Spec == Init /\ [][Next]_vars

-----------------------------------------------------------------------------

\* Types; a session never plays or queues a track the catalog does not have.
TypeOK ==
  /\ session \in [Ids -> Session \cup {None}] /\ made \in 0..MaxSessions
  /\ \A i \in Ids : session[i] # None => session[i].track \in Catalog \cup {None}
  /\ queued \in [Ids -> Nat] /\ disturbed \subseteq Ids
  /\ queue \in Queues \cup {<<>>} /\ index \in 0..(Len(queue) + 1)
  /\ sid \in Ids \cup {None} /\ warm \in Catalog \cup {None}
  /\ sources \in Seq(Catalog) /\ heard \in 0..Len(sources)
  /\ \A c \in Calls : task[c].item \in Catalog \cup {None}

\* The engine is only ever given the track its command announced: a warm
\* resolution of an older queue is not used, and the service's queue holds
\* nothing that somebody else put there (skipNext, getOwnedSession).
LoadsWhatWasAsked ==
  \A c \in Calls : task[c].at = "load" => task[c].res = task[c].item

\* Once no command is loading, the engine's list starts with the item on the
\* screen and what is heard is that item or the one after it, whatever the
\* prefetches and pauses under way answer and wherever the engine went on to,
\* unless the last command failed, met another, or overtook a prefetch, whose
\* answer goes to the list of another item (skipNext, _prefetchNext, load,
\* setNextSource).
HeardIsShownOrNext ==
  (\A c \in Calls : ~Loading(c)) /\ ~failed /\ ~overlap /\ Current # None
    => /\ heard \in 1..Len(sources) /\ sources[1] = Current
       /\ ~outrun => sources[heard] \in {Current, NextItem}

\* "skipNext() falls back to an on-demand resolve when this is null": with
\* nothing lost and nothing overlapping no command ends in an error.
SkipFallsBack == failed => faulty \/ overlap
=============================================================================
