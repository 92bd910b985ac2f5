# smusic: a TLA+ model of its services and of the client state around them

smusic is a music player with a social side: users who consent can see who is
listening near them. The repository holds a Go backend (`src/backend`: two
processes, the API server and the presence server, over Postgres and Redis) and
a Flutter client (`src/frontend`). This directory models the parts of it whose
correctness depends on the order in which things happen.

## 1. Inventory

| Component | State | Operations | What is hard |
|---|---|---|---|
| WebSocket connection (`presence/ws/conn.go`) | bounded outbound channel, `closedVal`, two signal channels, the socket | `Send`, `Close`, write pump, drain and teardown | `Send` races `close`; flush before teardown; nobody left blocked |
| Hub, handler, server (`presence/hub.go`, `ws/handler.go`, `cmd/presence-server`) | registry user -> connection, ingest channel, worker pool, WaitGroup | `Register`, `Unregister`, `enqueue`, `Run`/`worker`/`process`, `Shutdown`, `ServeHTTP` | reconnects overlap departures; shutdown against running handlers and workers |
| Nearby service (`presence/nearby_service.go`) | none of its own | `ApplyUpdate`, `ApplyHeartbeat`, `SetVisibility`, `Disconnect`, the query | each candidate is judged on a dozen reads taken at different instants |
| Settings service (`presence/settings_service.go`) | settings rows, block list | `Update`, `SetPaused`, `GrantConsent`, `RevokeConsent`, `Block`, `Unblock` | read-modify-write of a whole row; index removal that may fail |
| Geo index (`presence/redisstore`) | GEO set, a detail key per user with a TTL | `Upsert`, `Touch`, `Remove`, `Search`, `Detail` | two structures, two commands, one of which expires |
| Rate limiting (`platform/cache`, `platform/httpmw`) | a counter with a TTL per client address | `Allow`, the login middleware | INCR and EXPIRE are two commands |
| Auth: accounts (`internal/auth`) | users, linked identities | sign-up, log-in, OAuth log-in | several statements without a transaction |
| Auth: sessions | `refresh_tokens` | `Refresh`, `Logout`, `LogoutAll` | rotation races, reuse detection, partial failure |
| Auth: second factor (`auth/mfa`) | a TOTP secret per user | enrol, verify | a verification marks a row it has not looked at |
| Playback (`internal/playback`) | sessions in Redis | `Play`, `Pause`, `Seek`, `Next`, `Enqueue` | load, change and save without a check |
| Library (`internal/library`) | playlist entries placed by numbers, saved tracks | add, remove, save, unsave, list | a position is computed before it is used; pages over changing rows |
| Catalog (`internal/catalog`) | artists, albums, tracks, credits | create, search | checks before a transaction; pages over changing rows |
| REST handlers, platform, `cmd/server`, load tests | - | parsing, wiring | - |
| Client: feed (`core_networking/websocket`, `social_proximity_data`, `_domain`) | socket, timers, subscription, now-list | connect, reconnect with backoff, heartbeat, drain, disconnect | callbacks that overlap `stop`/`start` |
| Client: session (`auth_interceptor`, `auth_data`, `auth_domain`) | stored tokens | 401 retry, refresh, logout | concurrent refresh against rotation with reuse detection |
| Client: player (`player_data`) | queue, index, session, prefetched resolution | play, skip, pause, seek | commands and prefetches that overlap |
| Client: search (`library_domain`) | text, generation, results | type, next page | late answers |
| Client: settings and playlists notifiers | a copy of one row, a list | toggle, reload | optimistic copies |
| Client: screens | - | layout | - |

How they interact. A client opens a WebSocket to the presence server; the
handler checks consent through the nearby service, upgrades, registers a
connection with the hub and reads frames. Each frame becomes a job in the hub's
ingest channel; a worker takes it and calls the nearby service, which reads
settings, blocks and follows from Postgres and reads and writes the geo index in
Redis, and offers the answer to the connection. The API server changes the same
rows through the settings service and removes index entries; it asks auth
whether the user has a verified second factor before it grants consent. SIGTERM
cancels the workers' context and then runs `Hub.Shutdown`. The player keeps a
queue of its own and asks the playback service to resolve each track; the
search screen pages through the catalog; both, and every other call of the
client, go through the 401 interceptor.

What makes each part correct: a connection delivers in order what it promised
before it closes and always ends; the hub's registry and index follow the live
connections and shutdown waits for the pool; nobody is ever shown to somebody
whom their settings exclude, and every disclosure is audited; a settings change
is not lost; a session's tokens form one chain and are issued only to whom
showed the account's credentials; a feed that was disconnected stays
disconnected; a track is placed, found and listed where it belongs whatever
changes meanwhile; what is heard is the item on the screen, or the one after it
once the engine has gone on. `PROJECT.json` lists the hazards, each at its line.

## 2. Modules

```
FrameChannel        what a connection promises the hub (abstract)
  ^ refined by
WsConn              one connection and the goroutines that touch it
  WsConn_proofs          its types, safety, FrameChannel and the order of frames, proved
PresenceHub         handlers, registry, ingest queue, workers, Shutdown
  PresenceHub_proofs     types, registry and shutdown, proved
PrivacySettings     settings rows, blocks, follows and the two-part geo index
  ^ extended by
NearbyPipeline      ApplyUpdate, ApplyHeartbeat and the query over those stores
  NearbyPipeline_proofs  its types and its privacy properties, proved
AuthSessions        refresh-token rows and the handlers that change them
  ^ extended by
SessionClient       token storage, session use cases and the 401 interceptor
  SessionClient_proofs   both: the table's properties, the client's use of it
Accounts            sign-up, log-in, OAuth, the login limit, the second factor
  Accounts_proofs        types, sessions and factors, proved
ReconnectingSocket  the client's self-reconnecting WebSocket
  ^ extended by
FeedClient          notifier, feed repository and drains on top of that socket
  FeedClient_proofs      both: types, sessions watched, what settles
KeysetPaging        the pages both lists and searches are cut into
  ^ extended by
Library             playlist entries and saved tracks
Catalog             creation of artists, albums and tracks; the search query
  ^ extended by
SearchClient        the search screen's notifier over it
  LibrarySearch_proofs   pages, positions and the search's properties, proved
PlaybackSessions    sessions in Redis and the requests that rewrite them
  ^ extended by
PlayerAdapter       the client's queue, prefetch and engine over it
  PlayerAdapter_proofs   types, what is loaded, queues and owners, proved
MC*                 constants for TLC
```

The split follows the code's own interfaces. `Conn` in `hub.go` is the boundary
between `WsConn` and `PresenceHub`: the hub only counts on what `FrameChannel`
says, `WsConn` is checked to implement it, and `PresenceHub` keeps of a
connection only whether it is open, closing or down. `NearbyService` is the
boundary between `PresenceHub` and `NearbyPipeline`: the hub reacts to one of
its answers only, that consent is gone; the pipeline is modelled apart, with
several calls running at once, as the workers run it.

**WsConn.** One action per step between two synchronisation operations: the
load of `closedVal` (`SendCheck`) and the select of `Send` (`SendAccept`,
`SendRefuse`) are apart; `close()` is entering `once.Do` (`CloseFirst`), the
store (`CloseStore`) and the channel close (`CloseSignal`), with later callers
held back until it has finished (`CloseAgain`). `shutdown` and `closed` count
how often each channel was closed, because twice panics. The pump's selects are
nondeterministic where Go's are. Time is a choice: a write succeeds or fails,
the 200 ms drain may end with frames still buffered. `accepted`, `wire`,
`failed`, `promised`, `late` and `expired` are history.

**PresenceHub.** `handler[c]` follows one `ServeHTTP` (consent check, upgrade
and `Register`, read loop, `Unregister`, `close`); `worker[w]` and `job[w]` one
worker; `wg` the WaitGroup, raised at construction as in `NewHubWithLimit`.
`Unregister` is two actions because `nearby.Disconnect` runs outside `h.mu`, and
its error is ignored (`Disconnect`); the handler's `close()` is a third (`Close`). A
send on the closed ingest channel is `EnqueuePanics`: net/http recovers the
handler's goroutine, the process lives on, and that connection is neither
unregistered nor closed. The user's consent and index entry change under the
hub's feet (`ConsentChange`, `IndexEntryGone`).

**PrivacySettings.** A REST request is a writer: `ReadRow` reads the row and
changes the copy, `WriteRow` writes all of it, `RemoveStep` issues ZREM and DEL.
A request changes one field; a PUT with several fields is the same
read-modify-write. Follows are external to the repository (only
`IsMutualFollow` reads them); they change like the block list.

**NearbyPipeline.** A job is one call in one worker. Every Postgres or Redis
access is an action, and `Fail` may end the call at any of them. Rows are read
where the code reads them: the requester's once, at the start; a candidate's
when it is examined. Positions are fixed and appear as a table of distances.
History variable `saw` collects, per job and per clause of the privacy model,
the users for whom the clause held at some instant of the call; the properties
say that whoever is in a result is in those sets. That is what a query over
changing stores can promise, and it implies the plain statement that a user who
blocked, paused, revoked or narrowed before the call began is never shown
(theorem `WithheldStayOut`).

**AuthSessions.** One user's rows of `refresh_tokens`, a handler per call, one
action per SQL statement; no two statements share a transaction. A token is the
number of its row. `Refresh` is the read with its branches (`FindReused`,
`FindRefused`, `FindUsable`), the insert (`Store`) and the update of the old row
(`MarkReplaced`, which looks at nothing). `HandlerFails` ends a handler at any
statement and leaves the earlier ones done; a statement that commits and reports
an error is the failure of the next one, or a lost answer. `AuthSpec` is the
server with clients that present any stored token at any time.

**SessionClient.** The session on one device. An action is the Dart code between
two awaits. `stored` is the token storage, `app` what `AuthSessionNotifier`
shows. A request carries the token the storage held when it was sent, is answered
401 when that token is missing or expired, and then posts the refresh token the
storage holds by that time. `NotRefreshed` is every `AuthException` of a refresh,
timeouts included; the handler may go on after it. `Kill` ends the process
between any two steps; the next start restores. `faulty` and `overlapped` record
what excuses a device that ends signed out.

**ReconnectingSocket.** Dart runs one callback at a time, so an action is the
code between two awaits. `_generation` is only compared with the generation a
loop was started with, so the model keeps the loop it belongs to, `current`,
which is `None` exactly while `_stopped`. A loop is in its session, past it
("over"), past a failed attempt ("refused"), in its backoff delay, or woken by
`stop()` ("left"). `Dial` is `_attemptConnect`: the production factory returns
before the handshake, so a transport starts as "dialing", and the phase
"connected" is emitted all the same. `stop()` is `StopBegin` (up to the
cancellation of the subscription), `StopClose` (clears the field, closes
whatever `_transport` is by then) and `StopEnd`; any number may be under way.
`Ends` is the end of a stream for whatever reason. The code lets `_attempt` grow
and caps the delay computed from it; the model caps `_attempt` where the delay
reaches its maximum. Loops and sockets that are over and referred to by nothing
are used again.

**FeedClient.** `rebuilds` queues what the notifier's `build()` runs have seen
and not yet acted on; a later rebuild does not cancel an earlier one. `Connect`
is all of `connect()`, which has no await; `disconnect()` is `BeginDisconnect`,
two `CancelNext`, `StopSocket` and the socket's own steps. `live[s]` counts the
subscriptions and timers of a kind there are, `held[s]` says that the
repository's field refers to one: the difference is a leak. A drain frame starts
`stop()` once per message listener, each followed by `Restart`. History
`overlaps` records that a `connect()` or a drain ran into a `disconnect()`,
which the settled properties excuse. `SocketSpec`
allows anybody to call `start()` and `stop()`; the feed's actions are built from
its steps, so what holds of the socket on its own holds of it here.

**Accounts.** A request passes the limiter (`Count` is INCR, `Arm` the EXPIRE
that only the request that counted to one issues, `Window` the end of the TTL),
then its statements: `Create`, `CheckPassword`, or `FindIdentity`, `Provision`
and `Link`, and `Issue`. No transaction joins them, and `Fail` may end a request
between any two. The provider's verifier is external: it refuses or names a
subject (the one `cmd/server` wires always refuses). Accounts are never deleted
and always active; unique columns are guards. A code is known by the secret it
was made from. `granted` and `proved` are history, `crossed` records a user who
enrolled while a verification of theirs was between its read and its update,
`stuck` a first hit whose EXPIRE never ran.

**Library.** A request checks owner and track, reads the position it will use
(`ReadPosition`) and inserts (`InsertEntry`) in different statements. Positions
are float64 in the code; here they are multiples of the smallest positive one,
so that halving rounds and underflows to zero as it does there. `seen` is
history: the entries there were at the read. Saved tracks are ordered by time
and track, and a client pages through them while others save and unsave;
`steady` is history, the rows that were there all along.

**Catalog** and **SearchClient.** A create request is role check, parent check
and insert; for a track, `InsertTrack`, `InsertCredit` and `Commit` are one
transaction, whose rows nobody sees before it commits. Whether a title is
similar to a text is external (`Matches`). The notifier debounces
(`OnQueryChanged`, `RunSearch`), drops a search whose generation is over
(`TakeSearch`), and puts a further page on top of the state its call started
from, whatever is shown by then (`TakePage`; `late` records it). `shown` is
`None` while an error is shown.

**PlaybackSessions** and **PlayerAdapter.** A request loads a session, checks
owner and track, and saves the whole value. History counts queue entries, and
`disturbed` names the sessions saved over a change the writer had not read. The
adapter's command moves the index, makes sure of a session, resolves the track
(from the prefetched resolution if it is this track's), gives it to the engine,
and prefetches the next one once `engine.play()` returns, which may be at once
or much later. The engine has a list of its own, `sources`, and a place in it,
`heard`: `load()` starts a new list (`Seed`), `setNextSource` of a prefetch adds
to whatever list is loaded by then (`SetNextSource`) and with `null` changes
nothing, and the engine goes on through it by itself (`EngineAdvances`); the
adapter is told only of the end of the list, which is one more `skipNext`. A
load, `play()` or an addition may fail, the first two with the old list or the
new one. Histories: `overlap` records that the last loading command met another,
`outrun` that it began before a prefetch under way had answered. Whether the
engine is playing and positions within a track are left out. `Other` is another user's API client: it
may ask for the app's session and is refused.

## 3. Runs

| Run | Instance | Shows |
|---|---|---|
| `ws_conn` | two hub goroutines, the handler, 3 frames, buffer of 2 | types; `FlushedBeforeTeardown`, `OnlyMidFlightAfterClose`, `NoDoubleClose`; liveness `EventuallyReleased`; `ChannelSpec`, the refinement of FrameChannel |
| `hub_pipeline` | one user with two connections, one worker, ingest buffer 1 | types; `RegisteredIsServed`, `LatestStaysRegistered`, `ShutdownWaits`; liveness `EvictedEventually`, `ShutdownReturns` |
| `nearby_privacy` | Ann's heartbeat query, Bob's update, one of seven requests by Bob, radii 1 and 2, clock 0..1 | types; `OnlyDiscoverable`, `NamedByTrust`, `AuditCoversDisclosure` |
| `auth_sessions` | two calls of any two kinds, up to 5 rows, tokens that expire, failures, a killed app | types; `RotationNeverStrands`, `DeadStaysDead`, `RevocationIsComplete`, `SoleRefresherStaysSignedIn`; liveness `EveryCallEnds`; `ServerSpec`, the device is a client as `AuthSpec` assumes |
| `feed_client` | two `disconnect()` and one drain at once, 3 rebuilds, 2 loops, 3 sockets, `MaxAttempt` 1 | types; `SessionIsWatched`, `DownIsDown`, `UpIsUp`; liveness `LoopsUnwind` |
| `library` | two requests at once, four in all, 4 tracks of which 3 exist, a gap of 2, pages of 1, clock 0..1 | types; `PlacedAsAsked`, `SavedPagesFit` |
| `search` | one curator, 3 tracks, 2 texts and the blank one, 2 keystrokes, 2 calls at once, pages of 1 | `TracksAreWhole`, `PagesFit`, `SettledShowsLatest` |
| `playback` | two calls at once, up to 4 commands, 2 sessions, 2 queues and the empty one, one other client, one fault | `LoadsWhatWasAsked`, `HeardIsShownOrNext`, `QueueConserved` |
| `accounts` | two requests at once, four in all, 2 e-mails, 2 passwords, 1 subject, a limit of 2, 3 secrets | `SessionsEarned`, `FactorsProved`; liveness `DenialsEnd` |
| `hub_panic` | as `hub_pipeline` | `NoPanic` fails: see Findings |
| `revocation_sticks` | two requests by Bob, no query | `RevocationSticks` fails |
| `skip_falls_back` | as `playback` | `SkipFallsBack` fails |

Deadlock is not checked: a closed connection, a server that has shut down and a
call that has returned rightly stop.

**Why the bounds are enough.** In `ws_conn` the interesting cases need a buffer
that fills (2), a frame behind another one, and a second sender in the middle of
`Send` while the first closes. In `hub_pipeline` the overlap of two connections
of one user is the only way connections interact (the registry is per user);
more workers add jobs in progress at once, which for the hub are independent,
and the pool size is a parameter of the specification. In
`nearby_privacy` a query judges each candidate independently, so one candidate
is enough for it; the update makes the index entry come and go while the query
runs. Bob starts either open to everybody or visible to friends only, so each
clause is at some point the one that decides. `MaxClock` = 1 with `Validity` = 1
lets a consent lapse once during a call. In `auth_sessions` two calls are what a
race between rotations, or of a rotation with a revocation, takes; each call adds
two rows at most, so `MaxTokens` = 5 never stops one (the state space is the same
with 7). In `feed_client` three rebuilds are connect, disconnect, connect, with
room for two `disconnect()` calls whose stops overlap each other and a drain's;
a superseded loop and the current one make two loops, and a transport per stop
plus the live one makes three sockets (an attempt that finds none free can
only fail; the safety properties also hold with 4 and 5 sockets).

In `library` two requests race for a position and two more make the entries
they race over; a gap of 2 reaches zero after two additions at the start, a page
of one row puts a cursor at every row, and with two times and three tracks rows
tie. Playlists and saved tracks share no table, so a behaviour exercises one of
them. In `search` three tracks give two full pages and a last one, which a track
may be created into; two calls are a search and the page of an older one, and two
keystrokes make the first one stale. In `playback` two calls are a command and
what it runs into: another command, the prefetch of the last one, a pause, or
another client; a third of any kind only delays. A behaviour has at most one
fault (a lost call, an expired session, a failed step of the engine), and is of
one of three families: the app alone with three commands, both clients on one
queue without faults, or the other client alone with four requests, which makes
the longest queue. The counterexamples `overlap`, `outrun` and `disturbed` excuse
are within these bounds (dropping any from its property breaks it). In
`accounts` two e-mails and a subject that reports
one of them make a provider's log-in meet a password account; the limit of 2 is
passed by the third request. A second factor needs an account and none of the
ways into it, so it is a family of its own that starts with one.

**Fairness.** `WsConn`: the pump, the handler's `close()` after the read loop
and a goroutine inside `Send` or `close` go on; the read ends once the transport
is shut; nothing makes the hub send or close or the client leave. `PresenceHub`:
goroutines that can run do run; strong fairness of `Decide` per connection says
store reads do not fail every time for the same connection, which
`EvictedEventually` needs because the hub swallows other errors; the shutdown
deadline is never relied on. `SessionClient`: a call that has begun goes on,
because the client's receive timeout answers what the server does not; the server
owes nothing. `FeedClient`: scheduled callbacks run, backoff timers fire, and a
transport being closed is closed in the end (the WebSocket library gives up on a
silent peer); the user, the server and a handshake owe nothing. `Accounts`: a request that has reached the limiter goes on
(its calls have timeouts, and an error lets it through), and Redis expires a key
that has a TTL. No fairness is assumed of clients, of signals, or in the other
modules, which are checked for safety.

**Findings.** `hub_panic`: a frame read after `close(h.ingest)` panics in
`enqueue`, against domain.go's "no panics anywhere in this package".
`revocation_sticks`: a concurrent settings request writes a stale row over a
revocation. `skip_falls_back`: without a prefetched track `skipNext` asks the
server for the next track of a queue that the client never fills, so the fallback
its comment describes always ends in an error. Each has a theorem that says what
the cause is and that nothing else is one (`PanicsAreLate`,
`SerialRevocationSticks`, `WarmSkipsFallBack`; section 4).

Seen while modelling, and not runs:

- Presence: a job still queued, or past its settings read, when its connection
  unregisters puts the user back into the index, for one TTL. The drain frame
  does not reach a connection another of the same user has replaced in the
  registry, or one registered after `Shutdown` copied it. A nearby result
  discloses the track by the share flag of the last update frame.
- Sessions: a log-in from an empty storage fails, because the client asks for the
  profile before it saves the tokens it needs for it. Two 401s at once present
  one refresh token twice, which the server takes for reuse and ends every
  session. A rotation between its read and its insert survives a `LogoutAll`.
- Accounts: `ratelimiter.go` says a counter without a TTL heals itself; only the
  request that counts to one sets it, so a key that lost its EXPIRE denies its
  address from then on (`DenialsEnd` excuses it as `stuck`). A log-in by a
  provider that stops between creating the user and linking the identity leaves
  an account nobody can enter, whose e-mail is taken. `MarkVerified` may turn on
  a secret that an enrolment stored after the code was checked (`crossed`).
- Feed: a `disconnect()` that meets a drain's `stop().then(start)` leaves the
  client running with nobody to stop it. A refused handshake counts as a session,
  so the backoff does not grow while the server is down.
- Search: a further page of an older text replaces newer results, and its error
  brings the older state back (`late`), although the comment on the generation
  counter says a stale answer never does.
- Player: a playback session that has expired is not made again, so every later
  command of the adapter fails. The engine goes on to the prefetched source by
  itself, while the adapter moves its index only at the end of the list:
  native_audio_engine.dart says the completion stream "emits once when the
  currently loaded source finishes playing", but it is silent at the end of the
  first source, where the screen stays an item behind what is heard, and at the
  end of the list the adapter loads the item just heard once more. A prefetch that answers after
  another command has loaded adds the old queue's next item to the new list
  (`outrun` excuses it).

## 4. Proofs

`WsConn_proofs` proves, for any set of goroutines, any frames and any buffer
size (assumption `ConnAssumption`: the handler is not a hub goroutine, the buffer
holds at least one frame, `None` is not a frame):

- `TypeCorrect`: `Spec => []TypeOK`;
- `ChannelsClosedOnce`: `Spec => []NoDoubleClose`;
- `PromisesFlushed`: `Spec => []FlushedBeforeTeardown`;
- `OneMidFlightEach`: `Spec => []OnlyMidFlightAfterClose`;
- `ConnIsChannel`: `Spec => ChannelSpec`, the refinement of `FrameChannel`;
- `FramesArriveInOrder`: `Spec => []DeliveredInOrder`, what the refinement is for:
  the frames on the wire are accepted ones, in the order of acceptance and each
  once, and none is missing before the last one while the channel is open.

None of the three invariants is inductive. `IInv` adds four conjuncts. `OnceInv`: at
most one goroutine is inside the body of `once.Do`, exactly while `once` is
"busy", and `shutdown` is 1 only when `once` is "done". `PhaseInv`: the pump's
position determines `wsOpen` and `closed`, and the pump only drains after
`shutdown` or a failed write. `LateInv`: a goroutine that was not inside `Send`
when `closedVal` was set has nothing late, and one that is inside has nothing
late yet. `FlushInv`: while nothing failed and the drain did not expire, a
promised frame is written, buffered or in the pump's hand, and past the drain it
is written; this is inductive because a frame can only be promised while
`closedVal` is false, when the pump has not left its loop. `IInv` itself was
model-checked on the instance of `ws_conn` before it was proved. Each conjunct
has its own step lemma (`OnceStep`, `PhaseStep`, `LateStep`, `FlushStep`), with
one step per group of actions. The refinement adds `OrderInv`: the frames taken
that are neither on the wire nor lost are the one in the pump's hand, then the
buffer, in that order; no frame is taken twice, and the frame in hand has not
been lost before (`LostOnce`). `ChannelStep` then maps every action to a step of
the channel or a stutter, the pump's `TeardownTransport` to the end of it. For
the order, `ChanTyped` and `OrderKept` follow the channel's two histories through
its steps, with the positions of the delivered frames given as an explicit
function, and `SkipsNothing` takes both back to the connection.

`PresenceHub_proofs`: `HubTyped`, `RegistryIsServed` (`RegisteredIsServed`) and
`ShutdownWaitsForPool` (`ShutdownWaits`), for any users, connections, workers and
capacity. The registry's property is inductive with the types, because a handler
leaves "reading" only by the step that takes its connection out of the registry
if it is still the one there. `RegistryKeepsLatest` (`LatestStaysRegistered`) is
the other direction: the entry of a connection that is read is taken only by a
later `Register` of the same user, since an `Unregister` compares before it
deletes. Shutdown needs `CountInv`: the WaitGroup is the
number of workers that have not exited, so that zero means none. Three more are
about the transports and the shutdown. `EvictedStayOut` (an action property): what
is closed is never opened again, and the eviction of a user without consent does
close the connection its frame came on. `ReturnedAreCutOff`: a handler that
returned left no transport open. Both rest on `LinkInv` (a transport is unopened
exactly while its handler has not registered it, and every frame queued or in
work came on an opened one). `PanicsAreLate` is the other side of `hub_panic`: a
handler panics only once Shutdown, after the signal, has closed the channel
(`PhaseInv`).

`NearbyPipeline_proofs`: `PipelineTyped`, `ResultsAreDiscoverable`
(`OnlyDiscoverable`), `NamesAreTrusted` and `DisclosuresAreAudited`, for any
users, writers, jobs, rows and distances. One clause is that the detail key was
alive within the call, so that members left behind in the GEO set by a half-done
`Remove` or an expired key are in no result. `Observed` says that a job's history
only grows and takes in what holds now. `JobInv` then says what a job at each
point has already seen: of the candidate in its hands the clauses checked so far
(`CandInv`), of those it kept all of them (`KeepInv`), and that it holds nobody
before it has looked (`EmptyInv`). No step of a writer or of another job can
disturb that, since history is never taken back; this is why changing rows under
a running query do no harm to the promise as stated. `AuditInv`: who is in the
result is in the log.

History makes that promise weak where a row changed back and forth, so two more
theorems state it without: `WithheldStayOut` (for each reason for which a
candidate is left out and each pair of a query and a user: if the reason holds
when the query begins and for as long as it runs, the user is never in its
result) and `StrangersStayUnnamed` (the same of trust and the name). They follow
because a clause that never held while the job ran is in no history of it
(`NotTakenIn`, `NothingSeen`, `UnseenStep`), and a result only takes who is.
`SerialRevocationSticks` is the other side of the finding `revocation_sticks`:
in a behaviour in which no two requests for one settings row overlap
(`OneByOne`), a revocation does stick (`RevokedInv`: every row about to be
written back has the revocation in it).

`SessionClient_proofs` first proves of `AuthSpec`, for any set of calls and any
bound on rows, `AuthTypeCorrect`, `NobodyStranded` (`RotationNeverStrands`),
`DeadTokensRefused` (`DeadStaysDead`) and `MassRevocationComplete`
(`RevocationIsComplete`). `AuthInv` adds `RotationInv` (the row a rotation adds
is later than the one it read, which the client must have got from the table)
and `SpentInv` (what was redeemed or ended is revoked, and a request presenting
it is not past the checks and holds no new token). `TokensFormChains`: two
rotations of one token overwrite each other's `replaced_by`, and still no two
rows have one successor and none an older one, since the row a handler is about
to link is its own (`LinkInv`). Then of the device:
`SessionTyped`; `DeviceUsesServer`, every behaviour of the device is one of
`AuthSpec`, so that it keeps the four results above; `LoneRefreshKeepsSession`
(`SoleRefresherStaysSignedIn`). The last rests on `CalmInv`, which holds while
nothing has failed and no refreshes have overlapped: whoever is at work is a
request in an open session or else alone (`TurnInv`), the storage is empty
exactly while one is signed out or signing in (`StorageInv`), a rotation on the
way has the stored token or its successor live (`RefreshInv`), a sign-in a live
one or none (`SignInInv`), and with no rotation on the way the stored one is live
(`ChainInv`).

`FeedClient_proofs` first proves of `SocketSpec`, for any number of callers,
loops and sockets, `SocketTypeCorrect` and `EverySessionWatched`
(`SessionIsWatched`): a loop waiting for its session is `current`, and the
transport its completer is about is heard and not yet closed. With the types this
is inductive, and the delicate steps are those of an older `stop()`: it may close
the new session's transport (the code closes whatever the field holds), but it
cannot cancel its subscription, because it picked that one before the new session
began; so the end is still heard. Each step of the feed is
a step of the socket client or leaves it alone (the lemma `FeedUsesSocket`), so
that `FeedSessionWatched` follows. `FeedTyped`, `FeedGoesDown` (`DownIsDown`) and `FeedComesUp` (`UpIsUp`)
need to know what overlapping calls do not spoil: `InTurn`, while no `connect()`
has run into a `disconnect()` or a `stop()`, there is one `disconnect()` at a
time and it cancels what the last `connect()` installed; `Clean`, while no drain
has either, there is one transport and one `stop()` at a time, which closes it.

`Accounts_proofs`: `AccountsTyped`, `EverySessionIsEarned`, `EveryFactorIsProved`
and `CountersExpire`. `ClaimInv`: a request about to issue a session is entitled
to it already, and one about to link an identity is about an account that exists;
accounts and links only grow, so a claim lasts. `WayInv`: a request shows a
password or a provider's user and never both, ids are not used twice, and an
identity, stored or about to be, names an account that was made for it, without
a password; with `ClaimInv` that rules out every other account (`WaysApart`).
`MarkInv`: a verification about
to mark holds a proved secret, or its user was crossed. `CounterExpires` is the
safety half of `DenialsEnd`: a counter above zero has a TTL, or a request about to
set it, or is stuck.

`LibrarySearch_proofs` covers both modules that page, because both need the same
lemmas. About any order of any rows: a finite set that is not empty has a first
and a last row (`FirstRow`, `LastRow`; by well-foundedness of strict inclusion,
which takes the place of an induction), the rows of a page come before those
left (`PageIsPrefix`), and so what is beyond the next cursor is what is left,
none of it in the page (`CursorParts`).

Of the library: `LibraryTyped`, `PositionsHold` (`PlacedAsAsked`) and `SavedPages`
(`SavedPagesFit`). `PlaceInv` is the first one for a request that has read its
position and not inserted yet, and is kept by the insert of another because an
entry's id is its own (`IdInv`) and so never in what was seen before. `PageInv`
says what was handed out lies up to the cursor, and that all that stayed is
handed out or beyond it; a row saved again meanwhile is newer than the cursor.

Of the search, over the catalog: `FoundWhole` (`TracksAreWhole`), `SearchPages`
(`PagesFit`) and `LatestShown` (`SettledShowsLatest`). `WriteInv` says what a
request has found out by where it is: its album exists before it inserts, its
credited artist before it commits; nothing it looked for is ever deleted. Some
results `Fit` when nothing that matched at their first page is missing from
their items and what is to come, and their items lie up to their cursor, so that
what is to come repeats none; tracks are only added, so results that fit stay
so. `CallOk` says the same of the results a further page starts from and of the
answer on its way, and that a call of the current generation is about the text
typed last. `LatestInv`: a text that is not shown is waited for, by the timer or
by such a call.

`PlayerAdapter_proofs`: `PlayerTyped`, `LoadsAsAsked`, `HeardFollowsShown`
(`HeardIsShownOrNext`) and `QueuesAreConserved`. `CallInv` says what each
request may be about to save and that the app's session is the app's alone, so
that its queue stays empty and its `Next` is refused; `TaskInv` what the answer a
command waits for can be; `LoneLoader` that while no commands met there is one
loading, for the current item; `PrefetchInv` that a prefetch no command overtook
is for the next item; `ListInv` that once nothing loads the engine's list is the
current item and, such a prefetch granted, copies of the next one, so that
wherever the engine has gone on to it is at one of the two; `CountInv` that a queue's entries and those handed
out make up what was accepted, for the value a save starts from as well.
`SessionsKeepTheirOwner`: once a session is a user's it is never another's, also
when a save that loaded it before its TTL ended brings it back; and
`OwnerCheckHolds`: the owner checked at the load is the owner at the save.
`OwnerInv` gives each session and all copies of it about to be saved one owner
(`WritersStep`, `SessionsStep`, `OwnedStep`). `WarmSkipsFallBack` is the other
side of `skip_falls_back`: in a behaviour in which every `skipNext` finds its
track prefetched (`WarmSkips`), a command fails only when a call or a load was
lost or a session expired, even where commands overlap. `UnbrokenInv`: until then
no session is missing, the adapter's is its own, and each request of the app is
for such a session and for a track of the catalog, which the service refuses
nowhere (`WelcomeIsServed`); that a stored session is not the value for a missing
one is part of `AdapterAssumption`.

The named assumptions on constants are all these rest on; each is in the module
that declares the constants. Each inductive invariant was model-checked before it
was proved, and each step lemma has one step per action or group of actions.

Every safety property of a passing run is stated by a theorem. Only
model-checked: `PrivacySettings` on its own (its types are proved as part of the
pipeline's), and the liveness of the runs (`EventuallyReleased`,
`EvictedEventually`, `ShutdownReturns`, `EveryCallEnds`, `LoopsUnwind`,
`DenialsEnd`), which is out of the prover's reach.

## 5. Not modelled

SQL text, JSON, parsing and routing in REST handlers; the cryptography of tokens
and passwords; jitter, distance buckets and haversine (floating point); metrics
and logging; the origin check; the update-frame limiter and `SendResync`, which
no state of the hub depends on; migrations, wiring and the load tests; screens;
devices, profiles and playlists as such, which are rows that are inserted and
read; the media resolver, which signs a URL; the privacy settings notifier, an
optimistic copy of the row `PrivacySettings` has, and the playlists notifier,
which reloads a list; the list a feed shows, position throttling and frame
decoding; whether the engine plays, and positions in a track. Two pairs
of store calls stand as one step each: the follow check and the pair limiter of a
candidate (`CheckFollow`; the limiter's windows bear on no property) and the
lookup and the revocation of a log-out (`Logout`; revoking again changes
nothing).

## 6. What could come next

1. The privacy settings notifier over `PrivacySettings`: two changes under way.
