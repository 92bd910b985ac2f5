---------------------------- MODULE PresenceHub ----------------------------
(***************************************************************************)
(* The presence server's ingest and fan-out pipeline                       *)
(* (internal/presence/hub.go) with the goroutines around it:               *)
(*   - one handler per connection (internal/presence/ws/handler.go):       *)
(*     consent check, upgrade, Register, read loop, Unregister, close;     *)
(*   - a fixed pool of workers fed by the bounded ingest channel;          *)
(*   - Shutdown, run by main once the signal context is cancelled.         *)
(* A connection is the contract of module FrameChannel: Send takes or      *)
(* refuses a frame, Close is idempotent and ends in a closed transport     *)
(* (module WsConn is its detail). Of a user's settings the pipeline itself *)
(* reacts to one fact, whether consent is active. The geo index is the set *)
(* of users in it; what NearbyService writes to it and reads from it, and  *)
(* why, is module NearbyPipeline; so a job is the connection its frame     *)
(* came on, and whether the frame was an update or a heartbeat is left     *)
(* open.                                                                   *)
(***************************************************************************)
EXTENDS Naturals, Sequences, FiniteSets

CONSTANTS
    Users,         \* user ids
    Conns,         \* WebSocket connections, each used once
    Owner,         \* the user who authenticated on each connection
    Workers,       \* the worker goroutines
    IngestBuffer,  \* capacity of h.ingest
    None           \* no connection, no job

ASSUME HubAssumption ==
    /\ Owner \in [Conns -> Users]
    /\ Workers # {} /\ IsFiniteSet(Workers)
    /\ IngestBuffer \in Nat \ {0}
    /\ None \notin Conns

VARIABLES
    handler,      \* where each connection's ServeHTTP is
    link,         \* each connection's transport: "none", "open", "closing", "down"
    conns,        \* h.conns: user -> registered connection, or None
    ingest,       \* h.ingest: the connection of each queued frame
    ingestClosed, \* Shutdown has closed h.ingest
    worker,       \* where each worker is
    job,          \* the connection whose frame each worker holds, or None
    wg,           \* h.wg's counter
    ctxDone,      \* the signal context is cancelled
    shut,         \* where Shutdown is
    consent,      \* users whose proximity consent is active
    present       \* users whose entry in the geo index is live

connVars == <<handler, link, conns>>
poolVars == <<worker, job, wg>>
shutVars == <<ctxDone, shut>>
vars == <<connVars, ingest, ingestClosed, poolVars, shutVars, consent, present>>

ConnsOf(u) == {c \in Conns : Owner[c] = u}

\* Once Shutdown has returned main only closes its listener and exits.
Returned == shut \in {"done", "timedOut"}
Alive == ~Returned

\* NewHubWithLimit raises the WaitGroup by the whole pool before anybody can
\* call Run or Shutdown.
RaisedByRun == 0    \* variant: left to Run, which may be scheduled late
InitialCount == Cardinality(Workers)

Init ==
    /\ handler = [c \in Conns |-> "new"]
    /\ link = [c \in Conns |-> "none"]
    /\ conns = [u \in Users |-> None]
    /\ ingest = <<>>
    /\ ingestClosed = FALSE
    /\ worker = [w \in Workers |-> "unstarted"]
    /\ job = [w \in Workers |-> None]
    /\ wg = InitialCount
    /\ ctxDone = FALSE
    /\ shut = "no"
    /\ consent \in SUBSET Users
    /\ present = {}

-----------------------------------------------------------------------------
(* ServeHTTP: one goroutine per connection.                                *)

\* CheckConsent passed; the upgrade comes next, and the user's consent may
\* be gone by the time the connection is registered.
Handshake(c) ==
    /\ Alive
    /\ handler[c] = "new"
    /\ Owner[c] \in consent
    /\ handler' = [handler EXCEPT ![c] = "upgrading"]
    /\ UNCHANGED <<link, conns, ingest, ingestClosed, poolVars, shutVars,
                   consent, present>>

\* Register overwrites the user's previous connection; the write pump starts.
Register(c) ==
    /\ Alive
    /\ handler[c] = "upgrading"
    /\ handler' = [handler EXCEPT ![c] = "reading"]
    /\ link' = [link EXCEPT ![c] = "open"]
    /\ conns' = [conns EXCEPT ![Owner[c]] = c]
    /\ UNCHANGED <<ingest, ingestClosed, poolVars, shutVars, consent,
                   present>>

NoLimit == TRUE    \* variant: the channel takes whatever it is given
Room == Len(ingest) < IngestBuffer

\* A frame arrived (the reader may still hold some when the transport is
\* already closed). enqueue never blocks: a full channel refuses the job,
\* which changes nothing here.
Enqueue(c) ==
    /\ Alive
    /\ handler[c] = "reading"
    /\ ~ingestClosed
    /\ Room
    /\ ingest' = Append(ingest, c)
    /\ UNCHANGED <<connVars, ingestClosed, poolVars, shutVars, consent,
                   present>>

\* A frame arrived after Shutdown closed the channel: a send on a closed
\* channel panics even inside a select with a default. The goroutine is
\* net/http's, which recovers it: the process lives on, and neither
\* Unregister nor close() is called for this connection.
EnqueuePanics(c) ==
    /\ Alive
    /\ handler[c] = "reading"
    /\ ingestClosed
    /\ handler' = [handler EXCEPT ![c] = "panicked"]
    /\ UNCHANGED <<link, conns, ingest, ingestClosed, poolVars, shutVars,
                   consent, present>>

\* Unregister under h.mu forgets the connection if it is still the user's
\* current one. Variants: never, and whoever is the current one.
ForgetNothing(c) == conns
ForgetAlways(c) == [conns EXCEPT ![Owner[c]] = None]
Forget(c) == [conns EXCEPT ![Owner[c]] = IF @ = c THEN None ELSE @]

\* ReadMessage failed (the client left, or the transport was closed here):
\* the read loop returns and Unregister drops the registry entry.
Unregister(c) ==
    /\ Alive
    /\ handler[c] = "reading"
    /\ handler' = [handler EXCEPT ![c] = "leaving"]
    /\ conns' = Forget(c)
    /\ UNCHANGED <<link, ingest, ingestClosed, poolVars, shutVars, consent,
                   present>>

\* Unregister goes on, outside the lock, to nearby.Disconnect, whichever
\* connection of the user is current; its error is ignored.
Disconnect(c) ==
    /\ Alive
    /\ handler[c] = "leaving"
    /\ handler' = [handler EXCEPT ![c] = "closing"]
    /\ present' \in {present, present \ {Owner[c]}}
    /\ UNCHANGED <<link, conns, ingest, ingestClosed, poolVars, shutVars, consent>>

\* ServeHTTP ends with c.close().
Close(c) ==
    /\ Alive
    /\ handler[c] = "closing"
    /\ handler' = [handler EXCEPT ![c] = "done"]
    /\ link' = [link EXCEPT ![c] = IF @ = "open" THEN "closing" ELSE @]
    /\ UNCHANGED <<conns, ingest, ingestClosed, poolVars, shutVars, consent,
                   present>>

\* The write pump tears the transport down: after close(), or when a write
\* fails on an open connection.
Teardown(c) ==
    /\ Alive
    /\ link[c] \in {"open", "closing"}
    /\ link' = [link EXCEPT ![c] = "down"]
    /\ UNCHANGED <<handler, conns, ingest, ingestClosed, poolVars, shutVars,
                   consent, present>>

-----------------------------------------------------------------------------
(* The worker pool.                                                        *)

\* Run spawns every worker; main starts it before it serves.
Run ==
    /\ Alive
    /\ \A w \in Workers : worker[w] = "unstarted"
    /\ worker' = [w \in Workers |-> "idle"]
    /\ UNCHANGED <<connVars, ingest, ingestClosed, job, wg, shutVars, consent,
                   present>>

\* case job, open := <-h.ingest, with a job in the channel.
TakeJob(w) ==
    /\ Alive
    /\ worker[w] = "idle"
    /\ ingest # <<>>
    /\ worker' = [worker EXCEPT ![w] = "deciding"]
    /\ job' = [job EXCEPT ![w] = Head(ingest)]
    /\ ingest' = Tail(ingest)
    /\ UNCHANGED <<connVars, ingestClosed, wg, shutVars, consent, present>>

NoDone == wg    \* variant: a worker that returns without wg.Done
AfterDone == wg - 1

\* The channel is closed and empty, or ctx.Done was chosen: the select may
\* choose it while jobs are still queued.
WorkerStop(w) ==
    /\ Alive
    /\ worker[w] = "idle"
    /\ ctxDone \/ (ingestClosed /\ ingest = <<>>)
    /\ worker' = [worker EXCEPT ![w] = "exited"]
    /\ wg' = AfterDone
    /\ UNCHANGED <<connVars, ingest, ingestClosed, job, shutVars, consent,
                   present>>

\* Worker w goes to p; it lets its job go when p is "idle".
Goto(w, p) ==
    /\ worker' = [worker EXCEPT ![w] = p]
    /\ job' = [job EXCEPT ![w] = IF p = "idle" THEN None ELSE @]

JobUser(w) == Owner[job[w]]

Swallowed == "idle"    \* variant: lost consent is one more swallowed error
WithoutConsent == "draining"

\* ApplyUpdate and ApplyHeartbeat read the settings once and decide on them.
\* A heartbeat touches the TTL of an entry, an update goes on to write the
\* index.
Decide(w) ==
    /\ Alive
    /\ worker[w] = "deciding"
    /\ IF JobUser(w) \in consent
       THEN Goto(w, "idle") \/ Goto(w, "writing")
       ELSE Goto(w, WithoutConsent)
    /\ UNCHANGED <<connVars, ingest, ingestClosed, wg, shutVars, consent,
                   present>>

\* ApplyUpdate writes the index on the strength of settings read before: an
\* upsert, or a removal if the user is paused or invisible. The query that
\* follows only reads, and its result is offered to the connection.
WriteIndex(w) ==
    /\ Alive
    /\ worker[w] = "writing"
    /\ present' \in {present \cup {JobUser(w)}, present \ {JobUser(w)}}
    /\ Goto(w, "idle")
    /\ UNCHANGED <<connVars, ingest, ingestClosed, wg, shutVars, consent>>

\* Any other error (a store call failed) is swallowed.
ProcessFails(w) ==
    /\ Alive
    /\ worker[w] \in {"deciding", "writing"}
    /\ Goto(w, "idle")
    /\ UNCHANGED <<connVars, ingest, ingestClosed, wg, shutVars, consent,
                   present>>

\* Consent is gone: the drain frame has been offered, then Close.
Evict(w) ==
    /\ Alive
    /\ worker[w] = "draining"
    /\ link' = [link EXCEPT ![job[w]] = IF @ = "open" THEN "closing" ELSE @]
    /\ Goto(w, "idle")
    /\ UNCHANGED <<handler, conns, ingest, ingestClosed, wg, shutVars,
                   consent, present>>

-----------------------------------------------------------------------------
(* Shutdown.                                                               *)

\* SIGTERM cancels the context the workers run under; main then calls
\* Shutdown.
Signal ==
    /\ Alive
    /\ ~ctxDone
    /\ ctxDone' = TRUE
    /\ UNCHANGED <<connVars, ingest, ingestClosed, poolVars, shut,
                   consent, present>>

\* The registry is copied under h.mu and each connection in the copy is
\* offered the drain frame, without blocking.
ShutdownBroadcast ==
    /\ Alive
    /\ ctxDone
    /\ shut = "no"
    /\ shut' = "broadcast"
    /\ UNCHANGED <<connVars, ingest, ingestClosed, poolVars, ctxDone, consent,
                   present>>

ShutdownCloseIngest ==
    /\ Alive
    /\ shut = "broadcast"
    /\ ingestClosed' = TRUE
    /\ shut' = "waiting"
    /\ UNCHANGED <<connVars, ingest, poolVars, ctxDone, consent,
                   present>>

ShutdownReturn ==
    /\ Alive
    /\ shut = "waiting"
    /\ wg = 0
    /\ shut' = "done"
    /\ UNCHANGED <<connVars, ingest, ingestClosed, poolVars, ctxDone,
                   consent, present>>

ShutdownDeadline ==
    /\ Alive
    /\ shut = "waiting"
    /\ shut' = "timedOut"
    /\ UNCHANGED <<connVars, ingest, ingestClosed, poolVars, ctxDone,
                   consent, present>>

-----------------------------------------------------------------------------
(* What the rest of the system does meanwhile.                             *)

\* Consent is granted, revoked, or lapses with time.
ConsentChange(u) ==
    /\ Alive
    /\ consent' = IF u \in consent THEN consent \ {u} ELSE consent \cup {u}
    /\ UNCHANGED <<connVars, ingest, ingestClosed, poolVars, shutVars,
                   present>>

\* An index entry goes: its TTL ran out, or the settings service removed it.
IndexEntryGone(u) ==
    /\ Alive
    /\ u \in present
    /\ present' = present \ {u}
    /\ UNCHANGED <<connVars, ingest, ingestClosed, poolVars, shutVars,
                   consent>>

-----------------------------------------------------------------------------

Serve(c) == \/ Handshake(c)
            \/ Register(c)
            \/ Enqueue(c)
            \/ EnqueuePanics(c)
            \/ Unregister(c)
            \/ Disconnect(c)
            \/ Close(c)
            \/ Teardown(c)

Work(w) == \/ TakeJob(w)
           \/ WorkerStop(w)
           \/ Decide(w)
           \/ WriteIndex(w)
           \/ ProcessFails(w)
           \/ Evict(w)

Shutdown == \/ ShutdownBroadcast
            \/ ShutdownCloseIngest
            \/ ShutdownReturn
            \/ ShutdownDeadline

Environment == \/ Signal
               \/ \E u \in Users : ConsentChange(u) \/ IndexEntryGone(u)

Next == \/ \E c \in Conns : Serve(c)
        \/ Run
        \/ \E w \in Workers : Work(w)
        \/ Shutdown
        \/ Environment

Spec == Init /\ [][Next]_vars

\* What runs keeps running: the goroutines of Run, the workers, a handler that
\* has left its read loop, the write pump of a closing connection, and
\* Shutdown, which is not assumed to be rescued by its deadline. Store calls
\* may fail, but not every time for the same connection. Nothing makes a
\* client send a frame or leave, or a signal arrive.
Fairness ==
    /\ WF_vars(Run)
    /\ \A w \in Workers : WF_vars(Work(w))
    /\ \A c \in Conns :
          /\ SF_vars(\E w \in Workers : job[w] = c /\ Decide(w))
          /\ WF_vars(link[c] = "down" /\ Unregister(c))
          /\ WF_vars(Disconnect(c) \/ Close(c))
          /\ WF_vars(link[c] = "closing" /\ Teardown(c))
    /\ WF_vars(ShutdownBroadcast \/ ShutdownCloseIngest \/ ShutdownReturn)

FairSpec == Spec /\ Fairness

-----------------------------------------------------------------------------
(* Properties.                                                             *)

\* Every variable stays in its type, and a worker holds a job exactly while
\* it is processing one (hub.go, worker and process).
TypeOK ==
    /\ handler \in [Conns -> {"new", "upgrading", "reading", "leaving",
                              "closing", "done", "panicked"}]
    /\ link \in [Conns -> {"none", "open", "closing", "down"}]
    /\ conns \in [Users -> Conns \cup {None}]
    /\ ingest \in Seq(Conns) /\ Len(ingest) <= IngestBuffer
    /\ ingestClosed \in BOOLEAN
    /\ worker \in [Workers -> {"unstarted", "idle", "deciding", "writing",
                               "draining", "exited"}]
    /\ job \in [Workers -> Conns \cup {None}]
    /\ \A w \in Workers : job[w] = None <=> worker[w] \in {"unstarted", "idle", "exited"}
    /\ wg \in Nat
    /\ ctxDone \in BOOLEAN
    /\ shut \in {"no", "broadcast", "waiting", "done", "timedOut"}
    /\ consent \subseteq Users /\ present \subseteq Users

\* The registry only ever names a connection of that user that its handler
\* still serves (or was serving when it panicked): Register and Unregister of
\* several connections of one user, in any order, leave no finished
\* connection behind to be drained.
RegisteredIsServed ==
    \A u \in Users : conns[u] # None =>
        /\ Owner[conns[u]] = u
        /\ handler[conns[u]] \in {"reading", "panicked"}

\* And it does not lose one that is served: while a registered connection is
\* read, a step may take its place in the registry only for a connection of the
\* same user that is just being registered; the late Unregister of an older
\* connection, which removes only itself, does not.
ReplacedBy(c, d) == handler[d] = "upgrading" /\ Owner[d] = Owner[c] /\ conns'[Owner[c]] = d
LatestStaysRegistered ==
    [][\A c \in Conns :
          conns[Owner[c]] = c /\ handler'[c] = "reading" =>
              conns'[Owner[c]] = c \/ \E d \in Conns : ReplacedBy(c, d)]_vars

\* Shutdown returns without error only when every worker has finished its job
\* and exited, even when Run has not been scheduled yet (the WaitGroup is
\* raised in NewHubWithLimit, not in Run).
ShutdownWaits == shut = "done" => \A w \in Workers : worker[w] = "exited"

\* A user whose consent is gone for good and whose client goes on sending
\* frames is cut off: some worker drains and closes that very connection.
Queued(c) == \E i \in 1..Len(ingest) : ingest[i] = c
CutOff(c) == link[c] \in {"closing", "down"}
EvictedEventually ==
    \A c \in Conns :
        []<>Queued(c) /\ <>[](Owner[c] \notin consent)
            => <>(CutOff(c) \/ ctxDone)

\* Shutdown returns without the help of its deadline, whatever is queued or
\* in progress when it starts.
ShutdownReturns ==
    shut = "broadcast" ~> Returned

\* "No panics anywhere in this package" (domain.go): no goroutine sends on the
\* ingest channel after Shutdown has closed it.
NoPanic == \A c \in Conns : handler[c] # "panicked"

=============================================================================
