----------------------------- MODULE FeedClient -----------------------------
(***************************************************************************)
(* The proximity feed on one device: NearbyFeedNotifier decides from the   *)
(* privacy settings and the location permission whether the feed should    *)
(* run, and WebSocketProximityFeedRepository connects and disconnects the  *)
(* ReconnectingSocket.                                                     *)
(*                                                                         *)
(* A rebuild of the notifier awaits settings and permission and then acts  *)
(* on what it has seen; a later rebuild does not stop an earlier one.      *)
(* connect() has no await. disconnect() has one for each subscription and  *)
(* those of stop(), and other callbacks run in between.                    *)
(***************************************************************************)
EXTENDS ReconnectingSocket, Sequences, FiniteSets

CONSTANTS
    Disconnects,   \* disconnect() calls under way
    Drains,        \* restarts after a drain frame under way
    MaxRebuilds    \* bound: rebuilds of the notifier

ASSUME FeedAssumption ==
    /\ Disconnects \cap Drains = {} /\ Callers = Disconnects \cup Drains
    /\ IsFiniteSet(Drains) /\ MaxRebuilds \in Nat

\* What connect() installs, in the order disconnect() cancels it.
Streams == {"messages", "phases", "positions", "heartbeat"}

After == [messages |-> "phases", phases |-> "positions"]

VARIABLES
    want,       \* the feed should run: settings active, permission granted
    rebuilds,   \* what the rebuilds that have not yet acted have seen
    asked,      \* number of rebuilds so far
    connected,  \* _connected
    live,       \* the subscriptions and timers of each kind there are
    held,       \* the repository's field refers to one of them
    leaving,    \* what each disconnect() has just cancelled, "no" when none
    restarting, \* drains whose stop() has a start() to follow
    overlaps    \* history: "connect" once connect() ran with a disconnect() or
                \* stop() under way, "drain" once a drain met a disconnect()

feedVars == <<want, rebuilds, asked, connected, live, held, leaving, restarting, overlaps>>
vars == <<socketVars, feedVars>>

Init ==
    /\ SocketInit
    /\ want = FALSE
    /\ rebuilds = << >>
    /\ asked = 0
    /\ connected = FALSE
    /\ live = [s \in Streams |-> 0]
    /\ held = [s \in Streams |-> FALSE]
    /\ leaving = [d \in Disconnects |-> "no"]
    /\ restarting = {}
    /\ overlaps = {}

Stopping == \E c \in Callers : stopping[c] # "no"

Disconnecting == \E d \in Disconnects : leaving[d] # "no" \/ stopping[d] # "no"

\* Settings or permission change, or the user retries.
Rebuild(w) ==
    /\ asked < MaxRebuilds
    /\ asked' = asked + 1
    /\ want' = w
    /\ rebuilds' = Append(rebuilds, w)
    /\ UNCHANGED <<socketVars, connected, live, held, leaving, restarting, overlaps>>

\* The rebuild acts, and there is nothing for it to do.
NothingToDo ==
    /\ rebuilds # << >> /\ Head(rebuilds) = connected
    /\ rebuilds' = Tail(rebuilds)
    /\ UNCHANGED <<socketVars, want, asked, connected, live, held, leaving,
                   restarting, overlaps>>

Connect ==
    /\ rebuilds # << >> /\ Head(rebuilds) /\ ~connected
    /\ rebuilds' = Tail(rebuilds)
    /\ connected' = TRUE
    /\ live' = [s \in Streams |-> live[s] + 1]
    /\ held' = [s \in Streams |-> TRUE]
    /\ overlaps' = overlaps \cup (IF Disconnecting \/ Stopping THEN {"connect"} ELSE {})
    /\ StartClient
    /\ UNCHANGED <<want, asked, leaving, restarting>>

\* Mutant of Cancelled: the timer is dropped but not cancelled.
TimerKept(s) ==
    [live EXCEPT ![s] = IF held[s] /\ s # "heartbeat" THEN @ - 1 ELSE @]

Cancelled(s) == [live EXCEPT ![s] = IF held[s] THEN @ - 1 ELSE @]

BeginDisconnect(d) ==
    /\ rebuilds # << >> /\ ~Head(rebuilds) /\ connected
    /\ leaving[d] = "no" /\ stopping[d] = "no"
    /\ rebuilds' = Tail(rebuilds)
    /\ connected' = FALSE
    /\ live' = Cancelled("messages")
    /\ held' = [held EXCEPT !["messages"] = FALSE]
    /\ leaving' = [leaving EXCEPT ![d] = "messages"]
    /\ overlaps' = overlaps \cup (IF restarting # {} THEN {"drain"} ELSE {})
    /\ UNCHANGED <<socketVars, want, asked, restarting>>

CancelNext(d) ==
    /\ leaving[d] \in DOMAIN After
    /\ live' = Cancelled(After[leaving[d]])
    /\ held' = [held EXCEPT ![After[leaving[d]]] = FALSE]
    /\ leaving' = [leaving EXCEPT ![d] = After[@]]
    /\ UNCHANGED <<socketVars, want, rebuilds, asked, connected, restarting, overlaps>>

\* The fields are cleared, whatever they hold by now, the timer is cancelled
\* and stop() is called.
StopSocket(d) ==
    /\ leaving[d] = "positions"
    /\ live' = Cancelled("heartbeat")
    /\ held' = [s \in Streams |-> FALSE]
    /\ leaving' = [leaving EXCEPT ![d] = "no"]
    /\ StopBegin({d})
    /\ UNCHANGED <<want, rebuilds, asked, connected, restarting, overlaps>>

\* A drain frame; every message listener there is calls stop().then(start).
DrainFrame(k) ==
    /\ wire[k] = "open" /\ heard[k]
    /\ \E D \in SUBSET (Drains \ restarting) :
        /\ D # {} /\ Cardinality(D) = live["messages"]
        /\ StopBegin(D)
        /\ restarting' = restarting \cup D
    /\ overlaps' = overlaps \cup (IF Disconnecting THEN {"drain"} ELSE {})
    /\ UNCHANGED <<want, rebuilds, asked, connected, live, held, leaving>>

\* Mutant of Restart: a drained client is stopped and not started again.
DropDrained(d) ==
    /\ d \in restarting /\ stopping[d] = "no"
    /\ restarting' = restarting \ {d}
    /\ UNCHANGED <<socketVars, want, rebuilds, asked, connected, live, held,
                   leaving, overlaps>>

Restart(d) ==
    /\ d \in restarting /\ stopping[d] = "no"
    /\ restarting' = restarting \ {d}
    /\ StartClient
    /\ UNCHANGED <<want, rebuilds, asked, connected, live, held, leaving, overlaps>>

Act ==
    \/ NothingToDo
    \/ Connect
    \/ \E d \in Disconnects : BeginDisconnect(d)

Disconnect(d) == CancelNext(d) \/ StopSocket(d)

SocketProceeds ==
    /\ \/ \E l \in Loops : Proceed(l)
       \/ \E c \in Callers : StopProceeds(c)
       \/ Network
    /\ UNCHANGED feedVars

Next ==
    \/ \E w \in BOOLEAN : Rebuild(w)
    \/ Act
    \/ \E d \in Disconnects : Disconnect(d)
    \/ \E k \in Sockets : DrainFrame(k)
    \/ \E d \in Drains : Restart(d)
    \/ SocketProceeds

Spec == Init /\ [][Next]_vars

\* What has been scheduled runs, timers fire, and a transport that is being
\* closed is closed in the end (the library gives up on a silent peer). The
\* user, the server and a handshake owe nothing.
Fairness ==
    /\ WF_vars(Act)
    /\ \A d \in Disconnects : WF_vars(Disconnect(d))
    /\ \A d \in Drains : WF_vars(Restart(d))
    /\ \A l \in Loops : WF_vars(Proceed(l) /\ UNCHANGED feedVars)
    /\ \A c \in Callers : WF_vars(StopProceeds(c) /\ UNCHANGED feedVars)
    /\ \A k \in Sockets :
           WF_vars(wire[k] = "closing" /\ Ends(k) /\ UNCHANGED feedVars)

FairSpec == Spec /\ Fairness

(***************************************************************************)
(* Properties                                                              *)
(***************************************************************************)

\* Types; no field refers to a subscription that does not exist.
TypeOK ==
    /\ SocketTypeOK
    /\ want \in BOOLEAN /\ connected \in BOOLEAN
    /\ rebuilds \in Seq(BOOLEAN) /\ asked \in 0..MaxRebuilds
    /\ live \in [Streams -> 0..MaxRebuilds]
    /\ held \in [Streams -> BOOLEAN]
    /\ \A s \in Streams : held[s] => live[s] > 0
    /\ leaving \in [Disconnects -> {"no", "messages", "phases", "positions"}]
    /\ restarting \subseteq Drains
    /\ overlaps \subseteq {"connect", "drain"}

\* Every rebuild has acted, and nothing it began is under way.
Settled ==
    rebuilds = << >> /\ restarting = {} /\ ~Disconnecting /\ ~Stopping

\* Once settled with the feed unwanted, the client is stopped, listens to
\* nothing, has no timer left and no transport open, unless a drain or a
\* connect() ran into a disconnect(): drains, refused handshakes and lost
\* connections on their own leave nothing behind.
DownIsDown ==
    Settled /\ ~want /\ overlaps = {} =>
        /\ ~connected /\ Stopped /\ phase = "disconnected"
        /\ \A s \in Streams : live[s] = 0
        /\ \A k \in Sockets : wire[k] = "closed"

\* Once settled with the feed wanted, the client runs with one listener of each
\* kind and its heartbeat, unless a connect() ran into a disconnect() or stop():
\* a drain on its own, or one that meets a disconnect(), does not cost the feed
\* (the latter may cost the phase, which then says "disconnected").
UpIsUp ==
    Settled /\ want /\ "connect" \notin overlaps =>
        /\ connected /\ ~Stopped
        /\ overlaps = {} => phase # "disconnected"
        /\ \A s \in Streams : live[s] = 1 /\ held[s]

\* A loop that stop() has superseded returns; it does not wait for a session
\* or a backoff delay that is no longer its own.
LoopsUnwind ==
    \A l \in Loops : loop[l] # "idle" /\ l # current ~> loop[l] = "idle"

=============================================================================
