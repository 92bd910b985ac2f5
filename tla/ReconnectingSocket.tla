------------------------- MODULE ReconnectingSocket -------------------------
(***************************************************************************)
(* The client's ReconnectingWebSocketClient. Dart runs one callback at a   *)
(* time, so an action is the code between two awaits. start() runs its     *)
(* connect loop up to the first await within itself; stop() is three       *)
(* actions, and may be under way several times at once.                    *)
(*                                                                         *)
(* _generation is only ever compared for equality with the generation of   *)
(* a loop: `current` is the loop it belongs to, None after stop(), and     *)
(* that is also what _stopped says. Loops and sockets that are over are    *)
(* used again.                                                             *)
(***************************************************************************)
EXTENDS Naturals

CONSTANTS
    Callers,     \* who may have a stop() under way
    Loops,       \* bound: connect loops that have not returned
    Sockets,     \* bound: transports in use
    MaxAttempt,  \* the attempt at which maxBackoff is reached
    None

ASSUME SocketAssumption ==
    /\ None \notin Loops \cup Sockets
    /\ MaxAttempt \in Nat \ {0}

VARIABLES
    current,       \* the loop that may drive the client, None when stopped
    loop,          \* where each connect loop is
    attempt,       \* _attempt
    wire,          \* each transport's state
    heard,         \* its stream subscription is live
    transport,     \* _transport
    subscription,  \* _subscription, as the transport it listens to
    awaited,       \* _activeConnectCompleter, as the transport it is about
    stopping,      \* where each stop() is
    closing,       \* the transport it is closing
    phase          \* the last phase emitted

socketVars == <<current, loop, attempt, wire, heard, transport, subscription,
                awaited, stopping, closing, phase>>

Stopped == current = None

\* Mutant of AtMost: the counter is not capped.
Uncapped(n) == n

AtMost(n) == IF n > MaxAttempt THEN MaxAttempt ELSE n

\* A transport nothing refers to any more.
Free(k) ==
    /\ wire[k] = "closed" /\ ~heard[k]
    /\ k \notin {transport, subscription} /\ \A c \in Callers : closing[c] # k

Unused == CHOOSE k \in Sockets : Free(k)

SocketInit ==
    /\ current = None
    /\ loop = [l \in Loops |-> "idle"]
    /\ attempt = 0
    /\ wire = [k \in Sockets |-> "closed"]
    /\ heard = [k \in Sockets |-> FALSE]
    /\ transport = None
    /\ subscription = None
    /\ awaited = None
    /\ stopping = [c \in Callers |-> "no"]
    /\ closing = [c \in Callers |-> None]
    /\ phase = "disconnected"

(***************************************************************************)
(* The connect loop                                                        *)
(***************************************************************************)

\* WebSocketChannel.connect returns at once; the handshake is still to come.
Dial(l) ==
    /\ \E k \in Sockets : Free(k)
    /\ wire' = [wire EXCEPT ![Unused] = "dialing"]
    /\ heard' = [heard EXCEPT ![Unused] = TRUE]
    /\ transport' = Unused
    /\ subscription' = Unused
    /\ awaited' = Unused
    /\ loop' = [loop EXCEPT ![l] = "session"]
    /\ phase' = "connected"

\* The factory, or the function that builds the address, throws.
CannotDial(l, tries) ==
    /\ loop' = [loop EXCEPT ![l] = "refused"]
    /\ phase' = IF tries = 0 THEN "connecting" ELSE "reconnecting"
    /\ UNCHANGED <<wire, heard, transport, subscription, awaited>>

Try(l, tries) ==
    /\ Dial(l) \/ CannotDial(l, tries)
    /\ UNCHANGED <<stopping, closing>>

Start(l) ==
    /\ Stopped /\ loop[l] = "idle"
    /\ current' = l
    /\ attempt' = 0
    /\ Try(l, 0)

\* start(): nothing when the client already runs.
StartClient ==
    \/ \E l \in Loops : Start(l)
    \/ ~Stopped /\ UNCHANGED socketVars

\* The session or the attempt is over: count it and wait.
BackOff(l) ==
    /\ l = current /\ loop[l] \in {"over", "refused"}
    /\ attempt' = AtMost((IF loop[l] = "over" THEN 0 ELSE attempt) + 1)
    /\ loop' = [loop EXCEPT ![l] = "backoff"]
    /\ phase' = "reconnecting"
    /\ UNCHANGED <<current, wire, heard, transport, subscription, awaited,
                   stopping, closing>>

DelayOver(l) ==
    /\ l = current /\ loop[l] = "backoff"
    /\ Try(l, attempt)
    /\ UNCHANGED <<current, attempt>>

\* A loop that finds the generation changed returns.
Return(l) ==
    /\ l # current /\ loop[l] \in {"over", "refused", "left"}
    /\ loop' = [loop EXCEPT ![l] = "idle"]
    /\ UNCHANGED <<current, attempt, wire, heard, transport, subscription,
                   awaited, stopping, closing, phase>>

(***************************************************************************)
(* stop()                                                                  *)
(***************************************************************************)

\* Mutant of Released: stop() completes the stop signal only.
SignalOnly ==
    [l \in Loops |-> IF l = current /\ loop[l] = "backoff" THEN "left" ELSE loop[l]]

\* stop() completes the stop signal and the connect completer.
Released ==
    [l \in Loops |->
        IF l = current /\ loop[l] \in {"session", "backoff"} THEN "left" ELSE loop[l]]

StopBegin(C) ==
    /\ \A c \in C : stopping[c] = "no"
    /\ stopping' = [c \in Callers |-> IF c \in C THEN "cancelling" ELSE stopping[c]]
    /\ current' = None
    /\ loop' = Released
    /\ heard' = [k \in Sockets |-> heard[k] /\ k # subscription]
    /\ UNCHANGED <<attempt, wire, transport, subscription, awaited, closing,
                   phase>>

\* The subscription is cancelled: close whatever _transport is by now.
StopClose(c) ==
    /\ stopping[c] = "cancelling"
    /\ stopping' = [stopping EXCEPT ![c] = "closing"]
    /\ closing' = [closing EXCEPT ![c] = transport]
    /\ wire' = [k \in Sockets |->
                   IF k = transport /\ wire[k] # "closed" THEN "closing" ELSE wire[k]]
    /\ subscription' = None
    /\ UNCHANGED <<current, loop, attempt, heard, transport, awaited, phase>>

StopEnd(c) ==
    /\ stopping[c] = "closing"
    /\ closing[c] # None => wire[closing[c]] = "closed"
    /\ stopping' = [stopping EXCEPT ![c] = "no"]
    /\ closing' = [closing EXCEPT ![c] = None]
    /\ transport' = None
    /\ phase' = "disconnected"
    /\ UNCHANGED <<current, loop, attempt, wire, heard, subscription, awaited>>

(***************************************************************************)
(* The network                                                             *)
(***************************************************************************)

Opened(k) ==
    /\ wire[k] = "dialing"
    /\ wire' = [wire EXCEPT ![k] = "open"]
    /\ UNCHANGED <<current, loop, attempt, heard, transport, subscription, awaited,
                   stopping, closing, phase>>

\* Mutant of Notified: the end of the stream is not listened to.
DoneIgnored(k) == loop

\* onDone and onError complete the session's completer with true.
Notified(k) ==
    [l \in Loops |->
        IF heard[k] /\ k = awaited /\ loop[l] = "session" THEN "over" ELSE loop[l]]

\* The stream of k ends, with or without an error: the handshake is refused,
\* the peer or the network ends the connection, or our own close is done.
Ends(k) ==
    /\ wire[k] # "closed"
    /\ wire' = [wire EXCEPT ![k] = "closed"]
    /\ heard' = [heard EXCEPT ![k] = FALSE]
    /\ loop' = Notified(k)
    /\ UNCHANGED <<current, attempt, transport, subscription, awaited, stopping,
                   closing, phase>>

Network == \E k \in Sockets : Opened(k) \/ Ends(k)

Proceed(l) == BackOff(l) \/ DelayOver(l) \/ Return(l)

StopProceeds(c) == StopClose(c) \/ StopEnd(c)

\* Anybody may call start() and stop() at any time.
SocketNext ==
    \/ \E l \in Loops : Start(l) \/ Proceed(l)
    \/ \E C \in (SUBSET Callers) \ {{}} : StopBegin(C)
    \/ \E c \in Callers : StopProceeds(c)
    \/ Network

SocketSpec == SocketInit /\ [][SocketNext]_socketVars

(***************************************************************************)
(* Properties                                                              *)
(***************************************************************************)

SocketTypeOK ==
    /\ current \in Loops \cup {None}
    /\ loop \in [Loops -> {"idle", "session", "over", "refused", "backoff", "left"}]
    /\ attempt \in 0..MaxAttempt
    /\ wire \in [Sockets -> {"closed", "dialing", "open", "closing"}]
    /\ heard \in [Sockets -> BOOLEAN]
    /\ {transport, subscription, awaited} \subseteq Sockets \cup {None}
    /\ stopping \in [Callers -> {"no", "cancelling", "closing"}]
    /\ closing \in [Callers -> Sockets \cup {None}]
    /\ phase \in {"connecting", "connected", "reconnecting", "disconnected"}

\* A loop that waits for its session is the one that drives the client, and
\* somebody will report that the session has ended: the subscription behind its
\* completer is live, whatever stop() calls are still unwinding around it.
SessionIsWatched ==
    \A l \in Loops : loop[l] = "session" =>
        /\ l = current /\ awaited \in Sockets
        /\ heard[awaited] /\ wire[awaited] # "closed"

=============================================================================
