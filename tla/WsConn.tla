------------------------------- MODULE WsConn -------------------------------
(***************************************************************************)
(* One WebSocket connection of the presence server                         *)
(* (internal/presence/ws/conn.go), with the goroutines that touch it:      *)
(*   - the hub's goroutines (workers and Shutdown), which Send frames and, *)
(*     when consent has lapsed, Close the connection;                      *)
(*   - the handler's goroutine, blocked in the read loop, which closes the *)
(*     connection once the read loop has returned;                         *)
(*   - the write pump, the only goroutine that touches the socket's write  *)
(*     side and the only one that tears the transport down.                *)
(* An action is one step between two synchronisation operations: a load or *)
(* a store of closedVal, one select, the close of one channel.             *)
(***************************************************************************)
EXTENDS Naturals, Sequences, FiniteSets

CONSTANTS
    Frames,          \* the frames the hub will ever hand to Send, each once
    HubProcs,        \* goroutines of the hub that call Send and Close
    Handler,         \* the goroutine of ServeHTTP that owns the read loop
    OutboundBuffer,  \* capacity of c.out
    None             \* no frame in hand

ASSUME ConnAssumption ==
    /\ Handler \notin HubProcs
    /\ OutboundBuffer \in Nat \ {0}
    /\ None \notin Frames

Procs == HubProcs \cup {Handler}

VARIABLES
    out,        \* c.out, the buffered channel
    closedVal,  \* c.closedVal
    once,       \* c.once: "free", "busy" while the first close() runs, "done"
    shutdown,   \* how many times close(c.shutdown) ran: once it is legal
    closed,     \* how many times close(c.closed) ran
    wsOpen,     \* the transport is open
    pc,         \* what each goroutine is doing with the connection
    arg,        \* the frame a goroutine is sending
    pump,       \* where writePump is
    inHand,     \* the frame writePump is writing
    reading,    \* the read loop has not returned
    accepted,   \* history: frames Send took, in order
    wire,       \* history: frames written to the transport, in order
    failed,     \* history: frames whose write failed
    promised,   \* history: frames taken while the connection was not closing
    late,       \* history: how many frames each goroutine slipped in later
    expired     \* history: closeDrainWait ran out with frames still buffered

connVars == <<out, closedVal, once, shutdown, closed, wsOpen>>
procVars == <<pc, arg>>
pumpVars == <<pump, inHand>>
histVars == <<accepted, wire, failed, promised, late, expired>>
vars == <<connVars, procVars, pumpVars, reading, histVars>>

Contents(s) == {s[i] : i \in 1..Len(s)}

Init ==
    /\ out = <<>>
    /\ closedVal = FALSE
    /\ once = "free"
    /\ shutdown = 0
    /\ closed = 0
    /\ wsOpen = TRUE
    /\ pc = [p \in Procs |-> "idle"]
    /\ arg = [p \in Procs |-> None]
    /\ pump = "select"
    /\ inHand = None
    /\ reading = TRUE
    /\ accepted = <<>>
    /\ wire = <<>>
    /\ failed = {}
    /\ promised = {}
    /\ late = [p \in HubProcs |-> 0]
    /\ expired = FALSE

-----------------------------------------------------------------------------
(* Send: a synchronous look at closedVal, then one select.                 *)

\* A frame the hub has not handed out yet.
Fresh(f) == /\ f \notin Contents(accepted)
            /\ \A p \in HubProcs : arg[p] # f

SelectOnly == TRUE    \* variant: Send relies on its select alone
LooksOpen == ~closedVal

SendCheck(p, f) ==
    /\ pc[p] = "idle"
    /\ Fresh(f)
    /\ LooksOpen
    /\ pc' = [pc EXCEPT ![p] = "sending"]
    /\ arg' = [arg EXCEPT ![p] = f]
    /\ UNCHANGED <<connVars, pumpVars, reading, histVars>>

SendDone(p) ==
    /\ pc' = [pc EXCEPT ![p] = "idle"]
    /\ arg' = [arg EXCEPT ![p] = None]

NoLimit == TRUE    \* variant: the buffer grows instead of refusing
Room == Len(out) < OutboundBuffer

\* case c.out <- f; it may be chosen although c.closed is ready too.
SendAccept(p) ==
    /\ pc[p] = "sending"
    /\ Room
    /\ out' = Append(out, arg[p])
    /\ accepted' = Append(accepted, arg[p])
    /\ promised' = IF closedVal THEN promised ELSE promised \cup {arg[p]}
    /\ late' = [late EXCEPT ![p] = IF closedVal THEN @ + 1 ELSE @]
    /\ SendDone(p)
    /\ UNCHANGED <<closedVal, once, shutdown, closed, wsOpen, pumpVars,
                   reading, wire, failed, expired>>

\* case <-c.closed, or the default when the buffer is full.
SendRefuse(p) ==
    /\ pc[p] = "sending"
    /\ closed > 0 \/ ~Room
    /\ SendDone(p)
    /\ UNCHANGED <<connVars, pumpVars, reading, histVars>>

-----------------------------------------------------------------------------
(* close(): sync.Once around a store and the close of a channel. A second  *)
(* caller waits inside once.Do until the first one has finished.           *)

CanClose(p) == p = Handler => ~reading

CloseFirst(p) ==
    /\ pc[p] = "idle"
    /\ CanClose(p)
    /\ once = "free"
    /\ once' = "busy"
    /\ pc' = [pc EXCEPT ![p] = "storing"]
    /\ UNCHANGED <<out, closedVal, shutdown, closed, wsOpen, arg, pumpVars,
                   reading, histVars>>

CloseStore(p) ==
    /\ pc[p] = "storing"
    /\ closedVal' = TRUE
    /\ pc' = [pc EXCEPT ![p] = "signalling"]
    /\ UNCHANGED <<out, once, shutdown, closed, wsOpen, arg, pumpVars,
                   reading, histVars>>

Silent == shutdown    \* variant: frames are refused but the pump never woken
Signalled == shutdown + 1

CloseSignal(p) ==
    /\ pc[p] = "signalling"
    /\ shutdown' = Signalled
    /\ once' = "done"
    /\ pc' = [pc EXCEPT ![p] = "closed"]
    /\ UNCHANGED <<out, closedVal, closed, wsOpen, arg, pumpVars, reading,
                   histVars>>

\* Variant: no sync.Once around the body.
CloseTwice(p) ==
    /\ pc[p] = "idle"
    /\ CanClose(p)
    /\ once = "done"
    /\ shutdown' = shutdown + 1
    /\ pc' = [pc EXCEPT ![p] = "closed"]
    /\ UNCHANGED <<out, closedVal, once, closed, wsOpen, arg, pumpVars,
                   reading, histVars>>

CloseAgain(p) ==
    /\ pc[p] = "idle"
    /\ CanClose(p)
    /\ once = "done"
    /\ pc' = [pc EXCEPT ![p] = "closed"]
    /\ UNCHANGED <<connVars, arg, pumpVars, reading, histVars>>

\* close() has returned; a hub goroutine goes on to other work.
CloseReturn(p) ==
    /\ p \in HubProcs
    /\ pc[p] = "closed"
    /\ pc' = [pc EXCEPT ![p] = "idle"]
    /\ UNCHANGED <<connVars, arg, pumpVars, reading, histVars>>

-----------------------------------------------------------------------------
(* The write pump.                                                         *)

PumpTake ==
    /\ pump = "select"
    /\ out # <<>>
    /\ inHand' = Head(out)
    /\ out' = Tail(out)
    /\ pump' = "writing"
    /\ UNCHANGED <<closedVal, once, shutdown, closed, wsOpen, procVars,
                   reading, histVars>>

HangUp == "teardown"    \* variant: at once, whatever is buffered
AfterShutdown == "draining"

PumpShutdown ==
    /\ pump = "select"
    /\ shutdown > 0
    /\ pump' = AfterShutdown
    /\ UNCHANGED <<connVars, procVars, inHand, reading, histVars>>

DrainTake ==
    /\ pump = "draining"
    /\ out # <<>>
    /\ inHand' = Head(out)
    /\ out' = Tail(out)
    /\ pump' = "drainWriting"
    /\ UNCHANGED <<closedVal, once, shutdown, closed, wsOpen, procVars,
                   reading, histVars>>

\* default: nothing is buffered at this instant.
DrainEmpty ==
    /\ pump = "draining"
    /\ out = <<>>
    /\ pump' = "teardown"
    /\ UNCHANGED <<connVars, procVars, inHand, reading, histVars>>

\* deadline.C: the select may choose it over a buffered frame.
DrainExpire ==
    /\ pump = "draining"
    /\ out # <<>>
    /\ pump' = "teardown"
    /\ expired' = TRUE
    /\ UNCHANGED <<connVars, procVars, inHand, reading, accepted, wire,
                   failed, promised, late>>

\* writeFrame returned true.
WriteOk ==
    /\ pump \in {"writing", "drainWriting"}
    /\ wire' = Append(wire, inHand)
    /\ inHand' = None
    /\ pump' = IF pump = "writing" THEN "select" ELSE "draining"
    /\ UNCHANGED <<connVars, procVars, reading, accepted, failed, promised,
                   late, expired>>

\* Variant: a frame whose write failed goes back to the end of the buffer.
WriteRequeue ==
    /\ pump = "writing"
    /\ out' = Append(out, inHand)
    /\ inHand' = None
    /\ pump' = "select"
    /\ UNCHANGED <<closedVal, once, shutdown, closed, wsOpen, procVars,
                   reading, histVars>>

\* writeFrame returned false: the main loop gives up, the drain goes on.
WriteFail ==
    /\ pump \in {"writing", "drainWriting"}
    /\ failed' = failed \cup {inHand}
    /\ inHand' = None
    /\ pump' = IF pump = "writing" THEN "dead" ELSE "draining"
    /\ UNCHANGED <<connVars, procVars, reading, accepted, wire, promised,
                   late, expired>>

DeadStore ==
    /\ pump = "dead"
    /\ closedVal' = TRUE
    /\ pump' = "teardown"
    /\ UNCHANGED <<out, once, shutdown, closed, wsOpen, procVars, inHand,
                   reading, histVars>>

\* teardown(): close the transport, then close c.closed.
TeardownTransport ==
    /\ pump = "teardown"
    /\ wsOpen' = FALSE
    /\ pump' = "announcing"
    /\ UNCHANGED <<out, closedVal, once, shutdown, closed, procVars, inHand,
                   reading, histVars>>

TeardownAnnounce ==
    /\ pump = "announcing"
    /\ closed' = closed + 1
    /\ pump' = "exited"
    /\ UNCHANGED <<out, closedVal, once, shutdown, wsOpen, procVars, inHand,
                   reading, histVars>>

-----------------------------------------------------------------------------
(* The read loop returns when ReadMessage fails: because the client went   *)
(* away, at any time, or because the transport was closed on this side.    *)

ReadLoopReturn ==
    /\ reading
    /\ reading' = FALSE
    /\ UNCHANGED <<connVars, procVars, pumpVars, histVars>>

-----------------------------------------------------------------------------

Send(p) == \/ \E f \in Frames : SendCheck(p, f)
           \/ SendAccept(p)
           \/ SendRefuse(p)

Close(p) == \/ CloseFirst(p)
            \/ CloseStore(p)
            \/ CloseSignal(p)
            \/ CloseAgain(p)
            \/ CloseReturn(p)

WritePump == \/ PumpTake
             \/ PumpShutdown
             \/ DrainTake
             \/ DrainEmpty
             \/ DrainExpire
             \/ WriteOk
             \/ WriteFail
             \/ DeadStore
             \/ TeardownTransport
             \/ TeardownAnnounce

Next == \/ \E p \in HubProcs : Send(p)
        \/ \E p \in Procs : Close(p)
        \/ WritePump
        \/ ReadLoopReturn

\* Every goroutine that can take a step takes one: the write is bounded by
\* wireWriteWait, the drain by closeDrainWait, and ServeHTTP always calls
\* close() after its read loop. Nothing makes the hub Send or Close, and
\* nothing makes a client go away; a closed transport does end the read.
Fairness ==
    /\ WF_vars(WritePump)
    /\ WF_vars(~wsOpen /\ ReadLoopReturn)
    /\ WF_vars(Close(Handler))
    /\ \A p \in HubProcs :
          WF_vars(SendAccept(p) \/ SendRefuse(p) \/ CloseStore(p) \/ CloseSignal(p))

Spec == Init /\ [][Next]_vars
FairSpec == Spec /\ Fairness

-----------------------------------------------------------------------------
(* Properties.                                                             *)

FlagTypes ==
    /\ closedVal \in BOOLEAN
    /\ once \in {"free", "busy", "done"}
    /\ shutdown \in Nat /\ closed \in Nat
    /\ wsOpen \in BOOLEAN
    /\ reading \in BOOLEAN
    /\ expired \in BOOLEAN

GoroutineTypes ==
    /\ pc \in [Procs -> {"idle", "sending", "storing", "signalling", "closed"}]
    /\ arg \in [Procs -> Frames \cup {None}]
    /\ \A p \in Procs : pc[p] = "sending" <=> arg[p] # None
    /\ late \in [HubProcs -> Nat]

PumpTypes ==
    /\ pump \in {"select", "writing", "draining", "drainWriting", "dead",
                 "teardown", "announcing", "exited"}
    /\ inHand \in Frames \cup {None}
    /\ pump \in {"writing", "drainWriting"} <=> inHand # None

ChannelTypes ==
    /\ out \in Seq(Frames) /\ Len(out) <= OutboundBuffer
    /\ accepted \in Seq(Frames)
    /\ wire \in Seq(Frames)
    /\ failed \subseteq Frames
    /\ promised \subseteq Frames

\* Every variable stays in its type, c.out within its capacity; a goroutine
\* holds a frame exactly while it is between the two halves of Send, and the
\* pump exactly while it is in writeFrame (conn.go, Send and writePump).
TypeOK == FlagTypes /\ GoroutineTypes /\ PumpTypes /\ ChannelTypes

\* A frame that Send took while nobody was closing the connection is on the
\* wire before the transport is shut, unless a write failed or the 200 ms of
\* closeDrainWait ran out. This is what writePump's shutdown case and
\* drainThenTeardown are for: the hub sends drain and closes at once.
FlushedBeforeTeardown ==
    ~wsOpen /\ failed = {} /\ ~expired => promised \subseteq Contents(wire)

\* Once closedVal is set a goroutine can slip in the one frame it was in the
\* middle of sending and no other: Send looks at closedVal before its select.
OnlyMidFlightAfterClose == \A p \in HubProcs : late[p] <= 1

\* Neither c.shutdown nor c.closed is closed twice, which would panic, however
\* many goroutines call close() and however the pump fails meanwhile.
NoDoubleClose == shutdown <= 1 /\ closed <= 1

\* A connection that refuses frames is on its way out for good: the transport
\* is shut, the read loop returns and the handler's close() returns, whoever
\* started it (an eviction, the handler, or a failed write).
EventuallyReleased ==
    closedVal ~> (closed = 1 /\ ~reading /\ pc[Handler] = "closed")

\* The frames on the wire are those taken, in order, none twice, and none is
\* skipped while the connection is healthy: the connection implements the
\* channel the hub's pipeline counts on.
Channel == INSTANCE FrameChannel WITH
    next <- Len(wire) + Cardinality(failed) + 1,
    phase <- IF ~wsOpen THEN "ended"
             ELSE IF closedVal \/ failed # {} \/ shutdown > 0 THEN "ending"
             ELSE "open"
ChannelSpec == Channel!ChanSpec

\* So whoever sends and closes when, the client reads the frames the hub handed
\* over in that order, none twice, and all of them until somebody closes or a
\* write fails (Send, writePump).
DeliveredInOrder == Channel!InOrder /\ Channel!NothingSkipped

=============================================================================
