---------------------------- MODULE FrameChannel ----------------------------
(***************************************************************************)
(* What a connection promises the hub (the Conn interface of               *)
(* internal/presence/hub.go and the "best-effort, now-state" model its     *)
(* comments name): Send either takes a frame or refuses it at once; the    *)
(* frames that reach the client are the frames taken, in the order they    *)
(* were taken, each at most once; a taken frame may be skipped, and is     *)
(* never skipped while the channel is open and healthy; nothing arrives    *)
(* after the end.                                                          *)
(***************************************************************************)
EXTENDS Naturals, Sequences

CONSTANT Frames

VARIABLES
    accepted,   \* every frame Send has taken, in order
    wire,       \* the frames that reached the client
    next,       \* position in accepted of the next frame to arrive
    phase       \* "open", "ending" (closing or broken), "ended"

chanVars == <<accepted, wire, next, phase>>

ChanInit ==
    /\ accepted = <<>>
    /\ wire = <<>>
    /\ next = 1
    /\ phase = "open"

Take(f) ==
    /\ accepted' = Append(accepted, f)
    /\ UNCHANGED <<wire, next, phase>>

Arrive ==
    /\ phase # "ended"
    /\ next \in DOMAIN accepted
    /\ wire' = Append(wire, accepted[next])
    /\ next' = next + 1
    /\ UNCHANGED <<accepted, phase>>

\* A write failed: the frame is lost and the channel is on its way out.
Skip ==
    /\ next \in DOMAIN accepted
    /\ next' = next + 1
    /\ phase' = "ending"
    /\ UNCHANGED <<accepted, wire>>

BeginEnd ==
    /\ phase = "open"
    /\ phase' = "ending"
    /\ UNCHANGED <<accepted, wire, next>>

End ==
    /\ phase = "ending"
    /\ phase' = "ended"
    /\ UNCHANGED <<accepted, wire, next>>

ChanNext == (\E f \in Frames : Take(f)) \/ Arrive \/ Skip \/ BeginEnd \/ End

ChanSpec == ChanInit /\ [][ChanNext]_chanVars

-----------------------------------------------------------------------------
(* What the hub may conclude from it.                                      *)

\* The client gets frames that were taken, in the order they were taken and
\* each at most once (writePump is the only writer of the socket).
InOrder ==
    \E at \in [DOMAIN wire -> DOMAIN accepted] :
        /\ \A i, k \in DOMAIN wire : i < k => at[i] < at[k]
        /\ \A i \in DOMAIN wire : wire[i] = accepted[at[i]] /\ at[i] < next

\* While the channel is open the client has got the first frames taken, all of
\* them: a frame is lost only on the way out.
NothingSkipped ==
    phase = "open" =>
        /\ next = Len(wire) + 1
        /\ \A i \in DOMAIN wire : i \in DOMAIN accepted /\ wire[i] = accepted[i]

=============================================================================
