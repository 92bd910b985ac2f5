--------------------------- MODULE MCPresenceHub ---------------------------
(* Two connections of one user, so that a reconnect can overlap the old     *)
(* connection's departure.                                                  *)
EXTENDS PresenceHub, TLC

CONSTANTS ann, a1, a2

MCOwner == (a1 :> ann) @@ (a2 :> ann)

=============================================================================
