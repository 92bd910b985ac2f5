-------------------------- MODULE MCNearbyPipeline --------------------------
(* Ann's connection asks who is near while Bob's privacy changes under it.  *)
EXTENDS NearbyPipeline, TLC

CONSTANTS ann, bob, ask, tell, x1, x2

MCWriterUser == (x1 :> bob)
MCJobUser == (ask :> ann) @@ (tell :> bob)
MCJobKind == (ask :> "heartbeat") @@ (tell :> "update")
\* Bob is within Ann's radius; Ann is out of Bob's reach, padding included.
MCDist == (ann :> (ann :> 0 @@ bob :> 2)) @@ (bob :> (ann :> 4 @@ bob :> 0))

\* Bob shares and is seen by everyone, or by friends only; Ann too.
MCRow(vis, share) ==
    [enabled |-> TRUE, due |-> 1, paused |-> FALSE, visibility |-> vis,
     share |-> share, reveal |-> 0, radius |-> 2]
MCFollowing == {<<ann, bob>>}
MCRows == (ann :> {MCRow("everyone", FALSE)})
       @@ (bob :> {MCRow("everyone", TRUE), MCRow("friends_only", FALSE)})

\* What Bob may ask for; unpausing matters to the run of two requests only.
MCRequests ==
    {[kind |-> "grant"], [kind |-> "revoke"], [kind |-> "paused", value |-> TRUE],
     [kind |-> "reveal", value |-> 2], [kind |-> "radius", value |-> 1],
     [kind |-> "block", peer |-> ann], [kind |-> "follow", peer |-> ann]}
MCPauses == {[kind |-> "grant"], [kind |-> "revoke"], [kind |-> "paused", value |-> FALSE]}

\* For the requests alone: two of Bob's, and no call of the pipeline.
MCTwoRequests == (x1 :> bob) @@ (x2 :> bob)
MCNoJob == [j \in {} |-> bob]
=============================================================================
