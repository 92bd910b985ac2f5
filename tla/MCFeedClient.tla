---------------------------- MODULE MCFeedClient ----------------------------
(* Two disconnect() calls and one drain at once. Two loops suffice: the one  *)
(* that runs and one that stop() has superseded and that has not returned.   *)
EXTENDS FeedClient
=============================================================================
