------------------------------ MODULE MCWsConn ------------------------------
(* A connection two hub goroutines use, with an outbound buffer of two      *)
(* frames out of three: enough for a full buffer, for a drain frame behind  *)
(* another one, and for a second sender in the middle of Send while the     *)
(* first one closes.                                                        *)
EXTENDS WsConn

=============================================================================
