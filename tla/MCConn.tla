-------------------------------- MODULE MCConn --------------------------------
(* Conn with a limit that is the default, one below it and one above what an *)
(* int32 holds, and replies that fit each and exceed all but the last.       *)
EXTENDS Conn

MCLimits == {0, 1, 3}
=============================================================================
