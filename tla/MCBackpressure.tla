--------------------------- MODULE MCBackpressure ---------------------------
(* Backpressure for TLC: a quiet ring that is large enough, and a chatty   *)
(* one that is not.                                                        *)
EXTENDS Backpressure, TLC

MCRate == "quiet" :> 1 @@ "chatty" :> 2
=============================================================================
