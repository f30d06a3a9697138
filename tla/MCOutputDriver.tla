--------------------------- MODULE MCOutputDriver ---------------------------
(* Instances of OutputDriver: a board's worker and a direct writer share a *)
(* runtime; a route's own client writes to the same device.                *)
EXTENDS OutputDriver, TLC

CONSTANTS worker, direct, route, board, own

Shared == (worker :> board) @@ (direct :> board) @@ (route :> own)
=============================================================================
