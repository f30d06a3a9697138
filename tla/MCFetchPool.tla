---------------------------- MODULE MCFetchPool -----------------------------
(* A plugin that answers and one that is wedged, on a pool of one worker:  *)
(* the engine's page refers to both, a preview in the editor to the second.*)
EXTENDS FetchPool, TLC

CONSTANTS engine, preview, weather, stuck

BothNeed == (engine :> {weather, stuck}) @@ (preview :> {stuck})

(* A fetch of the wedged plugin can be cancelled and still held when the   *)
(* next is submitted.                                                      *)
Three == {<<weather, 1>>, <<stuck, 1>>, <<stuck, 2>>}
=============================================================================
