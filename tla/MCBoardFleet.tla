---------------------------- MODULE MCBoardFleet -----------------------------
(* One board between two settings and none, a route that changes them, the *)
(* engine and an API caller.  Two runtimes are held at a time at most: the *)
(* registered one and the one before it, or the one being built.           *)
EXTENDS BoardFleet
=============================================================================
