--------------------------- MODULE MCDeviceSignIn ---------------------------
(* Codes, and sessions, differ in nothing but their names. *)
EXTENDS DeviceSignIn, TLC

Symmetry == Permutations(Codes) \cup Permutations(Sessions)
=============================================================================
