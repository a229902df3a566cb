--------------------------- MODULE MCFuzzSession ---------------------------
(***************************************************************************)
(* TLC instance of FuzzSession: see the .cfg files for the bounds.         *)
(***************************************************************************)
EXTENDS FuzzSession
=============================================================================
