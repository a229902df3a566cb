------------------------------ MODULE MCTrackLog ------------------------------
(***************************************************************************)
(* TLC instance of TrackLog: reproducers, and the artifacts they are for.  *)
(***************************************************************************)
EXTENDS TrackLog

ReproducersSpec == TrackInit /\ [][Reproducers]_trackVars
=============================================================================
