---------------------------- MODULE MCSessionPool --------------------------
(***************************************************************************)
(* SessionPool for TLC.  Callers are interchangeable, but symmetry is not   *)
(* used: the run checks liveness.                                           *)
(***************************************************************************)
EXTENDS SessionPool

=============================================================================
