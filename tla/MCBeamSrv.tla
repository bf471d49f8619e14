----------------------------- MODULE MCBeamSrv -----------------------------
(* A small instance of BeamSrv for TLC. *)
EXTENDS BeamSrv
=============================================================================
