------------------------------ MODULE MCUIServ ------------------------------
(* A small instance of UIServ for TLC. *)
EXTENDS UIServ
=============================================================================
