----------------------------- MODULE MCLocate ------------------------------
(* A small instance of Locate for TLC. *)
EXTENDS Locate
=============================================================================
