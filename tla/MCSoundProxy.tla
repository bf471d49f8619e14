--------------------------- MODULE MCSoundProxy ----------------------------
(* A small instance of SoundProxy for TLC. *)
EXTENDS SoundProxy
=============================================================================
