------------------------------ MODULE MCFileSrv -----------------------------
(* Small instances of FileSrv for TLC. *)
EXTENDS FileSrv, TLC

SoundAndFLAC == {"snd", "flac"}
Sound == {"snd"}

Symmetry == Permutations(Clients)
=============================================================================
