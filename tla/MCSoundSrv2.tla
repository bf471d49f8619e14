---------------------------- MODULE MCSoundSrv2 -----------------------------
(* Small instances of SoundSrv2 for TLC. *)
EXTENDS SoundSrv2, TLC

\* None, FLAC, and one nobody knows.
AllCompressions == {0, 1, 2}
OnlyFLAC == {1}

\* A compressed block may be smaller or larger than FragSize.
LargeFrames == {3}
SmallAndLargeFrames == {1, 3}
=============================================================================
