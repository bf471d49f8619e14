--------------------------- MODULE MCStreamDist ----------------------------
(* Small instances of StreamDist for TLC. *)
EXTENDS StreamDist, TLC

Symmetry == Permutations(Clients)

Header(channels, size, compress) ==
    [iChannels |-> channels, dSampleRate |-> 44, iFragmentSize |-> size,
     iCompress |-> compress]

\* A raw stereo stream; a mono FLAC stream; a compression nobody knows; and a
\* raw stream whose blocks are no multiple of its channels: of the 5 samples
\* each of 3 channels has one, 2 bytes, but a third of the block is 3 bytes.
RawOnly == {Header(2, 2, 0)}
RawAndFLAC == RawOnly \cup {Header(1, 2, 1)}
AllHeaders == RawAndFLAC \cup {Header(1, 2, 2)}
UnevenToo == AllHeaders \cup {Header(3, 5, 0)}

\* The fragment size of the header, and twice it.
OneFrameSize == {2}
TwoFrameSizes == {2, 4}

\* All channels, and the second one, which the FLAC stream has not got.
AllChannels == {-1}
AllAndSecond == {-1, 1}
=============================================================================
