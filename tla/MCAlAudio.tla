----------------------------- MODULE MCAlAudio ------------------------------
(***************************************************************************)
(* AlAudio with two streams.  Files of one block, of two, and of three,    *)
(* the last of which is short; headers that set a format, that have       *)
(* no channels, and that are refused.                                      *)
(***************************************************************************)
EXTENDS AlAudio

MCLengths == {1, 3, 5}

MCHeaders ==
  [id : {"RIFF WAVE fmt data"}, format : {1}, bitsPerSample : {16}, numChannels : {0, 2, 6}]
=============================================================================
