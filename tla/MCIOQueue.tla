------------------------------ MODULE MCIOQueue ------------------------------
(***************************************************************************)
(* Model values for IOQueue: three driver binaries, a small array of two   *)
(* entries (SMALL_IO_QUEUE is 5 in the emulator; 2 makes every expandq     *)
(* branch reachable within three queued bytes), vectors of up to two       *)
(* entries of 0..2 bytes.                                                   *)
(***************************************************************************)
EXTENDS IOQueue, TLC

CONSTANTS b1, b2, b3

MCBins == {b1, b2}
MCSymmetry == Permutations(MCBins)
=============================================================================
