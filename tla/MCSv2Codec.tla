----------------------------- MODULE MCSv2Codec -----------------------------
(***************************************************************************)
(* Small instances of Sv2Codec for TLC.  The constants are given by the    *)
(* configurations Sv2Codec_*.cfg.                                          *)
(***************************************************************************)
EXTENDS Sv2Codec, TLC

\* Threads run the same program, so safety runs may identify them.
ThreadSymmetry == Permutations(Threads)

=============================================================================
