---------------------------- MODULE MC_SeekGates ----------------------------
(* The seek gates for TLC.  With 64 positions the first track starts before *)
(* the counter wraps, the second far behind it and the third in between, so *)
(* that seeks go forwards over the wrap, and backwards.                     *)
EXTENDS SeekGates

MCBases      == {60, 12, 4}
MCShortBases == {60, 12}
=============================================================================
