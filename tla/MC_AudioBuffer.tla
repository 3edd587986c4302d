--------------------------- MODULE MC_AudioBuffer ---------------------------
(* Instances of AudioBuffer small enough for TLC.  The frames start on both *)
(* sides of the timestamp wrap.                                             *)
EXTENDS AudioBuffer

MCStarts == {6, 7, 0}
MCStartsOrdered == {7, 0}
=============================================================================
