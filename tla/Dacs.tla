-------------------------------- MODULE Dacs --------------------------------
(* The two boards' amplifiers side by side: a device is built with one of    *)
(* them, TAS58xx chips (Amplifier) or TAS57xx chips (SqueezeAmp).            *)
EXTENDS Amplifier, SqueezeAmp

\* Either amplifier's chips hold what was asked of them.
DacsAsTold == ChainsAsSaved /\ ChipsAsTold
=============================================================================
