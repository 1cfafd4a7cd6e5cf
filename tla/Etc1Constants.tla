---------------------------- MODULE Etc1Constants ----------------------------
(***************************************************************************)
(* What the modules of etc1.glsl share: the error of a thread that has     *)
(* found nothing, and the values of p_quality.                             *)
(***************************************************************************)
FLT_MAX == 1000
cLowQuality == 0
cMediumQuality == 1
cHighQuality == 2
=============================================================================
