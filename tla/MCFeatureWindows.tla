-------------------------- MODULE MCFeatureWindows --------------------------
(* FeatureWindows on a small instance.  The windows are two and three slides   *)
(* long instead of five and sixty: long enough for readings to be in several   *)
(* Track A windows and for Track A to be due between two Track B windows.      *)
EXTENDS FeatureWindows

CONSTANTS d1, d2

=============================================================================
