------------------------ MODULE MC_StateRecognizer ------------------------
(***************************************************************************)
(* StateRecognizer instantiated for TLC: three addresses, the smallest    *)
(* recent window the code allows (8), the default diversity and hotspot   *)
(* thresholds, and pingpong_min 3 so that a run of pingpong_min + 2       *)
(* alternating samples fits in the window.                                *)
(***************************************************************************)
EXTENDS StateRecognizer

CONSTANTS a, b, c

MCPcs == {a, b, c}

\* The recognizer only compares addresses for equality.
MCSymmetry == Permutations(MCPcs)
=============================================================================
