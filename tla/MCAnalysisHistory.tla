--------------------------- MODULE MCAnalysisHistory ---------------------------
(***************************************************************************)
(* Model checking of AnalysisHistory.                                      *)
(***************************************************************************)
EXTENDS AnalysisHistory, TLC

HistorySymmetry == Permutations(Workers) \cup Permutations(Sources)
=============================================================================
