----------------------------- MODULE MCUwLibrary -----------------------------
(***************************************************************************)
(* Two files of two deals, a row of outcomes, two records at most.         *)
(***************************************************************************)
EXTENDS UwLibrary, TLC

CONSTANTS f1, f2

MCDealOf == [f \in {f1, f2} |-> f]

MCSymmetry == Permutations(Files) \cup Permutations(Labels)

=============================================================================
