----------------------------- MODULE MCBatchQueue -----------------------------
(***************************************************************************)
(* Two files of one deal in a batch that is uploaded twice, beside single  *)
(* uploads of either.                                                      *)
(***************************************************************************)
EXTENDS BatchQueue

CONSTANTS f1, f2

MCDealOf == [f \in {f1, f2} |-> f1]

MCBatches == {<<f1, f2>>}

=============================================================================
