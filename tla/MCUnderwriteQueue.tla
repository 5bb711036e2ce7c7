-------------------------- MODULE MCUnderwriteQueue --------------------------
(***************************************************************************)
(* Small instances of the queue: one document of each kind that readiness  *)
(* and gathering tell apart, and interchangeable loans.                    *)
(***************************************************************************)
EXTENDS UnderwriteQueue, TLC

CONSTANTS asr, cf, t12, l1, l2

LoanSymmetry == Permutations(Loans)

=============================================================================
