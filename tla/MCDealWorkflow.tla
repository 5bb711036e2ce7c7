-------------------------- MODULE MCDealWorkflow --------------------------
(***************************************************************************)
(* An instance of DealWorkflow: a deal with two overlays.                  *)
(***************************************************************************)
EXTENDS DealWorkflow

CONSTANTS d1, d2, a1, k1, k2, t1, t2

MCKinds == {"SUBMIT_TO_COMMITTEE", "APPROVE_DEAL", "OVERRIDE_DECISION"}

Symmetry == Permutations(Keys) \cup Permutations(Texts)

=============================================================================
