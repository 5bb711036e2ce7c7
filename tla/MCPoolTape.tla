------------------------------ MODULE MCPoolTape ------------------------------
(***************************************************************************)
(* Small instances of a pool: interchangeable references.                  *)
(***************************************************************************)
EXTENDS PoolTape, TLC

CONSTANTS r1, r2, kicked, dropped

RefSymmetry == Permutations(Refs)

=============================================================================
