---------------------------- MODULE MCDealAccess ----------------------------
(***************************************************************************)
(* An instance of DealAccess: an originator and a buyer or two.            *)
(***************************************************************************)
EXTENDS DealAccess, TLC

CONSTANTS o, b1, b2, p1, p2, t1, t2, c1, c2

MCRole == [u \in Users |-> IF u = o THEN "ORIGINATOR" ELSE "BUYER"]

MCSeeded == {o}

Symmetry ==
    Permutations(Users \ {o}) \cup Permutations(Pools)
      \cup Permutations(Tokens) \cup Permutations(Calls)

=============================================================================
