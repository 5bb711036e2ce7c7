--------------------------- MODULE MCDealRevision ---------------------------
(***************************************************************************)
(* Instances of DealRevision: an ASR in two versions, a rent roll and      *)
(* another document; the reference n2 is n1 with a (...) at its end.       *)
(***************************************************************************)
EXTENDS DealRevision, TLC

CONSTANTS a1, a2, r1, o1, asr, roll, other, n1, n2, k1, k2, k3, dealref

MCSlotOf == [d \in Docs |-> IF d = r1 THEN roll ELSE IF d = o1 THEN other ELSE asr]

MCNormalName == n1 :> k1 @@ n2 :> k2

MCBareName == n1 :> k1 @@ n2 :> k1 @@ dealref :> k3

Symmetry == Permutations(Procs)

=============================================================================
