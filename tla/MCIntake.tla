------------------------------- MODULE MCIntake -------------------------------
(***************************************************************************)
(* A small instance of intake: f is the report and g the income statement  *)
(* of loan l1, and an archive holds g; k is another income statement of    *)
(* it, in a folder that contradicts its type.                              *)
(***************************************************************************)
EXTENDS Intake, TLC

CONSTANTS f, g, k, l1, l2, asr, cf, z, p1, p2

MCSlots == {{asr}, {cf}}
MCContents == [a \in Archives |-> {g}]
MCTypeOf == [d \in Files |-> IF d = f THEN asr ELSE cf]
MCOwner == [d \in Files |-> l1]
HandlerSymmetry == Permutations(Handlers)

=============================================================================
