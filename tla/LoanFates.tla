------------------------------ MODULE LoanFates ------------------------------
(***************************************************************************)
(* What advancing a pool by tapes promises about each loan's end: a loan   *)
(* leaves the roll (the membership of the pool's current tape) only with a *)
(* recorded disposition, a loan ends once, and closed and disposed exclude *)
(* each other.                                                             *)
(***************************************************************************)

CONSTANT Loans

VARIABLES roll, disposed, closed

vars == <<roll, disposed, closed>>

Init == roll = {} /\ disposed = {} /\ closed = {}

Advance(next) ==
    /\ roll \ next \subseteq disposed
    /\ roll' = next
    /\ UNCHANGED <<disposed, closed>>

Dispose(l) ==
    /\ l \notin disposed \cup closed
    /\ disposed' = disposed \cup {l}
    /\ UNCHANGED <<roll, closed>>

Close(l) ==
    /\ l \notin disposed \cup closed
    /\ closed' = closed \cup {l}
    /\ UNCHANGED <<roll, disposed>>

Next ==
    \/ \E next \in SUBSET Loans : Advance(next)
    \/ \E l \in Loans : Dispose(l) \/ Close(l)

Spec == Init /\ [][Next]_vars

=============================================================================
