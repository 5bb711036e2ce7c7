------------------------------ MODULE LoanWork ------------------------------
(***************************************************************************)
(* What the underwrite queue promises to the rest of the server, without   *)
(* rows, drains or restarts: every loan has at most one piece of work, and *)
(* the server works on at most one loan at a time.                         *)
(***************************************************************************)

CONSTANT Loans

VARIABLE work    \* work[l]: "none", "queued", "working" or "ended"

Init == work = [l \in Loans |-> "none"]

(***************************************************************************)
(* A request for a loan whose work is already queued or under way adds     *)
(* nothing: it is a stuttering step.                                       *)
(***************************************************************************)
Queue(l) ==
    /\ work[l] \in {"none", "ended"}
    /\ work' = [work EXCEPT ![l] = "queued"]

Start(l) ==
    /\ work[l] = "queued"
    /\ \A k \in Loans : work[k] # "working"
    /\ work' = [work EXCEPT ![l] = "working"]

(***************************************************************************)
(* Work ends however it ends: done, partial, failed, or interrupted by a   *)
(* restart.  It never goes back to the queue by itself.                    *)
(***************************************************************************)
End(l) ==
    /\ work[l] = "working"
    /\ work' = [work EXCEPT ![l] = "ended"]

Next == \E l \in Loans : Queue(l) \/ Start(l) \/ End(l)

Spec == Init /\ [][Next]_work

=============================================================================
