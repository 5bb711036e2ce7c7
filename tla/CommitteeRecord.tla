--------------------------- MODULE CommitteeRecord ---------------------------
(***************************************************************************)
(* What the committee's record promises, without stores, clocks or chains: *)
(* each deal has a history to which actions are only ever appended, and a  *)
(* state moved by each action as it is taken.  An override is no decision: *)
(* it leaves a decided deal as it is, and puts one that nothing was        *)
(* decided on before the committee.                                        *)
(***************************************************************************)
EXTENDS Sequences

CONSTANTS
    Roots,
    Kinds,      \* what the committee may do
    StateOf     \* StateOf[k]: the state that a decision of kind k puts a deal in

VARIABLES
    history,    \* history[r]: the actions on deal r, in the order taken
    state       \* state[r]: where deal r stands

Init ==
    /\ history = [r \in Roots |-> <<>>]
    /\ state = [r \in Roots |-> "DRAFT"]

Decided(r) ==
    \E i \in DOMAIN history[r] : history[r][i] \in DOMAIN StateOf

Take(r, k) ==
    /\ history' = [history EXCEPT ![r] = Append(@, k)]
    /\ state' = [state EXCEPT ![r] =
         IF k \in DOMAIN StateOf THEN StateOf[k]
         ELSE IF Decided(r) THEN @ ELSE "IN_COMMITTEE"]

(***************************************************************************)
(* Work on a draft begins with its first overlay.                          *)
(***************************************************************************)
Begin(r) ==
    /\ state[r] = "DRAFT"
    /\ state' = [state EXCEPT ![r] = "IN_REVIEW"]
    /\ UNCHANGED history

Next == \E r \in Roots : Begin(r) \/ \E k \in Kinds : Take(r, k)

Spec == Init /\ [][Next]_<<history, state>>

=============================================================================
