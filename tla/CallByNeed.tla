----------------------------- MODULE CallByNeed -----------------------------
(***************************************************************************)
(* What a thunk promises to the evaluators that share it: it is claimed    *)
(* once, by one evaluator, and it is settled once, by a step of its own,   *)
(* after which every evaluator reads the same outcome for ever.  Which     *)
(* evaluators wait, how they are woken and what they are told when they    *)
(* give up is the business of ThunkMachine, which implements this module.  *)
(***************************************************************************)
CONSTANTS
    Thunks,      \* the shared thunks
    Evaluators,  \* the evaluators that force them
    Outcomes     \* what a settled thunk holds

VARIABLE cell    \* the state of every thunk

Init == cell = [t \in Thunks |-> [tag |-> "Suspended"]]

Claim(e, t) ==
    /\ cell[t] = [tag |-> "Suspended"]
    /\ cell' = [cell EXCEPT ![t] = [tag |-> "Evaluating", owner |-> e]]

Settle(e, t) ==
    /\ cell[t] = [tag |-> "Evaluating", owner |-> e]
    /\ \E outcome \in Outcomes : cell' = [cell EXCEPT ![t] = outcome]

Next == \E e \in Evaluators, t \in Thunks : Claim(e, t) \/ Settle(e, t)

Spec == Init /\ [][Next]_cell
=============================================================================
