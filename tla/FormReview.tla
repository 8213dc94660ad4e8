----------------------------- MODULE FormReview -----------------------------
(***************************************************************************)
(* What a custom form promises: the reviews its template asks for are      *)
(* given one after the other in step order, the last one approves the      *)
(* form, and a refusal at any of them ends it.  FormApproval is shown to   *)
(* implement this as long as no two decisions of one task overlap.         *)
(***************************************************************************)
EXTENDS Integers

CONSTANTS Submissions, StepOrders

VARIABLE review     \* per submission: its state and the reviews still to give

Unfiled == [state |-> "none", todo |-> {}]
Init == review = [s \in Submissions |-> Unfiled]

File(s, steps) ==
    /\ review[s] = Unfiled
    /\ steps # {}
    /\ review' = [review EXCEPT ![s] = [state |-> "pending", todo |-> steps]]

Pass(s, step) ==
    /\ review[s].state = "pending"
    /\ step \in review[s].todo
    /\ \A other \in review[s].todo : step <= other
    /\ review' = [review EXCEPT ![s] =
                    [state |-> IF review[s].todo = {step} THEN "approved" ELSE "pending",
                     todo |-> review[s].todo \ {step}]]

Refuse(s) ==
    /\ review[s].state = "pending"
    /\ review' = [review EXCEPT ![s] = [state |-> "rejected", todo |-> review[s].todo]]

Next ==
    \E s \in Submissions :
        \/ \E steps \in SUBSET StepOrders : File(s, steps)
        \/ \E step \in StepOrders : Pass(s, step)
        \/ Refuse(s)

Spec == Init /\ [][Next]_review
=============================================================================
