--------------------------- MODULE MCFormApproval ---------------------------
(* Small instances of FormApproval for TLC. *)
EXTENDS FormApproval, TLC

CONSTANTS w1, w2, w3, s1, staff, boss, hr

TwoWorkers == {w1, w2}
ThreeWorkers == {w1, w2, w3}
OneSubmission == {s1}
People == {staff, boss, hr}
Hr == {hr}

\* The manager of the staff member reports to HR, who reports to nobody.
Managers == [e \in People |-> CASE e = staff -> {boss} [] e = boss -> {hr} [] OTHER -> {}]

\* What provisioning and the form builder create: HR review, manager review, or
\* manager review followed by an HR review with or without a condition.
Offered == {"hr", "manager", "both", "both_if"}
Types == [t \in Offered |-> CASE t = "hr" -> <<"hr_admin">>
                              [] t = "manager" -> <<"direct_manager">>
                              [] OTHER -> <<"direct_manager", "hr_admin">>]
Asked == [t \in Offered |-> IF t = "both_if" THEN {2} ELSE {}]

Symmetry == Permutations(Workers)
=============================================================================
