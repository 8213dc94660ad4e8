-------------------------- MODULE MCLeaveApproval ---------------------------
(* Small instances of LeaveApproval for TLC. *)
EXTENDS LeaveApproval

CONSTANTS w1, w2, b1, r1, r2

TwoWorkers == {w1, w2}
OneBalance == {b1}
TwoRequests == {r1, r2}

\* One carried-over and two current-year units.
Carry == [b \in Balances |-> 1]
Year == [b \in Balances |-> 2]

\* One of the two workers grants.
Within == session'[w2].pc # "granting"

MCSpec == Init /\ [][Next /\ Within]_vars
=============================================================================
