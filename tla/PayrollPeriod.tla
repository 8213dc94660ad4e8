--------------------------- MODULE PayrollPeriod ---------------------------
(***************************************************************************)
(* What the monthly close promises: the life of one payroll period as if   *)
(* every call took effect at once.  The figures are calculated together,   *)
(* confirmed as they are, locked as confirmed and released as locked, and  *)
(* an adjustment is decided once.  A run can be opened again at any time,  *)
(* as createDbPayrollRun does.                                             *)
(***************************************************************************)
CONSTANTS Employees, Adjustments

VARIABLES
    status,         \* of the run, "none" before there is one
    figures,        \* the calculated items
    adjusted,       \* the items of applied adjustments
    slips,          \* the items each payslip adds up, {} if there is none
    confirmed,      \* the figures HR confirmed
    request         \* the payroll adjustments

period == <<status, figures, adjusted, slips, confirmed, request>>

Init ==
    /\ status = "none"
    /\ figures = {} /\ adjusted = {} /\ confirmed = {}
    /\ slips = [e \in Employees |-> {}]
    /\ request = [a \in Adjustments |-> [status |-> "none"]]

Open ==
    /\ status' \in {"draft", "blocked"}
    /\ UNCHANGED <<figures, adjusted, slips, confirmed, request>>

Calculate(row) ==
    /\ status # "none"
    /\ status' = "calculated"
    /\ figures' = {row} /\ adjusted' = {}
    /\ UNCHANGED <<slips, confirmed, request>>

Confirm ==
    /\ status \in {"calculated", "confirmed"}
    /\ status' = "confirmed"
    /\ confirmed' = figures
    /\ UNCHANGED <<figures, adjusted, slips, request>>

\* Only what was confirmed is locked.
Lock ==
    /\ status = "confirmed" /\ figures = confirmed
    /\ status' = "locked"
    /\ UNCHANGED <<figures, adjusted, slips, confirmed, request>>

Release ==
    /\ status \in {"locked", "released"} /\ figures = confirmed
    /\ status' = "released"
    /\ slips' = [e \in Employees |-> figures \cup {row \in adjusted : row.emp = e}]
    /\ UNCHANGED <<figures, adjusted, confirmed, request>>

Request(a, e) ==
    /\ request[a].status = "none"
    /\ request' = [request EXCEPT ![a] = [status |-> "pending", emp |-> e]]
    /\ UNCHANGED <<status, figures, adjusted, slips, confirmed>>

Reject(a) ==
    /\ request[a].status = "pending"
    /\ request' = [request EXCEPT ![a].status = "rejected"]
    /\ UNCHANGED <<status, figures, adjusted, slips, confirmed>>

Apply(a, row) ==
    /\ request[a].status = "pending" /\ row.adj = a /\ row.emp = request[a].emp
    /\ request' = [request EXCEPT ![a].status = "applied"]
    /\ adjusted' = adjusted \cup {row}
    /\ slips' = [slips EXCEPT ![row.emp] = IF @ # {} THEN @ \cup {row} ELSE @]
    /\ UNCHANGED <<status, figures, confirmed>>

Next ==
    \/ Open \/ Confirm \/ Lock \/ Release
    \/ \E row \in figures' : Calculate(row)
    \/ \E a \in Adjustments :
          \/ \E e \in Employees : Request(a, e)
          \/ Reject(a)
          \/ \E row \in adjusted' : Apply(a, row)

Spec == Init /\ [][Next]_period
=============================================================================
