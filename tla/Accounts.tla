------------------------------ MODULE Accounts ------------------------------
(***************************************************************************)
(* What the access settings of a company promise: every call takes effect  *)
(* at once; an update leaves an active owner and sets what it was asked    *)
(* to; an invitation gives roles and lifts no suspension; an employee is   *)
(* never taken from a user.  UserAccess is shown to implement this, except *)
(* by calls that another one overtook.                                     *)
(***************************************************************************)
CONSTANTS Users, Employees, Roles, Status, FirstOwner, Nobody

VARIABLES
    user,       \* the status of each account, "none" before it is invited
    roles,
    link        \* the account of each employee

accounts == <<user, roles, link>>

OwnersLeft == \E u \in Users : user[u] = "active" /\ "owner" \in roles[u]

Init ==
    /\ user = [u \in Users |-> IF u = FirstOwner THEN "active" ELSE "none"]
    /\ roles = [u \in Users |-> IF u = FirstOwner THEN {"owner"} ELSE {}]
    /\ link = [e \in Employees |-> Nobody]

Update(u, status, given) ==
    /\ user[u] # "none"
    /\ user' = [user EXCEPT ![u] = status]
    /\ roles' = [roles EXCEPT ![u] = given]
    /\ OwnersLeft'
    /\ UNCHANGED link

Invite(u, given) ==
    /\ given # {}
    /\ user' = [user EXCEPT ![u] = IF @ = "suspended" THEN @ ELSE "invited"]
    /\ roles' = [roles EXCEPT ![u] = given]
    /\ UNCHANGED link

\* A user has at most one employee; the one linked before is freed.
Without(u) == [e \in Employees |-> IF link[e] = u THEN Nobody ELSE link[e]]

Link(u, e) ==
    /\ user[u] # "none"
    /\ link[e] \in {Nobody, u}
    /\ link' = [Without(u) EXCEPT ![e] = u]
    /\ UNCHANGED <<user, roles>>

Unlink(u) ==
    /\ user[u] # "none"
    /\ link' = Without(u)
    /\ UNCHANGED <<user, roles>>

Next ==
    \E u \in Users :
        \/ \E status \in Status, given \in SUBSET Roles : Update(u, status, given)
        \/ \E given \in SUBSET Roles : Invite(u, given)
        \/ \E e \in Employees : Link(u, e)
        \/ Unlink(u)

Spec == Init /\ [][Next]_accounts
=============================================================================
