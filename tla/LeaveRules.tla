----------------------------- MODULE LeaveRules -----------------------------
(***************************************************************************)
(* The leave arithmetic of src/server/workflows/rules.ts.                  *)
(*                                                                         *)
(* Units are integers: the code keeps days with two decimals and rounds    *)
(* every result with roundUnits, so one unit here is one hundredth of a    *)
(* day and roundUnits is exact.  A balance row is a LeaveBalance of        *)
(* prisma/schema.prisma; "remaining" is a stored column, written by each   *)
(* handler, not a computed one.                                            *)
(***************************************************************************)
EXTENDS Integers

Actions == {"approve", "reject"}
Decisions == {"approved", "rejected"}
ApprovalStatus == {"pending"} \cup Decisions

BalanceRow ==
    [granted : Int, used : Nat, pending : Nat, settled : Nat, remaining : Int,
     carry : Int, carryUsed : Nat, year : Nat, yearUsed : Nat]

\* Mutant: the floor at zero forgotten.
NoFloor(n) == n

AtLeastZero(n) == IF n > 0 THEN n ELSE 0
Lesser(m, n) == IF m < n THEN m ELSE n

(***************************************************************************)
(* A row as the yearly grant and the policy sync create it.                *)
(***************************************************************************)
FreshRow(carried, current) ==
    [granted |-> carried + current, used |-> 0, pending |-> 0, settled |-> 0,
     remaining |-> carried + current,
     carry |-> carried, carryUsed |-> 0, year |-> current, yearUsed |-> 0]

\* What a new year takes over from the stored column: no floor at zero.
CarriedOver(row, limit) == Lesser(row.remaining, limit)

Remaining(row) == row.granted - row.used - row.settled - row.pending

\* Mutant: the check forgets the units other requests have reserved.
CanReserveIgnoringPending(row, units) ==
    units > 0 /\ units <= row.granted - row.used - row.settled

\* reserveLeaveUnits answers ok exactly under this condition.
CanReserve(row, units) == units > 0 /\ units <= Remaining(row)

\* Mutant: the reservation replaces the earlier ones.
ReserveOverwriting(seen, units) ==
    [pending |-> units, remaining |-> Remaining(seen) - units]

(***************************************************************************)
(* The columns createLeaveRequest writes, computed from the row it read.   *)
(***************************************************************************)
ReserveLeaveUnits(seen, units) ==
    [pending |-> seen.pending + units, remaining |-> Remaining(seen) - units]

CarryoverAvailable(row) == AtLeastZero(row.carry - row.carryUsed)
\* Mutant: the current year's units go first.
CurrentYearFirst(row, units) ==
    AtLeastZero(units - AtLeastZero(row.year - row.yearUsed))
CarryoverApplied(row, units) == Lesser(CarryoverAvailable(row), units)

\* Mutant: a rejection keeps the units reserved.
SettleKeepingRejected(seen, units, action) ==
    LET taken   == IF action = "approve" THEN units ELSE 0
        carried == IF action = "approve" THEN CarryoverApplied(seen, units) ELSE 0
        next    == [seen EXCEPT !.used = @ + taken,
                                !.pending = AtLeastZero(@ - taken)]
    IN  [used      |-> next.used,
         pending   |-> next.pending,
         carryUsed |-> seen.carryUsed + carried,
         yearUsed  |-> seen.yearUsed + taken - carried,
         remaining |-> Remaining(next)]

(***************************************************************************)
(* The columns decideApproval writes, computed from the row it read.  An   *)
(* approval consumes the carried-over units first (allocateLeaveUsage).    *)
(***************************************************************************)
SettleLeaveUnits(seen, units, action) ==
    LET taken   == IF action = "approve" THEN units ELSE 0
        carried == IF action = "approve" THEN CarryoverApplied(seen, units) ELSE 0
        next    == [seen EXCEPT !.used = @ + taken,
                                !.pending = AtLeastZero(@ - units)]
    IN  [used      |-> next.used,
         pending   |-> next.pending,
         carryUsed |-> seen.carryUsed + carried,
         yearUsed  |-> seen.yearUsed + taken - carried,
         remaining |-> Remaining(next)]

\* Mutant: an approved task may be decided again.
CanDecideAgain(status) == status \notin {"none", "rejected"}

\* nextApprovalStatus: defined only on a pending task.
CanDecide(status) == status = "pending"
NextApprovalStatus(action) == IF action = "approve" THEN "approved" ELSE "rejected"
=============================================================================
