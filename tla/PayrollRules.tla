---------------------------- MODULE PayrollRules ----------------------------
(***************************************************************************)
(* The gates of the monthly close: src/server/payroll/calculation.ts, and  *)
(* what the settlement of unused annual leave takes from a leave balance:  *)
(* src/server/leave/annual-leave-settlements.ts.                           *)
(***************************************************************************)
EXTENDS LeaveRules

RunStatus == {"draft", "blocked", "calculated", "confirmed", "locked", "released"}

\* The two statuses in which only adjustments are meant to change a run.
Closed(status) == status \in {"locked", "released"}

\* Mutant: without blockers a run opens as calculated, ready to be confirmed.
OpenCalculated(cleared) == IF cleared THEN "calculated" ELSE "blocked"

\* What createDbPayrollRun and its update branch write.
OpenStatus(cleared) == IF cleared THEN "draft" ELSE "blocked"

(***************************************************************************)
(* evaluatePayrollRuleReview: v is the rule version the run was given,     *)
(* config the active version with its change control.  "approved" stands   *)
(* for a passed legal review from official sources.                        *)
(***************************************************************************)
NeedsRecalculation(v, config) == config.recalc /\ v # config.version
\* Mutant: the legal review forgotten.
BlocksStaleOnly(v, config) == NeedsRecalculation(v, config)

BlocksLock(v, config) == NeedsRecalculation(v, config) \/ ~config.approved

CanLockPayroll(cleared, status) == cleared /\ status \in {"calculated", "confirmed"}
CanReleasePayroll(status, reviewPassed) ==
    status = "released" \/ (status = "locked" /\ reviewPassed)

(***************************************************************************)
(* The units prepareDbAnnualLeaveSettlements pays out for a balance: the   *)
(* carried-over units if any are left, or else all that remain.            *)
(***************************************************************************)
UnusedUnits(row) ==
    IF CarryoverAvailable(row) > 0 THEN CarryoverAvailable(row) ELSE row.remaining

(***************************************************************************)
(* The balance after applyAnnualLeaveSettlementBalancesForPayrollLock,     *)
(* from the row it read and the units of one settlement.                   *)
(***************************************************************************)
CloseBalance(seen, units) ==
    LET carried == CarryoverApplied(seen, units)
    IN  [seen EXCEPT !.settled = @ + units,
                     !.carryUsed = @ + carried,
                     !.yearUsed = @ + (units - carried),
                     !.remaining = AtLeastZero(@ - units)]
=============================================================================
