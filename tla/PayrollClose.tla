---------------------------- MODULE PayrollClose ----------------------------
(***************************************************************************)
(* The monthly close of one payroll period: src/server/payroll/db-store.ts *)
(* (create, resolve, recalculate, confirm, lock, release), the adjustments *)
(* of src/server/payroll/adjustments.ts, the settlements of unused annual  *)
(* leave of src/server/leave/annual-leave-settlements.ts and the rule      *)
(* versions of src/server/rules/settings.ts as far as the close reads them.*)
(*                                                                         *)
(* Every operation reads the run outside its transaction, checks what it   *)
(* read, and then updates the run by its id alone.  A session below is one *)
(* such call, split at that gap and where its transaction waits for locks. *)
(*                                                                         *)
(* Amounts are formal sums: a total, or the pay of a payslip, is the set   *)
(* of payroll items it adds up.  The rows one createMany inserts are one   *)
(* element: they are created and deleted together.  Every employee has     *)
(* figures in every calculation.                                           *)
(***************************************************************************)
EXTENDS PayrollRules, FiniteSets

CONSTANTS
    Workers,        \* server requests that may be in progress together
    Employees,      \* the active employees with a salary profile
    Adjustments,    \* identifiers of payroll adjustments: bounds their number
    Reasons,        \* the reasons a settlement can have
    Carried,        \* carried-over annual leave each employee starts with
    Current,        \* current-year annual leave each employee starts with
    Calls,          \* the calls that are made
    MaxRows,        \* bounds the calculations and applied adjustments
    MaxVersion,     \* bounds the rule versions
    MaxSettled      \* bounds the units settled on one balance

ASSUME LeaveAssumption == Carried \in [Employees -> Nat] /\ Current \in [Employees -> Nat]
ASSUME BoundsAssumption == {MaxRows, MaxVersion, MaxSettled} \subseteq Nat

VARIABLES
    run,            \* the PayrollRun of the period
    items,          \* its PayrollItem rows
    slip,           \* per employee: the items its payslip adds up, {} if none
    adjustment,     \* the PayrollAdjustment rows
    settlement,     \* the AnnualLeaveSettlement of each employee and reason
    leave,          \* the annual LeaveBalance of each employee
    config,         \* the active rule version
    work,           \* approvals or attendance exceptions are pending
    session,        \* the call each worker has in progress
    serial,         \* payroll rows inserted so far
    confirmed,      \* history: the items HR confirmed
    raced           \* history: calls that committed over a change they missed

vars == <<run, items, slip, adjustment, settlement, leave, config, work,
          session, serial, confirmed, raced>>

Idle == [pc |-> "idle"]
NoRun == [status |-> "none"]
NoAdjustment == [status |-> "none"]
NoSettlement == [status |-> "none", units |-> 0]

Version == 0 .. MaxVersion
Config == [version : Version, approved : BOOLEAN, recalc : BOOLEAN, marked : Version]
RowId == 1 .. MaxRows
Due == Employees \X Reasons \X Nat
Row ==
    [id : RowId, kind : {"calculated"}, version : Version, paid : SUBSET Due]
    \cup [id : RowId, kind : {"adjustment"}, adj : Adjustments, emp : Employees]

Session ==
    {Idle}
    \cup [pc : {"creating"}, cleared : BOOLEAN, version : Version]
    \cup [pc : {"blocking"}]
    \cup [pc : {"locking"}, from : RunStatus, version : Version, rules : Config]
    \cup [pc : {"calculating"}, version : Version, paid : SUBSET Due]
    \cup [pc : {"deleting", "replacing"}, version : Version, paid : SUBSET Due,
          doomed : SUBSET Row]
    \cup [pc : {"confirming", "releasing"}, seen : SUBSET Row]
    \cup [pc : {"closing"}, from : RunStatus, version : Version, rules : Config,
          included : SUBSET Due, seen : [Employees -> BalanceRow]]
    \cup [pc : {"preparing"}, reason : Reasons, unused : [Employees -> Nat]]
    \cup [pc : {"requesting"}, adj : Adjustments, emp : Employees]
    \cup [pc : {"deciding"}, adj : Adjustments, action : Actions,
          saw : {"pending", "applied", "rejected"}]

TypeOK ==
    /\ run \in {NoRun} \cup [status : RunStatus, cleared : BOOLEAN,
                             version : Version, net : SUBSET Row]
    /\ items \in SUBSET Row
    /\ slip \in [Employees -> SUBSET Row]
    /\ adjustment \in [Adjustments -> {NoAdjustment} \cup
                         [status : {"pending", "applied", "rejected"}, emp : Employees]]
    /\ settlement \in [Employees \X Reasons -> {NoSettlement} \cup
                         [status : {"draft", "included"}, units : Nat \ {0}]]
    /\ leave \in [Employees -> BalanceRow] /\ \A e \in Employees : leave[e].remaining \in Nat
    /\ config \in Config
    /\ work \in BOOLEAN
    /\ session \in [Workers -> Session]
    /\ serial \in 0 .. MaxRows
    /\ confirmed \in SUBSET Row
    /\ raced \in SUBSET {"recalculate", "settle", "confirm", "lock", "release", "decide"}

Init ==
    /\ run = NoRun
    /\ items = {}
    /\ slip = [e \in Employees |-> {}]
    /\ adjustment = [a \in Adjustments |-> NoAdjustment]
    /\ settlement = [k \in Employees \X Reasons |-> NoSettlement]
    /\ leave = [e \in Employees |-> FreshRow(Carried[e], Current[e])]
    /\ config = [version |-> 0, approved |-> TRUE, recalc |-> FALSE, marked |-> 0]
    /\ work \in BOOLEAN
    /\ session = [w \in Workers |-> Idle]
    /\ serial = 0
    /\ confirmed = {}
    /\ raced = {}

Call(w, name) == name \in Calls /\ session[w] = Idle
Become(w, s) == session' = [session EXCEPT ![w] = s]
Missed(name, changed) == raced' = IF changed THEN raced \cup {name} ELSE raced

Calculated(rows) == {row \in rows : row.kind = "calculated"}
Applied(rows, a) == {row \in rows : row.kind = "adjustment" /\ row.adj = a}
\* groupItemsByEmployee
ItemsOf(rows, e) == {row \in rows : row.kind = "adjustment" => row.emp = e}

-----------------------------------------------------------------------------
(* createDbPayrollRun *)

\* The blockers and the active rule version are read before the transaction.
ReadBlockers(w) ==
    /\ Call(w, "create")
    /\ Become(w, [pc |-> "creating", cleared |-> ~work, version |-> config.version])
    /\ UNCHANGED <<run, items, slip, adjustment, settlement, leave, config, work,
                   serial, confirmed, raced>>

\* An upsert: an existing run of the period is opened again, whatever its status.
CreateRun(w) ==
    LET s == session[w]
    IN  /\ s.pc = "creating"
        /\ run' = IF run = NoRun
                  THEN [status |-> OpenStatus(s.cleared), cleared |-> s.cleared,
                        version |-> s.version, net |-> {}]
                  ELSE [run EXCEPT !.status = OpenStatus(s.cleared), !.cleared = s.cleared]
        /\ Become(w, Idle)
        /\ UNCHANGED <<items, slip, adjustment, settlement, leave, config, work,
                       serial, confirmed, raced>>

(* resolveDbPayrollBlockers: it reads only the id of the run. *)
ResolveBlockers(w) ==
    /\ Call(w, "resolve")
    /\ run # NoRun
    /\ run' = [run EXCEPT !.status = "draft", !.cleared = TRUE]
    /\ UNCHANGED <<items, slip, adjustment, settlement, leave, config, work,
                   session, serial, confirmed, raced>>

-----------------------------------------------------------------------------
(* recalculateDbPayrollRun; without a run it is createDbPayrollRun *)

\* Mutant: only drafts are paid, included settlements are taken as done.
DraftsOnly == {<<k[1], k[2], settlement[k].units>> :
                  k \in {j \in Employees \X Reasons : settlement[j].status = "draft"}}

ToPay == {<<k[1], k[2], settlement[k].units>> :
             k \in {j \in Employees \X Reasons : settlement[j] # NoSettlement}}

ReadBlockedRun(w) ==
    /\ Call(w, "recalculate")
    /\ run # NoRun /\ ~run.cleared
    /\ Become(w, [pc |-> "blocking"])
    /\ UNCHANGED <<run, items, slip, adjustment, settlement, leave, config, work,
                   serial, confirmed, raced>>

BlockRun(w) ==
    /\ session[w].pc = "blocking"
    /\ run' = [run EXCEPT !.status = "blocked"]
    /\ Become(w, Idle)
    /\ UNCHANGED <<items, slip, adjustment, settlement, leave, config, work,
                   serial, confirmed, raced>>

\* The salaries, the active rules and the settlements; the status is not looked at.
ReadSalaries(w) ==
    /\ Call(w, "recalculate")
    /\ run # NoRun /\ run.cleared
    /\ Become(w, [pc |-> "calculating", version |-> config.version, paid |-> ToPay])
    /\ UNCHANGED <<run, items, slip, adjustment, settlement, leave, config, work,
                   serial, confirmed, raced>>

(***************************************************************************)
(* deleteMany sees the rows that are committed when the statement starts,  *)
(* then waits for the locks of those rows another deleteMany holds.        *)
(***************************************************************************)
DeleteItems(w) ==
    LET s == session[w]
    IN  /\ s.pc = "calculating"
        /\ Become(w, [pc |-> "deleting", version |-> s.version, paid |-> s.paid,
                      doomed |-> items])
        /\ UNCHANGED <<run, items, slip, adjustment, settlement, leave, config, work,
                       serial, confirmed, raced>>

LockItems(w) ==
    LET s == session[w]
    IN  /\ s.pc = "deleting"
        /\ \A v \in Workers : session[v].pc = "replacing" =>
                                 session[v].doomed \cap s.doomed = {}
        /\ Become(w, [s EXCEPT !.pc = "replacing", !.doomed = @ \cap items])
        /\ UNCHANGED <<run, items, slip, adjustment, settlement, leave, config, work,
                       serial, confirmed, raced>>

\* Mutant: the totals are incremented instead of replaced.
RecalculateOnTop(w) ==
    LET s == session[w]
        row == [id |-> serial + 1, kind |-> "calculated",
                version |-> s.version, paid |-> s.paid]
    IN  /\ s.pc = "replacing"
        /\ serial < MaxRows
        /\ items' = (items \ s.doomed) \cup {row}
        /\ settlement' = [k \in Employees \X Reasons |->
                            IF settlement[k].status = "draft"
                            THEN [settlement[k] EXCEPT !.status = "included"]
                            ELSE settlement[k]]
        /\ run' = [run EXCEPT !.status = "calculated", !.version = s.version,
                              !.net = @ \cup {row}]
        /\ serial' = serial + 1
        /\ raced' = raced \cup (IF items # s.doomed THEN {"recalculate"} ELSE {})
                          \cup (IF ToPay # s.paid THEN {"settle"} ELSE {})
        /\ Become(w, Idle)
        /\ UNCHANGED <<slip, adjustment, leave, config, work, confirmed>>

\* createMany, the settlements still in draft, the totals and the status.
Recalculate(w) ==
    LET s == session[w]
        row == [id |-> serial + 1, kind |-> "calculated",
                version |-> s.version, paid |-> s.paid]
    IN  /\ s.pc = "replacing"
        /\ serial < MaxRows
        /\ items' = (items \ s.doomed) \cup {row}
        /\ settlement' = [k \in Employees \X Reasons |->
                            IF settlement[k].status = "draft"
                            THEN [settlement[k] EXCEPT !.status = "included"]
                            ELSE settlement[k]]
        /\ run' = [run EXCEPT !.status = "calculated", !.version = s.version, !.net = {row}]
        /\ serial' = serial + 1
        /\ raced' = raced \cup (IF items # s.doomed THEN {"recalculate"} ELSE {})
                          \cup (IF ToPay # s.paid THEN {"settle"} ELSE {})
        /\ Become(w, Idle)
        /\ UNCHANGED <<slip, adjustment, leave, config, work, confirmed>>

-----------------------------------------------------------------------------
(* confirmDbPayrollRun *)

ReadForConfirm(w) ==
    /\ Call(w, "confirm")
    /\ run.status \in {"calculated", "confirmed"}
    /\ Become(w, [pc |-> "confirming", seen |-> items])
    /\ UNCHANGED <<run, items, slip, adjustment, settlement, leave, config, work,
                   serial, confirmed, raced>>

ConfirmRun(w) ==
    LET s == session[w]
    IN  /\ s.pc = "confirming"
        /\ run' = [run EXCEPT !.status = "confirmed"]
        /\ confirmed' = s.seen
        /\ Missed("confirm", \/ run.status \notin {"calculated", "confirmed"}
                             \/ Calculated(items) # Calculated(s.seen))
        /\ Become(w, Idle)
        /\ UNCHANGED <<items, slip, adjustment, settlement, leave, config, work, serial>>

-----------------------------------------------------------------------------
(* lockDbPayrollRun *)

\* Mutant: canLockPayroll alone, which also takes calculated runs.
ReadForLockUnconfirmed(w) ==
    /\ Call(w, "lock")
    /\ run # NoRun
    /\ ~BlocksLock(run.version, config)
    /\ CanLockPayroll(run.cleared, run.status)
    /\ Become(w, [pc |-> "locking", from |-> run.status, version |-> run.version,
                  rules |-> config])
    /\ UNCHANGED <<run, items, slip, adjustment, settlement, leave, config, work,
                   serial, confirmed, raced>>

ReadForLock(w) ==
    /\ Call(w, "lock")
    /\ run.status = "confirmed"
    /\ ~BlocksLock(run.version, config)
    /\ CanLockPayroll(run.cleared, run.status)
    /\ Become(w, [pc |-> "locking", from |-> run.status, version |-> run.version,
                  rules |-> config])
    /\ UNCHANGED <<run, items, slip, adjustment, settlement, leave, config, work,
                   serial, confirmed, raced>>

(***************************************************************************)
(* applyAnnualLeaveSettlementBalancesForPayrollLock reads the included     *)
(* settlements with their balances in one statement of the transaction.    *)
(***************************************************************************)
ReadSettlements(w) ==
    /\ session[w].pc = "locking"
    /\ Become(w, [pc |-> "closing", from |-> session[w].from,
                  version |-> session[w].version, rules |-> session[w].rules,
                  seen |-> leave,
                  included |-> {d \in ToPay : settlement[<<d[1], d[2]>>].status = "included"}])
    /\ UNCHANGED <<run, items, slip, adjustment, settlement, leave, config, work,
                   serial, confirmed, raced>>

(***************************************************************************)
(* Each settlement in turn is applied to the row read at the start and     *)
(* written as absolute columns, so of two settlements of one balance the   *)
(* one applied last stays.  Their order is not specified.                  *)
(***************************************************************************)
LockRun(w) ==
    LET s == session[w]
        UnitsFor(e) == {d[3] : d \in {c \in s.included : c[1] = e}}
        closing == {e \in Employees : UnitsFor(e) # {}}
    IN  /\ s.pc = "closing"
        /\ \E last \in [closing -> UNION {UnitsFor(e) : e \in closing}] :
             /\ \A e \in closing : last[e] \in UnitsFor(e)
             /\ leave' = [e \in Employees |->
                            IF e \in closing THEN CloseBalance(s.seen[e], last[e])
                            ELSE leave[e]]
             /\ \A e \in closing : leave'[e].settled <= MaxSettled
        /\ run' = [run EXCEPT !.status = "locked"]
        /\ Missed("lock", \/ run.status # s.from
                          \/ run.version # s.version \/ config # s.rules)
        /\ Become(w, Idle)
        /\ UNCHANGED <<items, slip, adjustment, settlement, config, work, serial, confirmed>>

-----------------------------------------------------------------------------
(* releaseDbPayslips *)

\* The run is read together with its items.
ReadForRelease(w) ==
    /\ Call(w, "release")
    /\ run # NoRun
    /\ CanReleasePayroll(run.status, ~BlocksLock(run.version, config))
    /\ Become(w, [pc |-> "releasing", seen |-> items])
    /\ UNCHANGED <<run, items, slip, adjustment, settlement, leave, config, work,
                   serial, confirmed, raced>>

ReleasePayslips(w) ==
    LET s == session[w]
    IN  /\ s.pc = "releasing"
        /\ slip' = [e \in Employees |->
                      IF ItemsOf(s.seen, e) # {} THEN ItemsOf(s.seen, e) ELSE slip[e]]
        /\ run' = [run EXCEPT !.status = "released"]
        /\ Missed("release", ~Closed(run.status) \/ items # s.seen)
        /\ Become(w, Idle)
        /\ UNCHANGED <<items, adjustment, settlement, leave, config, work,
                       serial, confirmed>>

-----------------------------------------------------------------------------
(* prepareDbAnnualLeaveSettlements *)

ReadBalances(w, reason) ==
    /\ Call(w, "prepare")
    /\ run # NoRun /\ ~Closed(run.status)
    /\ Become(w, [pc |-> "preparing", reason |-> reason,
                  unused |-> [e \in Employees |->
                      IF leave[e].remaining > 0 THEN UnusedUnits(leave[e]) ELSE 0]])
    /\ UNCHANGED <<run, items, slip, adjustment, settlement, leave, config, work,
                   serial, confirmed, raced>>

(***************************************************************************)
(* The drafts of the same reason are replaced.  One that is included stays *)
(* and makes the insertion fail on the unique key (Abort).                 *)
(***************************************************************************)
PrepareSettlements(w) ==
    LET s == session[w]
        k(e) == <<e, s.reason>>
    IN  /\ s.pc = "preparing"
        /\ \A e \in Employees : s.unused[e] > 0 => settlement[k(e)].status # "included"
        /\ settlement' = [p \in Employees \X Reasons |->
              IF p[2] # s.reason \/ settlement[p].status = "included" THEN settlement[p]
              ELSE IF s.unused[p[1]] > 0 THEN [status |-> "draft", units |-> s.unused[p[1]]]
              ELSE NoSettlement]
        /\ Become(w, Idle)
        /\ UNCHANGED <<run, items, slip, adjustment, leave, config, work,
                       serial, confirmed, raced>>

-----------------------------------------------------------------------------
(* requestDbPayrollAdjustment and decideDbPayrollAdjustment *)

ReadForAdjustment(w, a, e) ==
    /\ Call(w, "adjust")
    /\ Closed(run.status)
    /\ adjustment[a] = NoAdjustment
    /\ \A v \in Workers : ~(session[v].pc = "requesting" /\ session[v].adj = a)
    /\ Become(w, [pc |-> "requesting", adj |-> a, emp |-> e])
    /\ UNCHANGED <<run, items, slip, adjustment, settlement, leave, config, work,
                   serial, confirmed, raced>>

RequestAdjustment(w) ==
    LET s == session[w]
    IN  /\ s.pc = "requesting"
        /\ adjustment' = [adjustment EXCEPT ![s.adj] = [status |-> "pending", emp |-> s.emp]]
        /\ Become(w, Idle)
        /\ UNCHANGED <<run, items, slip, settlement, leave, config, work,
                       serial, confirmed, raced>>

\* Mutant: a decided adjustment can be decided again.
ReadAnyAdjustment(w, a, action) ==
    /\ Call(w, "decide")
    /\ adjustment[a] # NoAdjustment
    /\ Closed(run.status)
    /\ Become(w, [pc |-> "deciding", adj |-> a, action |-> action,
                  saw |-> adjustment[a].status])
    /\ UNCHANGED <<run, items, slip, adjustment, settlement, leave, config, work,
                   serial, confirmed, raced>>

ReadAdjustment(w, a, action) ==
    /\ Call(w, "decide")
    /\ adjustment[a].status = "pending"
    /\ Closed(run.status)
    /\ Become(w, [pc |-> "deciding", adj |-> a, action |-> action,
                  saw |-> adjustment[a].status])
    /\ UNCHANGED <<run, items, slip, adjustment, settlement, leave, config, work,
                   serial, confirmed, raced>>

RejectAdjustment(w) ==
    LET s == session[w]
    IN  /\ s.pc = "deciding" /\ s.action = "reject"
        /\ adjustment' = [adjustment EXCEPT ![s.adj].status = "rejected"]
        /\ Missed("decide", adjustment[s.adj].status # s.saw)
        /\ Become(w, Idle)
        /\ UNCHANGED <<run, items, slip, settlement, leave, config, work, serial, confirmed>>

\* Mutant: the payslip keeps its old amounts.
ApplyWithoutPayslip(w) ==
    LET s == session[w]
        e == adjustment[s.adj].emp
        row == [id |-> serial + 1, kind |-> "adjustment", adj |-> s.adj, emp |-> e]
    IN  /\ s.pc = "deciding" /\ s.action = "approve"
        /\ serial < MaxRows
        /\ items' = items \cup {row}
        /\ run' = [run EXCEPT !.net = @ \cup {row}]
        /\ adjustment' = [adjustment EXCEPT ![s.adj].status = "applied"]
        /\ serial' = serial + 1
        /\ Missed("decide", adjustment[s.adj].status # s.saw)
        /\ Become(w, Idle)
        /\ UNCHANGED <<slip, settlement, leave, config, work, confirmed>>

\* The item, and increments of the totals and of the payslip if there is one.
ApplyAdjustment(w) ==
    LET s == session[w]
        e == adjustment[s.adj].emp
        row == [id |-> serial + 1, kind |-> "adjustment", adj |-> s.adj, emp |-> e]
    IN  /\ s.pc = "deciding" /\ s.action = "approve"
        /\ serial < MaxRows
        /\ items' = items \cup {row}
        /\ run' = [run EXCEPT !.net = @ \cup {row}]
        /\ slip' = [slip EXCEPT ![e] = IF @ # {} THEN @ \cup {row} ELSE @]
        /\ adjustment' = [adjustment EXCEPT ![s.adj].status = "applied"]
        /\ serial' = serial + 1
        /\ Missed("decide", adjustment[s.adj].status # s.saw)
        /\ Become(w, Idle)
        /\ UNCHANGED <<settlement, leave, config, work, confirmed>>

-----------------------------------------------------------------------------
(* updateTaiwanLaborStandardsConfig and reviewTaiwanLaborLegalSources.     *)
(* Both publish a new active version, approved or pending legal review as  *)
(* HR says.  Changed rules ask for a recalculation, a review of the legal  *)
(* sources does not (the defaults of the two).  "marked" is a history: the *)
(* last version that asked for a recalculation.                            *)

Publish(approved, recalc) ==
    /\ config.version < MaxVersion
    /\ config' = [version |-> config.version + 1, approved |-> approved, recalc |-> recalc,
                  marked |-> IF recalc THEN config.version + 1 ELSE config.marked]
    /\ UNCHANGED <<run, items, slip, adjustment, settlement, leave, work,
                   session, serial, confirmed, raced>>

EditRules(w, approved) == Call(w, "edit") /\ Publish(approved, TRUE)
ReviewSources(w, approved) == Call(w, "review") /\ Publish(approved, FALSE)

\* Requests and attendance exceptions are filed and settled while HR closes.
WorkChanges(w) ==
    /\ Call(w, "work")
    /\ work' = ~work
    /\ UNCHANGED <<run, items, slip, adjustment, settlement, leave, config,
                   session, serial, confirmed, raced>>

(***************************************************************************)
(* A statement of a transaction fails, or the server stops: nothing of the *)
(* call stays.                                                             *)
(***************************************************************************)
Abort(w) ==
    /\ session[w] # Idle
    /\ Become(w, Idle)
    /\ UNCHANGED <<run, items, slip, adjustment, settlement, leave, config, work,
                   serial, confirmed, raced>>

-----------------------------------------------------------------------------
CloseRun(w) ==
    \/ ReadBlockers(w) \/ CreateRun(w) \/ ResolveBlockers(w)
    \/ ReadBlockedRun(w) \/ BlockRun(w)
    \/ ReadSalaries(w) \/ DeleteItems(w) \/ LockItems(w) \/ Recalculate(w)
    \/ ReadForConfirm(w) \/ ConfirmRun(w)
    \/ ReadForLock(w) \/ ReadSettlements(w) \/ LockRun(w)
    \/ ReadForRelease(w) \/ ReleasePayslips(w)

Settle(w) == (\E reason \in Reasons : ReadBalances(w, reason)) \/ PrepareSettlements(w)

Adjust(w) ==
    \/ \E a \in Adjustments, e \in Employees : ReadForAdjustment(w, a, e)
    \/ RequestAdjustment(w)
    \/ \E a \in Adjustments, action \in Actions : ReadAdjustment(w, a, action)
    \/ RejectAdjustment(w) \/ ApplyAdjustment(w)

Surroundings(w) ==
    \/ \E approved \in BOOLEAN : EditRules(w, approved) \/ ReviewSources(w, approved)
    \/ WorkChanges(w)

Next == \E w \in Workers : CloseRun(w) \/ Settle(w) \/ Adjust(w) \/ Surroundings(w) \/ Abort(w)

Spec == Init /\ [][Next]_vars

-----------------------------------------------------------------------------
(* Properties *)

(***************************************************************************)
(* The totals of the run add up exactly its items, through any sequence of *)
(* calculations, reopenings and adjustments, unless a calculation inserted *)
(* its rows beside rows its deleteMany did not see.                        *)
(***************************************************************************)
TotalsAgree ==
    run # NoRun /\ "recalculate" \notin raced => run.net = items

(***************************************************************************)
(* While a run is released, each payslip adds up exactly the employee's    *)
(* items, later adjustments included, unless a release wrote payslips from *)
(* items that had changed.                                                 *)
(***************************************************************************)
SlipsAgree ==
    run.status = "released" /\ "release" \notin raced =>
        \A e \in Employees : slip[e] = ItemsOf(items, e)

(***************************************************************************)
(* An adjustment is in the items at most once, and only when its status    *)
(* says so, unless two decisions of it overlapped.                         *)
(***************************************************************************)
AppliedOnce ==
    "decide" \notin raced =>
        \A a \in Adjustments :
            /\ Cardinality(Applied(items, a)) <= 1
            /\ Applied(items, a) # {} => adjustment[a].status = "applied"

(***************************************************************************)
(* What is locked, or released, are the figures HR confirmed, unless a     *)
(* confirmation, lock or release missed a change of the run.               *)
(***************************************************************************)
LockedAsConfirmed ==
    Closed(run.status) /\ raced \cap {"confirm", "lock", "release"} = {} =>
        Calculated(items) = Calculated(confirmed)

(***************************************************************************)
(* A run is locked under the rules it was calculated with, or under newer  *)
(* ones that ask for no recalculation, and only after their legal review,  *)
(* unless the lock missed a change of the run or of the rules.             *)
(***************************************************************************)
LockedUnderReview ==
    [][run'.status = "locked" /\ run.status # "locked" /\ "lock" \notin raced' =>
          /\ config.approved
          /\ config.recalc => run.version = config.version
          /\ "recalculate" \notin raced =>
                \A row \in Calculated(items) : row.version = run.version]_vars

(***************************************************************************)
(* A settlement that counts as included is in the calculated pay, with the *)
(* same units, unless the settlements changed under a calculation: HR can  *)
(* prepare drafts again and again without paying one twice or not at all.  *)
(***************************************************************************)
IncludedIsPaid ==
    raced \cap {"recalculate", "settle"} = {} =>
        \A e \in Employees, reason \in Reasons :
            settlement[<<e, reason>>].status = "included" =>
                \A row \in Calculated(items) :
                    <<e, reason, settlement[<<e, reason>>].units>> \in row.paid

-----------------------------------------------------------------------------
(* The abstract period *)

RunState == IF run = NoRun THEN "none" ELSE run.status
Adjusted(rows) == {row \in rows : row.kind = "adjustment"}

Period == INSTANCE PayrollPeriod WITH
    status <- RunState, figures <- Calculated(items), adjusted <- Adjusted(items),
    slips <- slip, confirmed <- Calculated(confirmed), request <- adjustment

(***************************************************************************)
(* Until a call misses a change, the close is the period a reader of the   *)
(* tables expects: whatever calls overlap, each takes effect at once, only *)
(* confirmed figures are locked, only locked ones released, a payslip is   *)
(* made of those, and an adjustment is decided once.                       *)
(***************************************************************************)
PeriodUntilMissed ==
    Period!Init /\ [][raced' = {} => [Period!Next]_(Period!period)]_vars

-----------------------------------------------------------------------------
(* What the documents say of the close *)

(***************************************************************************)
(* PLAN.md:1152, "Locked payroll cannot be modified without unlock         *)
(* permission and audit reason.": the calculated items of a closed run     *)
(* stay, and it stays closed.                                              *)
(***************************************************************************)
LockedIsFixed ==
    [][Closed(run.status) =>
          Closed(run'.status) /\ Calculated(items') = Calculated(items)]_vars

(***************************************************************************)
(* README.md:92: payroll that is marked for recalculation after a company  *)
(* override is not locked before HR recalculates: a run is only locked     *)
(* with figures at least as new as the last version that asked for it.     *)
(***************************************************************************)
LockedRecalculated ==
    [][run'.status = "locked" /\ run.status # "locked" =>
          \A row \in Calculated(items) : row.version >= config.marked]_vars
=============================================================================
