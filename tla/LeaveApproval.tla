--------------------------- MODULE LeaveApproval ----------------------------
(***************************************************************************)
(* Leave requests and their approval: createLeaveRequest and the leave     *)
(* branch of decideApproval in src/server/workflows/service.ts, beside the *)
(* yearly grant of src/server/leave/annual-leave-grants.ts.                *)
(*                                                                         *)
(* Each call is one interactive Prisma transaction.  No isolation level is *)
(* requested, so PostgreSQL runs it READ COMMITTED: a plain read sees the  *)
(* last committed row and takes no lock, an update waits for the row lock  *)
(* and keeps it to the commit, and nothing written is seen before the      *)
(* commit.  A session below is one call in progress, split where another   *)
(* call can change what it has read:                                       *)
(*   submit:  ReadBalance                 ->  SubmitRequest                *)
(*   decide:  ReadTask     ->  LockTask   ->  DecideTask                   *)
(*   grant:   ReadForGrant                ->  GrantYear                    *)
(* The first update of a call and the reads after it are one step (taking  *)
(* a lock earlier changes nothing others can see), and so are its last     *)
(* update and the commit.  The values written are computed from the row    *)
(* the session read and written as absolute values.                        *)
(***************************************************************************)
EXTENDS LeaveRules, UnitCount, Sequences

CONSTANTS
    Workers,        \* server requests that may be in progress together
    Balances,       \* the rows of LeaveBalance
    Requests,       \* identifiers of leave requests: bounds their number
    UnitChoices,    \* the amounts an employee may ask for
    Routed,         \* balances whose employee has a manager with an account
    CarryUnits,     \* carried-over units each balance starts with
    YearUnits,      \* current-year units each balance starts with
    AnnualBalances, \* balances of active employees under the annual policy
    GrantChoices,   \* the entitlements a new year may bring
    CarryLimit      \* the most the policy carries over; one without a limit
                    \* is one with a limit no balance reaches

ASSUME RoutedAssumption == Routed \subseteq Balances
ASSUME UnitsAssumption ==
    /\ UnitChoices \subseteq Int
    /\ CarryUnits \in [Balances -> Nat]
    /\ YearUnits \in [Balances -> Nat]
ASSUME GrantAssumption ==
    /\ AnnualBalances \subseteq Balances
    /\ GrantChoices \subseteq Nat /\ CarryLimit \in Nat
ASSUME RequestsAssumption == IsFiniteSet(Requests)

VARIABLES
    balance,        \* the committed LeaveBalance rows
    request,        \* the committed LeaveRequest rows
    task,           \* the status of each request's ApprovalTask
    events,         \* the decisions in each request's ApprovalEvent trail
    session,        \* the call each worker has in progress
    crossed,        \* history: a call on this balance wrote over a row, or
                    \* decided a task, that changed after the call read it, or
                    \* a new year began while a request was pending
    closed          \* history: requests made before the last grant

vars == <<balance, request, task, events, session, crossed, closed>>

Idle == [pc |-> "idle"]
NoRequest == [status |-> "none"]

Session ==
    {Idle}
    \cup [pc : {"reserving"}, req : Requests, bal : Balances, units : UnitChoices, seen : BalanceRow]
    \cup [pc : {"deciding"}, req : Requests, action : Actions,
          saw : {t \in ApprovalStatus : CanDecide(t)}]
    \cup [pc : {"settling"}, req : Requests, action : Actions,
          saw : {t \in ApprovalStatus : CanDecide(t)}, seen : BalanceRow]
    \cup [pc : {"granting"}, seen : [Balances -> BalanceRow]]

TypeOK ==
    /\ balance \in [Balances -> BalanceRow]
    /\ request \in [Requests -> {NoRequest} \cup
                        [status : ApprovalStatus, bal : Balances, units : Nat \ {0}]]
    /\ task \in [Requests -> {"none"} \cup ApprovalStatus]
    /\ events \in [Requests -> Seq(Decisions)]
    /\ session \in [Workers -> Session]
    /\ crossed \in [Balances -> BOOLEAN]
    /\ closed \subseteq Requests

Init ==
    /\ balance = [b \in Balances |-> FreshRow(CarryUnits[b], YearUnits[b])]
    /\ request = [r \in Requests |-> NoRequest]
    /\ task = [r \in Requests |-> "none"]
    /\ events = [r \in Requests |-> <<>>]
    /\ session = [w \in Workers |-> Idle]
    /\ crossed = [b \in Balances |-> FALSE]
    /\ closed = {}

-----------------------------------------------------------------------------
(* createLeaveRequest *)

Unused(r) ==
    /\ request[r] = NoRequest
    /\ \A v \in Workers : ~(session[v].pc = "reserving" /\ session[v].req = r)

(***************************************************************************)
(* getRequestContext (no manager with an account: an error), the balance   *)
(* read and the in-memory check of reserveLeaveUnits.  findFirst names no  *)
(* policy, so b is any balance of the employee.                            *)
(***************************************************************************)
ReadBalance(w, r, b, u) ==
    /\ session[w] = Idle
    /\ Unused(r)
    /\ b \in Routed
    /\ CanReserve(balance[b], u)
    /\ session' = [session EXCEPT ![w] =
                     [pc |-> "reserving", req |-> r, bal |-> b, units |-> u,
                      seen |-> balance[b]]]
    /\ UNCHANGED <<balance, request, task, events, crossed, closed>>

(***************************************************************************)
(* The request, the balance columns and the approval task become visible.  *)
(***************************************************************************)
SubmitRequest(w) ==
    LET s == session[w]
        new == ReserveLeaveUnits(s.seen, s.units)
    IN  /\ s.pc = "reserving"
        /\ request' = [request EXCEPT ![s.req] =
                         [status |-> "pending", bal |-> s.bal, units |-> s.units]]
        /\ task' = [task EXCEPT ![s.req] = "pending"]
        /\ balance' = [balance EXCEPT ![s.bal].pending = new.pending,
                                      ![s.bal].remaining = new.remaining]
        /\ crossed' = [crossed EXCEPT ![s.bal] = @ \/ s.seen # balance[s.bal]]
        /\ session' = [session EXCEPT ![w] = Idle]
        /\ UNCHANGED <<events, closed>>

-----------------------------------------------------------------------------
(* decideApproval *)

TaskLocked(r) == \E v \in Workers : session[v].pc = "settling" /\ session[v].req = r

(***************************************************************************)
(* The approver's task is read without a lock and must be pending.         *)
(***************************************************************************)
ReadTask(w, r, action) ==
    /\ session[w] = Idle
    /\ CanDecide(task[r])
    /\ session' = [session EXCEPT ![w] =
                     [pc |-> "deciding", req |-> r, action |-> action, saw |-> task[r]]]
    /\ UNCHANGED <<balance, request, task, events, crossed, closed>>

(***************************************************************************)
(* The update of the task row waits for its lock and does not look at the  *)
(* status again; then the request and its balance are read.                *)
(***************************************************************************)
LockTask(w) ==
    LET s == session[w]
    IN  /\ s.pc = "deciding"
        /\ ~TaskLocked(s.req)
        /\ session' = [session EXCEPT ![w] =
                         [pc |-> "settling", req |-> s.req, action |-> s.action,
                          saw |-> s.saw, seen |-> balance[request[s.req].bal]]]
        /\ UNCHANGED <<balance, request, task, events, crossed, closed>>

(***************************************************************************)
(* Task, request, balance and approval event become visible.               *)
(***************************************************************************)
DecideTask(w) ==
    LET s == session[w]
        b == request[s.req].bal
        status == NextApprovalStatus(s.action)
        new == SettleLeaveUnits(s.seen, request[s.req].units, s.action)
    IN  /\ s.pc = "settling"
        /\ task' = [task EXCEPT ![s.req] = status]
        /\ request' = [request EXCEPT ![s.req].status = status]
        /\ balance' = [balance EXCEPT ![b].used = new.used,
                                      ![b].pending = new.pending,
                                      ![b].carryUsed = new.carryUsed,
                                      ![b].yearUsed = new.yearUsed,
                                      ![b].remaining = new.remaining]
        /\ events' = [events EXCEPT ![s.req] = Append(@, status)]
        /\ crossed' = [crossed EXCEPT ![b] =
                         @ \/ s.seen # balance[b] \/ s.saw # task[s.req]]
        /\ session' = [session EXCEPT ![w] = Idle]
        /\ UNCHANGED closed

-----------------------------------------------------------------------------
(* runAnnualLeaveGrantBatch *)

MadeOn(b) == {r \in Requests : request[r] # NoRequest /\ request[r].bal = b}
PendingOn(b) == {r \in MadeOn(b) : request[r].status = "pending"}

\* One statement reads the balances of every active employee.
ReadForGrant(w) ==
    /\ session[w] = Idle
    /\ session' = [session EXCEPT ![w] = [pc |-> "granting", seen |-> balance]]
    /\ UNCHANGED <<balance, request, task, events, crossed, closed>>

(***************************************************************************)
(* Every column of every balance is written, used and pending units as     *)
(* zero, whatever is pending and whatever was written since the read.      *)
(***************************************************************************)
GrantYear(w, year) ==
    LET seen == session[w].seen
    IN  /\ session[w].pc = "granting"
        /\ balance' = [b \in Balances |->
             IF b \in AnnualBalances THEN FreshRow(CarriedOver(seen[b], CarryLimit), year[b])
             ELSE balance[b]]
        /\ crossed' = [b \in Balances |->
             \/ crossed[b]
             \/ /\ b \in AnnualBalances
                /\ seen[b] # balance[b] \/ PendingOn(b) # {}]
        /\ closed' = closed \cup UNION {MadeOn(b) : b \in AnnualBalances}
        /\ session' = [session EXCEPT ![w] = Idle]
        /\ UNCHANGED <<request, task, events>>

(***************************************************************************)
(* Mutant: the task row is updated outside the transaction, so that a      *)
(* failure of a later statement leaves it decided.                         *)
(***************************************************************************)
AbortAfterTask(w) ==
    LET s == session[w]
    IN  /\ s # Idle
        /\ task' = IF s.pc = "settling" THEN [task EXCEPT ![s.req] = NextApprovalStatus(s.action)]
                   ELSE task
        /\ session' = [session EXCEPT ![w] = Idle]
        /\ UNCHANGED <<balance, request, events, crossed, closed>>

(***************************************************************************)
(* A statement fails, the connection drops or the transaction times out:   *)
(* the transaction is rolled back and its locks are released.              *)
(***************************************************************************)
Abort(w) ==
    /\ session[w] # Idle
    /\ session' = [session EXCEPT ![w] = Idle]
    /\ UNCHANGED <<balance, request, task, events, crossed, closed>>

-----------------------------------------------------------------------------
Begin(w) ==
    \/ \E r \in Requests, b \in Balances, u \in UnitChoices : ReadBalance(w, r, b, u)
    \/ \E r \in Requests, action \in Actions : ReadTask(w, r, action)
    \/ ReadForGrant(w)

Grant(w) == \E year \in [AnnualBalances -> GrantChoices] : GrantYear(w, year)

Proceed(w) == SubmitRequest(w) \/ LockTask(w) \/ DecideTask(w) \/ Grant(w)

Next == \E w \in Workers : Begin(w) \/ Proceed(w) \/ Abort(w)

Spec == Init /\ [][Next]_vars

-----------------------------------------------------------------------------
(* Properties *)

ApprovedOn(b) == {r \in Requests \ closed : request[r] # NoRequest
                                             /\ request[r].bal = b /\ request[r].status = "approved"}
UnitsAsked == [r \in Requests |-> IF request[r] = NoRequest THEN 0 ELSE request[r].units]
PendingUnits(b) == UnitsOf(PendingOn(b), UnitsAsked)
ApprovedUnits(b) == UnitsOf(ApprovedOn(b), UnitsAsked)

(***************************************************************************)
(* The columns of a balance no call has crossed are exactly what its       *)
(* requests of the year add up to: createLeaveRequest reserved the pending *)
(* ones, decideApproval booked the approved ones and gave the rest back,   *)
(* and the grant of a new year starts from nothing.                        *)
(***************************************************************************)
LedgerExact ==
    \A b \in Balances : ~crossed[b] =>
        /\ balance[b].pending = PendingUnits(b)
        /\ balance[b].used = ApprovedUnits(b)

(***************************************************************************)
(* The stored "remaining" column, which the two handlers compute from      *)
(* different reads and write separately, agrees with the other columns and *)
(* is never negative: reserveLeaveUnits lets nobody ask for more.          *)
(***************************************************************************)
NoOverdraw ==
    \A b \in Balances : ~crossed[b] =>
        /\ balance[b].remaining = Remaining(balance[b])
        /\ balance[b].remaining >= 0

(***************************************************************************)
(* README.md:106: approved leave consumes the carried-over units first,    *)
(* and allocateLeaveUsage books every used unit in one of the two parts.   *)
(***************************************************************************)
CarryoverFirst ==
    \A b \in Balances : ~crossed[b] =>
        /\ balance[b].carryUsed + balance[b].yearUsed = balance[b].used
        /\ balance[b].carryUsed <= balance[b].carry
        /\ balance[b].yearUsed > 0 => balance[b].carryUsed = balance[b].carry

(***************************************************************************)
(* Task, request and event trail agree, whoever decided and however often: *)
(* all three show the last committed decision, and a request with no       *)
(* decision is pending in both tables.                                     *)
(***************************************************************************)
TrailAgrees ==
    \A r \in Requests :
        /\ request[r] = NoRequest <=> task[r] = "none"
        /\ request[r] # NoRequest => request[r].status = task[r]
        /\ task[r] \in Decisions <=> events[r] # <<>>
        /\ events[r] # <<>> => task[r] = events[r][Len(events[r])]

(***************************************************************************)
(* A request on a balance that no call has crossed was decided at most     *)
(* once.                                                                   *)
(***************************************************************************)
DecidedOnce ==
    \A r \in Requests :
        request[r] # NoRequest /\ ~crossed[request[r].bal] => Len(events[r]) <= 1

-----------------------------------------------------------------------------
(* The abstract ledger *)

bookBar == [b \in Balances |-> [entitled |-> balance[b].granted - balance[b].settled,
                                used     |-> balance[b].used,
                                pending  |-> balance[b].pending]]
entryBar == [r \in Requests |->
               IF request[r] = NoRequest THEN [state |-> "none"]
               ELSE [state |-> request[r].status, bal |-> request[r].bal,
                     units |-> request[r].units]]

Ledger == INSTANCE LeaveLedger WITH book <- bookBar, entry <- entryBar

(***************************************************************************)
(* With at most one call at work on a balance, and no new year over its    *)
(* pending requests, the services are the atomic ledger.                   *)
(***************************************************************************)
ImplementsLedger == Ledger!Spec

(***************************************************************************)
(* With any number of calls in progress the balances start as a ledger, and *)
(* every step up to the first crossed call is a step of the atomic ledger  *)
(* or changes nothing it shows.                                            *)
(***************************************************************************)
LedgerUntilCrossed ==
    Ledger!Init /\
    [][(\A b \in Balances : ~crossed'[b]) => [Ledger!Next]_(Ledger!ledger)]_vars
=============================================================================
