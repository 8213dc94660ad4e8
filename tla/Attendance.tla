----------------------------- MODULE Attendance -----------------------------
(***************************************************************************)
(* One attendance period: clock-in and clock-out, overtime and punch       *)
(* correction requests (src/server/workflows/service.ts), attendance       *)
(* exceptions (src/server/attendance/exceptions.ts, worktime-compliance.ts)*)
(* and the employee's sign-off (src/server/attendance/signoffs.ts).        *)
(*                                                                         *)
(* A clock call takes the time before its transaction, a decision reads    *)
(* the approval task without a lock, a batch of resolutions its list, and  *)
(* a sign-off counts with separate queries before it writes.  A session    *)
(* below is such a call between two of these points; everything else is    *)
(* one transaction that reads nothing it depends on.                       *)
(*                                                                         *)
(* A punch is where its time comes from: a clock call, numbered by the     *)
(* time it took, or a correction request.  The approval task of a request  *)
(* and the request are always written together: one status stands for      *)
(* both.  Clock events and audit records are only inserted and left out.   *)
(***************************************************************************)
EXTENDS Integers, FiniteSets

CONSTANTS
    Workers,        \* server requests that may be in progress together
    Employees,
    Routed,         \* the employees with a manager who has a user account
    Days,           \* the work days of the period
    Requests,       \* identifiers of requests: bounds their number
    Exceptions,     \* identifiers of attendance exceptions: bounds their number
    MaxTime         \* bounds the clock calls

ASSUME PeriodAssumption ==
    /\ Routed \subseteq Employees
    /\ IsFiniteSet(Days) /\ IsFiniteSet(Exceptions)
    /\ MaxTime \in Nat
    /\ Requests \cap Nat = {}

VARIABLES
    record,         \* the AttendanceRecord of each employee and day
    request,        \* the OvertimeRequest and PunchCorrectionRequest rows
    exception,      \* the AttendanceException rows
    signoff,        \* the AttendancePeriodSignoff of each employee
    over,           \* the period has ended
    time,           \* the time the last clock call took
    session,        \* the call each worker has in progress
    late,           \* history: days with a clock call overtaken by a younger one
    crossed,        \* history: requests decided by overlapping calls
    moved,          \* history: signed employees whose counts changed since they were read
    fabricated      \* history: employees whose sign-off has the demo counts

vars == <<record, request, exception, signoff, over, time, session,
          late, crossed, moved, fabricated>>

Idle == [pc |-> "idle"]
NoRecord == [status |-> "none"]
NoRequest == [status |-> "none"]
NoException == [status |-> "none"]
NoSignoff == [records |-> -1, exceptions |-> -1]
NoPunch == 0
Unread == -1
Actions == {"approve", "reject"}

Time == 1 .. MaxTime
Punch == {NoPunch} \cup Time \cup Requests
Record == [status : {"clocked_in", "complete", "corrected"}, in : Punch, out : Punch]
Request ==
    [status : {"pending", "approved", "rejected"}, kind : {"overtime", "punch_correction"},
     emp : Employees, day : Days, in : BOOLEAN, out : BOOLEAN]
Exception ==
    [status : {"pending", "approved"}, emp : Employees, safe : BOOLEAN, inPeriod : BOOLEAN]
Columns == {"records", "exceptions", "open"}
Counts == [Columns -> Int]

Clocking == [pc : {"clocking"}, emp : Employees, day : Days, direction : {"in", "out"}, at : Time]
Deciding == [pc : {"deciding"}, req : Requests, action : Actions]
Resolving == [pc : {"resolving"}, todo : SUBSET Exceptions]
Counting == [pc : {"counting"}, emp : Employees, seen : Counts, demo : BOOLEAN, stale : BOOLEAN]
Session == {Idle} \cup Clocking \cup Deciding \cup Resolving \cup Counting

TypeOK ==
    /\ record \in [Employees \X Days -> {NoRecord} \cup Record]
    /\ request \in [Requests -> {NoRequest} \cup Request]
    /\ exception \in [Exceptions -> {NoException} \cup Exception]
    /\ signoff \in [Employees -> [records : Int, exceptions : Int]]
    /\ over \in BOOLEAN
    /\ time \in 0 .. MaxTime
    /\ session \in [Workers -> Session]
    /\ late \subseteq Employees \X Days
    /\ crossed \subseteq Requests
    /\ moved \subseteq Employees
    /\ fabricated \subseteq Employees

\* What a sign-off counts: records by work day, exceptions by the time they were filed.
CountsOf(e) ==
    LET filed == {x \in Exceptions : /\ exception[x] # NoException
                                     /\ exception[x].emp = e /\ exception[x].inPeriod}
    IN  [records |-> Cardinality({d \in Days : record[<<e, d>>] # NoRecord}),
         exceptions |-> Cardinality(filed),
         open |-> Cardinality({x \in filed : exception[x].status = "pending"})]

(***************************************************************************)
(* Safe exceptions, a missing or double punch, may be pending: the         *)
(* services file none.                                                     *)
(***************************************************************************)
Init ==
    /\ record = [k \in Employees \X Days |-> NoRecord]
    /\ request = [r \in Requests |-> NoRequest]
    /\ exception \in [Exceptions -> {NoException} \cup
          [status : {"pending"}, emp : Employees, safe : {TRUE}, inPeriod : {TRUE}]]
    /\ signoff = [e \in Employees |-> NoSignoff]
    /\ over = FALSE
    /\ time = 0
    /\ session = [w \in Workers |-> Idle]
    /\ late = {}
    /\ crossed = {}
    /\ moved = {}
    /\ fabricated = {}

Become(w, s) == session' = [session EXCEPT ![w] = s]

(***************************************************************************)
(* The call of w goes on as s, with a commit that may change what a        *)
(* sign-off in progress has counted.                                       *)
(***************************************************************************)
Commit(w, s) ==
    LET changed == {e \in Employees : CountsOf(e)' # CountsOf(e)}
    IN  /\ moved' = moved \cup {e \in changed : signoff[e] # NoSignoff}
        /\ session' = [v \in Workers |->
              IF v = w THEN s
              ELSE IF session[v].pc = "counting" /\ session[v].emp \in changed
              THEN [session[v] EXCEPT !.stale = TRUE] ELSE session[v]]

-----------------------------------------------------------------------------
(* clockAttendance *)

TakeTime(w, e, d, direction) ==
    /\ session[w] = Idle
    /\ time < MaxTime /\ ~over
    /\ time' = time + 1
    /\ Become(w, [pc |-> "clocking", emp |-> e, day |-> d, direction |-> direction,
                  at |-> time + 1])
    /\ UNCHANGED <<record, request, exception, signoff, over, late, crossed, moved, fabricated>>

\* Mutant: clocking in again leaves a completed record complete.
ClockedOnce(old, direction, at) ==
    LET in == IF old = NoRecord THEN NoPunch ELSE old.in
        out == IF old = NoRecord THEN NoPunch ELSE old.out
    IN  IF direction = "in"
        THEN [status |-> IF out # NoPunch THEN "complete" ELSE "clocked_in", in |-> at, out |-> out]
        ELSE [status |-> "complete", in |-> in, out |-> at]

\* The columns of the other direction stay.
Clocked(old, direction, at) ==
    LET in == IF old = NoRecord THEN NoPunch ELSE old.in
        out == IF old = NoRecord THEN NoPunch ELSE old.out
    IN  IF direction = "in" THEN [status |-> "clocked_in", in |-> at, out |-> out]
        ELSE [status |-> "complete", in |-> in, out |-> at]

ClockIn(w) ==
    LET s == session[w]
        k == <<s.emp, s.day>>
        old == record[k]
        younger == old # NoRecord /\ \E p \in {old.in, old.out} \cap Time : p > s.at
    IN  /\ s.pc = "clocking"
        /\ record' = [record EXCEPT ![k] = Clocked(old, s.direction, s.at)]
        /\ late' = IF younger THEN late \cup {k} ELSE late
        /\ UNCHANGED <<request, exception, signoff, over, time, crossed, fabricated>>
        /\ Commit(w, Idle)

-----------------------------------------------------------------------------
(* createOvertimeRequest, createPunchCorrectionRequest *)

\* A correction may ask for either punch, for both or for none.
CreateRequest(w, r, kind, e, d, in, out) ==
    /\ session[w] = Idle
    /\ request[r] = NoRequest
    /\ e \in Routed
    /\ kind = "overtime" => ~in /\ ~out
    /\ request' = [request EXCEPT ![r] =
          [status |-> "pending", kind |-> kind, emp |-> e, day |-> d, in |-> in, out |-> out]]
    /\ UNCHANGED <<record, exception, signoff, over, time, session,
                   late, crossed, moved, fabricated>>

-----------------------------------------------------------------------------
(* decideApproval for these two *)

ReadTask(w, r, action) ==
    /\ session[w] = Idle
    /\ request[r].status = "pending"
    /\ Become(w, [pc |-> "deciding", req |-> r, action |-> action])
    /\ UNCHANGED <<record, request, exception, signoff, over, time,
                   late, crossed, moved, fabricated>>

\* Mutant: a rejected correction is applied as well.
AppliesDecided(r, action) == request[r].kind = "punch_correction"

Applies(r, action) == request[r].kind = "punch_correction" /\ action = "approve"

\* Mutant: the record gets the status of the request.
CorrectedAsApproved(old, r) ==
    [status |-> "approved",
     in |-> IF request[r].in THEN r ELSE IF old = NoRecord THEN NoPunch ELSE old.in,
     out |-> IF request[r].out THEN r ELSE IF old = NoRecord THEN NoPunch ELSE old.out]

\* A punch that is not asked for stays.
Corrected(old, r) ==
    [status |-> "corrected",
     in |-> IF request[r].in THEN r ELSE IF old = NoRecord THEN NoPunch ELSE old.in,
     out |-> IF request[r].out THEN r ELSE IF old = NoRecord THEN NoPunch ELSE old.out]

DecideRequest(w) ==
    LET s == session[w]
        k == <<request[s.req].emp, request[s.req].day>>
    IN  /\ s.pc = "deciding"
        /\ request' = [request EXCEPT ![s.req].status =
                          IF s.action = "approve" THEN "approved" ELSE "rejected"]
        /\ record' = IF Applies(s.req, s.action)
                     THEN [record EXCEPT ![k] = Corrected(record[k], s.req)] ELSE record
        /\ crossed' = IF request[s.req].status # "pending" THEN crossed \cup {s.req} ELSE crossed
        /\ UNCHANGED <<exception, signoff, over, time, late, fabricated>>
        /\ Commit(w, Idle)

-----------------------------------------------------------------------------
(* createDbWorktimeComplianceExceptions: any risks, filed again by every scan *)

FileExceptions(w, X, emp) ==
    /\ session[w] = Idle
    /\ \A x \in X : exception[x] = NoException
    /\ exception' = [x \in Exceptions |->
          IF x \in X THEN [status |-> "pending", emp |-> emp[x], safe |-> FALSE, inPeriod |-> ~over]
          ELSE exception[x]]
    /\ UNCHANGED <<record, request, signoff, over, time, late, crossed, fabricated>>
    /\ Commit(w, Idle)

(* resolveDbAttendanceException, resolveDbSafeAttendanceExceptions *)

\* By id, whatever the status.
Resolved(x) == exception' = [exception EXCEPT ![x].status = "approved"]

ResolveException(w, x) ==
    /\ session[w] = Idle
    /\ exception[x] # NoException
    /\ Resolved(x)
    /\ UNCHANGED <<record, request, signoff, over, time, late, crossed, fabricated>>
    /\ Commit(w, Idle)

ReadSafe(w) ==
    /\ session[w] = Idle
    /\ Become(w, [pc |-> "resolving",
          todo |-> {x \in Exceptions : exception[x].status = "pending" /\ exception[x].safe}])
    /\ UNCHANGED <<record, request, exception, signoff, over, time,
                   late, crossed, moved, fabricated>>

\* Each in a transaction of its own, in no particular order.
ResolveNext(w) ==
    /\ session[w].pc = "resolving"
    /\ \E x \in session[w].todo :
         /\ Resolved(x)
         /\ UNCHANGED <<record, request, signoff, over, time, late, crossed, fabricated>>
         /\ Commit(w, [session[w] EXCEPT !.todo = @ \ {x}])

EndResolve(w) ==
    /\ session[w].pc = "resolving" /\ session[w].todo = {}
    /\ Become(w, Idle)
    /\ UNCHANGED <<record, request, exception, signoff, over, time,
                   late, crossed, moved, fabricated>>

-----------------------------------------------------------------------------
(* signAttendancePeriod *)

BeginSignoff(w, e) ==
    /\ session[w] = Idle
    /\ Become(w, [pc |-> "counting", emp |-> e, demo |-> FALSE, stale |-> FALSE,
                  seen |-> [records |-> Unread, exceptions |-> Unread, open |-> Unread]])
    /\ UNCHANGED <<record, request, exception, signoff, over, time,
                   late, crossed, moved, fabricated>>

\* The queries of Promise.all, in any order.
CountNext(w, column) ==
    LET s == session[w]
    IN  /\ s.pc = "counting" /\ s.seen[column] = Unread
        /\ Become(w, [s EXCEPT !.seen[column] = CountsOf(s.emp)[column]])
        /\ UNCHANGED <<record, request, exception, signoff, over, time,
                       late, crossed, moved, fabricated>>

\* One of them fails: the workspace is that of the demo.
CountFails(w) ==
    LET s == session[w]
    IN  /\ s.pc = "counting" /\ ~s.demo
        /\ \E column \in Columns : s.seen[column] = Unread
        /\ Become(w, [s EXCEPT !.demo = TRUE,
                               !.seen = [records |-> 2, exceptions |-> 0, open |-> 0]])
        /\ UNCHANGED <<record, request, exception, signoff, over, time,
                       late, crossed, moved, fabricated>>

Counted(s) == s.pc = "counting" /\ \A column \in Columns : s.seen[column] # Unread

\* "Resolve pending attendance exceptions before signing this period."
RefuseSignoff(w) ==
    /\ Counted(session[w]) /\ session[w].seen.open > 0
    /\ Become(w, Idle)
    /\ UNCHANGED <<record, request, exception, signoff, over, time,
                   late, crossed, moved, fabricated>>

\* Mutant: the open exceptions are not looked at.
SignUnchecked(w) ==
    LET s == session[w]
    IN  /\ Counted(s)
        /\ signoff' = [signoff EXCEPT ![s.emp] =
                          [records |-> s.seen.records, exceptions |-> s.seen.exceptions]]
        /\ moved' = IF s.stale THEN moved \cup {s.emp} ELSE moved \ {s.emp}
        /\ fabricated' = IF s.demo THEN fabricated \cup {s.emp} ELSE fabricated \ {s.emp}
        /\ Become(w, Idle)
        /\ UNCHANGED <<record, request, exception, over, time, late, crossed>>

SignPeriod(w) ==
    LET s == session[w]
    IN  /\ Counted(s) /\ s.seen.open = 0
        /\ signoff' = [signoff EXCEPT ![s.emp] =
                          [records |-> s.seen.records, exceptions |-> s.seen.exceptions]]
        /\ moved' = IF s.stale THEN moved \cup {s.emp} ELSE moved \ {s.emp}
        /\ fabricated' = IF s.demo THEN fabricated \cup {s.emp} ELSE fabricated \ {s.emp}
        /\ Become(w, Idle)
        /\ UNCHANGED <<record, request, exception, over, time, late, crossed>>

-----------------------------------------------------------------------------
\* The month ends: no more clock calls for its days, new exceptions are filed outside it.
PeriodEnds ==
    /\ ~over
    /\ over' = TRUE
    /\ UNCHANGED <<record, request, exception, signoff, time, session,
                   late, crossed, moved, fabricated>>

\* A statement fails or the server stops; what was committed stays.
Abort(w) ==
    /\ session[w] # Idle
    /\ Become(w, Idle)
    /\ UNCHANGED <<record, request, exception, signoff, over, time,
                   late, crossed, moved, fabricated>>

Clock(w) ==
    \/ \E e \in Employees, d \in Days, direction \in {"in", "out"} : TakeTime(w, e, d, direction)
    \/ ClockIn(w)

Decide(w) ==
    \/ \E r \in Requests, kind \in {"overtime", "punch_correction"}, e \in Employees, d \in Days,
          in, out \in BOOLEAN : CreateRequest(w, r, kind, e, d, in, out)
    \/ \E r \in Requests, action \in Actions : ReadTask(w, r, action)
    \/ DecideRequest(w)

Resolve(w) ==
    \/ \E X \in SUBSET Exceptions : \E emp \in [X -> Employees] : FileExceptions(w, X, emp)
    \/ \E x \in Exceptions : ResolveException(w, x)
    \/ ReadSafe(w) \/ ResolveNext(w) \/ EndResolve(w)

SignOff(w) ==
    \/ \E e \in Employees : BeginSignoff(w, e)
    \/ \E column \in Columns : CountNext(w, column)
    \/ CountFails(w) \/ RefuseSignoff(w) \/ SignPeriod(w)

Next ==
    \/ \E w \in Workers : Clock(w) \/ Decide(w) \/ Resolve(w) \/ SignOff(w) \/ Abort(w)
    \/ PeriodEnds

Spec == Init /\ [][Next]_vars

-----------------------------------------------------------------------------
(* Properties *)

(***************************************************************************)
(* Who is clocked in has clocked in after the last clock-out, and a        *)
(* complete day ends with the clock-out, whatever was punched before and   *)
(* however often, unless a clock call committed after a younger one.       *)
(***************************************************************************)
PunchesInOrder ==
    \A e \in Employees, d \in Days : <<e, d>> \notin late =>
        LET punched == record[<<e, d>>]
        IN  punched # NoRecord /\ {punched.in, punched.out} \subseteq Time =>
              /\ punched.status = "clocked_in" => punched.out < punched.in
              /\ punched.status = "complete" => punched.in < punched.out

(***************************************************************************)
(* A punch that was not clocked comes from an approved correction of that  *)
(* employee and day that asked for it, unless decisions of it overlapped.  *)
(***************************************************************************)
CorrectionsApproved ==
    \A e \in Employees, d \in Days, r \in Requests :
        LET punched == record[<<e, d>>]
        IN  punched # NoRecord /\ r \in {punched.in, punched.out} /\ r \notin crossed =>
              /\ request[r].status = "approved"
              /\ request[r].emp = e /\ request[r].day = d
              /\ punched.in = r => request[r].in
              /\ punched.out = r => request[r].out

(***************************************************************************)
(* README.md:117 and :408: the sign-off confirms the summary of the        *)
(* period: it states its records and exceptions, none of them open, unless *)
(* they changed since the call read them or the counts are the demo's.     *)
(***************************************************************************)
SignoffDescribes ==
    \A e \in Employees : signoff[e] # NoSignoff /\ e \notin moved \cup fabricated =>
        CountsOf(e) = [records |-> signoff[e].records,
                       exceptions |-> signoff[e].exceptions, open |-> 0]

(***************************************************************************)
(* README.md:408, "after pending exceptions are cleared": whoever has      *)
(* signed has no pending exceptions, unless they changed since the call    *)
(* began.                                                                  *)
(***************************************************************************)
SignedWhenCleared ==
    \A e \in Employees : signoff[e] # NoSignoff /\ e \notin moved => CountsOf(e).open = 0
=============================================================================
