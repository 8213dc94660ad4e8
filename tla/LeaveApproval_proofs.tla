------------------------ MODULE LeaveApproval_proofs ------------------------
(***************************************************************************)
(* Proofs about LeaveApproval, for any number of concurrent calls,         *)
(* balances and requests.                                                  *)
(***************************************************************************)
EXTENDS LeaveApproval, UnitCount_proofs, SequenceTheorems

(***************************************************************************)
(* What a call in progress knows: its new request identifier is unused and *)
(* nobody else's, its units fit the row it read, the task it decides is    *)
(* there.                                                                  *)
(***************************************************************************)
SessionsSound ==
    \A w \in Workers :
        /\ session[w].pc = "reserving" =>
             /\ request[session[w].req] = NoRequest
             /\ CanReserve(session[w].seen, session[w].units)
             /\ \A v \in Workers \ {w} :
                  session[v].pc = "reserving" => session[v].req # session[w].req
        /\ session[w].pc \in {"deciding", "settling"} =>
             request[session[w].req] # NoRequest

BaseInv == TypeOK /\ TrailAgrees /\ SessionsSound

\* A submitted row keeps its type: reserveLeaveUnits adds to a natural number.
LEMMA ReserveType ==
    ASSUME NEW row \in BalanceRow, NEW units \in Int, CanReserve(row, units)
    PROVE  /\ units \in Nat \ {0}
           /\ ReserveLeaveUnits(row, units).pending = row.pending + units
           /\ ReserveLeaveUnits(row, units).remaining = Remaining(row) - units
           /\ ReserveLeaveUnits(row, units).pending \in Nat
           /\ ReserveLeaveUnits(row, units).remaining \in Int
BY DEF CanReserve, ReserveLeaveUnits, Remaining, BalanceRow

\* What settleLeaveUnits computes, column by column.
LEMMA SettleColumns ==
    ASSUME NEW row \in BalanceRow, NEW units \in Nat, NEW action \in Actions
    PROVE  LET new == SettleLeaveUnits(row, units, action)
               taken == IF action = "approve" THEN units ELSE 0
           IN  /\ new.used = row.used + taken
               /\ new.pending = AtLeastZero(row.pending - units)
               /\ new.carryUsed + new.yearUsed = row.carryUsed + row.yearUsed + taken
               /\ new.remaining = row.granted - new.used - row.settled - new.pending
               /\ new.used \in Nat /\ new.pending \in Nat
               /\ new.carryUsed \in Nat /\ new.yearUsed \in Nat
               /\ new.remaining \in Int
<1> DEFINE carried == IF action = "approve" THEN CarryoverApplied(row, units) ELSE 0
           taken == IF action = "approve" THEN units ELSE 0
           next == [row EXCEPT !.used = @ + taken, !.pending = AtLeastZero(@ - units)]
<1>1. carried \in Nat /\ taken \in Nat /\ carried <= taken
  BY DEF CarryoverApplied, CarryoverAvailable, AtLeastZero, Lesser, BalanceRow
<1>2. AtLeastZero(row.pending - units) \in Nat
  BY DEF AtLeastZero, BalanceRow
<1>3. /\ next.used = row.used + taken
      /\ next.pending = AtLeastZero(row.pending - units)
      /\ next.granted = row.granted /\ next.settled = row.settled
  BY DEF BalanceRow
<1> HIDE DEF carried, taken, next
<1>4. SettleLeaveUnits(row, units, action) =
        [used |-> next.used, pending |-> next.pending,
         carryUsed |-> row.carryUsed + carried,
         yearUsed |-> row.yearUsed + taken - carried,
         remaining |-> Remaining(next)]
  BY DEF SettleLeaveUnits, carried, taken, next
<1> QED
  BY <1>1, <1>2, <1>3, <1>4 DEF Remaining, BalanceRow, taken

\* The last element of a trail is the one just appended.
LEMMA AppendLast ==
    ASSUME NEW S, NEW trail \in Seq(S), NEW d \in S
    PROVE  /\ Append(trail, d) \in Seq(S) /\ Append(trail, d) # <<>>
           /\ Len(Append(trail, d)) = Len(trail) + 1
           /\ Append(trail, d)[Len(Append(trail, d))] = d
BY AppendProperties

\* A granted row keeps its type, whatever the row it carries over from.
LEMMA GrantType ==
    ASSUME NEW row \in BalanceRow, NEW current \in Nat
    PROVE  LET new == FreshRow(CarriedOver(row, CarryLimit), current)
           IN  /\ new \in BalanceRow
               /\ new.pending = 0 /\ new.used = 0 /\ new.settled = 0
               /\ new.granted = CarriedOver(row, CarryLimit) + current
               /\ new.carry = CarriedOver(row, CarryLimit)
               /\ new.carryUsed = 0 /\ new.yearUsed = 0
               /\ new.remaining = Remaining(new)
               /\ row.remaining >= 0 => new.remaining >= 0 /\ new.carry >= 0
<1>1. CarriedOver(row, CarryLimit) \in Int
      /\ (row.remaining >= 0 => CarriedOver(row, CarryLimit) >= 0)
  BY GrantAssumption DEF CarriedOver, Lesser, BalanceRow
<1> QED
  BY <1>1 DEF FreshRow, BalanceRow, Remaining

-----------------------------------------------------------------------------
LEMMA BaseInit == Init => BaseInv
<1> SUFFICES ASSUME Init PROVE BaseInv
  OBVIOUS
<1>1. \A b \in Balances : FreshRow(CarryUnits[b], YearUnits[b]) \in BalanceRow
  BY UnitsAssumption DEF FreshRow, BalanceRow
<1>2. TypeOK
  BY <1>1 DEF Init, TypeOK, Session, Idle
<1>3. TrailAgrees
  BY DEF Init, TrailAgrees, Decisions, NoRequest
<1>4. SessionsSound
  BY DEF Init, SessionsSound, Idle
<1> QED
  BY <1>2, <1>3, <1>4 DEF BaseInv

\* A submitted call and the request it adds.
LEMMA SubmitFacts ==
    ASSUME BaseInv, NEW w \in Workers, SubmitRequest(w)
    PROVE  LET s == session[w]
           IN  /\ s.req \in Requests /\ s.bal \in Balances
               /\ s.seen \in BalanceRow
               /\ s.units \in UnitChoices /\ s.units \in Nat \ {0}
               /\ CanReserve(s.seen, s.units)
               /\ request[s.req] = NoRequest
               /\ \A v \in Workers : v # w /\ session[v].pc = "reserving"
                                       => session[v].req # s.req
<1> DEFINE s == session[w]
<1>1. s.pc = "reserving"
  BY DEF SubmitRequest
<1>2. s \in [pc : {"reserving"}, req : Requests, bal : Balances,
             units : UnitChoices, seen : BalanceRow]
  BY <1>1 DEF BaseInv, TypeOK, Session, Idle
<1>3. CanReserve(s.seen, s.units) /\ request[s.req] = NoRequest
  BY <1>1 DEF BaseInv, SessionsSound
<1>4. s.units \in Nat \ {0}
  BY <1>2, <1>3, ReserveType, UnitsAssumption
<1> QED
  BY <1>1, <1>2, <1>3, <1>4 DEF BaseInv, SessionsSound

\* A committing decision and the request it settles.
LEMMA DecideFacts ==
    ASSUME BaseInv, NEW w \in Workers, session[w].pc = "settling"
    PROVE  LET s == session[w]
           IN  /\ s.req \in Requests /\ s.action \in Actions
               /\ s.seen \in BalanceRow
               /\ request[s.req] # NoRequest
               /\ request[s.req].bal \in Balances
               /\ request[s.req].units \in Nat \ {0}
               /\ s.saw = "pending"
<1>1. session[w] \in [pc : {"settling"}, req : Requests, action : Actions,
                      saw : {t \in ApprovalStatus : CanDecide(t)}, seen : BalanceRow]
  BY DEF BaseInv, TypeOK, Session, Idle
<1>2. request[session[w].req] # NoRequest
  BY DEF BaseInv, SessionsSound
<1> QED
  BY <1>1, <1>2 DEF BaseInv, TypeOK, CanDecide

\* The rows a grant writes.
LEMMA GrantFacts ==
    ASSUME BaseInv, NEW w \in Workers, NEW year \in [AnnualBalances -> GrantChoices],
           GrantYear(w, year)
    PROVE  /\ session[w].seen \in [Balances -> BalanceRow]
           /\ balance' \in [Balances -> BalanceRow]
           /\ \A b \in Balances \ AnnualBalances : balance'[b] = balance[b]
           /\ \A b \in AnnualBalances :
                /\ balance'[b] = FreshRow(CarriedOver(session[w].seen[b], CarryLimit), year[b])
                /\ year[b] \in Nat /\ b \in Balances
<1>1. session[w] \in [pc : {"granting"}, seen : [Balances -> BalanceRow]]
  BY DEF GrantYear, BaseInv, TypeOK, Session, Idle
<1>2. \A b \in AnnualBalances : year[b] \in Nat /\ b \in Balances
  BY GrantAssumption
<1>3. \A b \in Balances : balance'[b] =
        IF b \in AnnualBalances THEN FreshRow(CarriedOver(session[w].seen[b], CarryLimit), year[b])
        ELSE balance[b]
  BY DEF GrantYear
<1>4. ASSUME NEW b \in Balances PROVE balance'[b] \in BalanceRow
  <2>1. CASE b \in AnnualBalances
    BY <1>1, <1>2, <1>3, <2>1, GrantType
  <2>2. CASE b \notin AnnualBalances
    BY <1>3, <2>2 DEF BaseInv, TypeOK
  <2> QED
    BY <2>1, <2>2
<1>5. balance' \in [Balances -> BalanceRow]
  BY <1>4 DEF GrantYear
<1> QED
  BY <1>1, <1>2, <1>3, <1>5

LEMMA BaseStep == BaseInv /\ [Next]_vars => BaseInv'
<1> SUFFICES ASSUME BaseInv, [Next]_vars PROVE BaseInv'
  OBVIOUS
<1> USE DEF BaseInv
<1>1. ASSUME NEW w \in Workers, NEW r \in Requests, NEW b \in Balances,
             NEW u \in UnitChoices, ReadBalance(w, r, b, u)
      PROVE  BaseInv'
  <2>1. TypeOK'
    BY <1>1, UnitsAssumption DEF ReadBalance, TypeOK, Session
  <2>2. TrailAgrees'
    BY <1>1 DEF ReadBalance, TrailAgrees
  <2>3. SessionsSound'
    BY <1>1 DEF ReadBalance, SessionsSound, TypeOK, Unused
  <2> QED
    BY <2>1, <2>2, <2>3
<1>2. ASSUME NEW w \in Workers, SubmitRequest(w)
      PROVE  BaseInv'
  <2> DEFINE s == session[w]
             new == ReserveLeaveUnits(s.seen, s.units)
  <2>1. /\ s.req \in Requests /\ s.bal \in Balances
        /\ s.seen \in BalanceRow /\ s.units \in Nat \ {0}
        /\ request[s.req] = NoRequest
        /\ \A v \in Workers : v # w /\ session[v].pc = "reserving"
                                => session[v].req # s.req
        /\ new.pending \in Nat /\ new.remaining \in Int
    BY <1>2, SubmitFacts, ReserveType
  <2>2. /\ request' = [request EXCEPT ![s.req] =
                         [status |-> "pending", bal |-> s.bal, units |-> s.units]]
        /\ task' = [task EXCEPT ![s.req] = "pending"]
        /\ balance' = [balance EXCEPT ![s.bal].pending = new.pending,
                                      ![s.bal].remaining = new.remaining]
        /\ crossed' = [crossed EXCEPT ![s.bal] = @ \/ s.seen # balance[s.bal]]
        /\ session' = [session EXCEPT ![w] = Idle]
        /\ events' = events /\ closed' = closed
    BY <1>2 DEF SubmitRequest
  <2> HIDE DEF s, new
  <2>3. balance' \in [Balances -> BalanceRow]
    BY <2>1, <2>2 DEF TypeOK, BalanceRow
  <2>4. request' \in [Requests -> {NoRequest} \cup
                        [status : ApprovalStatus, bal : Balances, units : Nat \ {0}]]
    BY <2>1, <2>2 DEF TypeOK, ApprovalStatus
  <2>5. TypeOK'
    BY <2>1, <2>2, <2>3, <2>4 DEF TypeOK, ApprovalStatus, Session
  <2>6. TrailAgrees'
    BY <2>1, <2>2 DEF TrailAgrees, TypeOK, NoRequest, Decisions
  <2>7. SessionsSound'
    BY <2>1, <2>2 DEF SessionsSound, TypeOK, Idle, NoRequest
  <2> QED
    BY <2>5, <2>6, <2>7
<1>3. ASSUME NEW w \in Workers, NEW r \in Requests, NEW action \in Actions,
             ReadTask(w, r, action)
      PROVE  BaseInv'
  <2>1. TypeOK'
    BY <1>3 DEF ReadTask, TypeOK, Session, CanDecide, ApprovalStatus
  <2>2. TrailAgrees'
    BY <1>3 DEF ReadTask, TrailAgrees
  <2>3. SessionsSound'
    BY <1>3 DEF ReadTask, SessionsSound, TypeOK, TrailAgrees, CanDecide
  <2> QED
    BY <2>1, <2>2, <2>3
<1>4. ASSUME NEW w \in Workers, LockTask(w)
      PROVE  BaseInv'
  <2>1. /\ session[w].req \in Requests /\ session[w].action \in Actions
        /\ request[session[w].req] # NoRequest
    BY <1>4 DEF LockTask, TypeOK, Session, SessionsSound, Idle
  <2>6. session[w].saw \in {t \in ApprovalStatus : CanDecide(t)}
    BY <1>4 DEF LockTask, TypeOK, Session, Idle
  <2>2. request[session[w].req].bal \in Balances
    BY <2>1 DEF TypeOK
  <2>3. TypeOK'
    BY <1>4, <2>1, <2>2, <2>6 DEF LockTask, TypeOK, Session
  <2>4. TrailAgrees'
    BY <1>4 DEF LockTask, TrailAgrees
  <2>5. SessionsSound'
    BY <1>4, <2>1 DEF LockTask, SessionsSound, TypeOK
  <2> QED
    BY <2>3, <2>4, <2>5
<1>5. ASSUME NEW w \in Workers, DecideTask(w)
      PROVE  BaseInv'
  <2> DEFINE s == session[w]
             b == request[s.req].bal
             status == NextApprovalStatus(s.action)
             new == SettleLeaveUnits(s.seen, request[s.req].units, s.action)
  <2>1. /\ s.req \in Requests /\ s.action \in Actions /\ s.seen \in BalanceRow
        /\ request[s.req] # NoRequest /\ b \in Balances
        /\ request[s.req].units \in Nat
    BY <1>5, DecideFacts DEF DecideTask
  <2>2. /\ new.used \in Nat /\ new.pending \in Nat /\ new.carryUsed \in Nat
        /\ new.yearUsed \in Nat /\ new.remaining \in Int
    BY <2>1, SettleColumns
  <2>3. status \in Decisions
    BY DEF NextApprovalStatus, Decisions
  <2>4. /\ task' = [task EXCEPT ![s.req] = status]
        /\ request' = [request EXCEPT ![s.req].status = status]
        /\ balance' = [balance EXCEPT ![b].used = new.used,
                                      ![b].pending = new.pending,
                                      ![b].carryUsed = new.carryUsed,
                                      ![b].yearUsed = new.yearUsed,
                                      ![b].remaining = new.remaining]
        /\ events' = [events EXCEPT ![s.req] = Append(@, status)]
        /\ crossed' = [crossed EXCEPT ![b] =
                         @ \/ s.seen # balance[b] \/ s.saw # task[s.req]]
        /\ session' = [session EXCEPT ![w] = Idle]
        /\ closed' = closed
    BY <1>5 DEF DecideTask
  <2> DEFINE row == [balance[b] EXCEPT !.used = new.used,
                                       !.pending = new.pending,
                                       !.carryUsed = new.carryUsed,
                                       !.yearUsed = new.yearUsed,
                                       !.remaining = new.remaining]
  <2> HIDE DEF s, b, status, new
  <2>5. balance' \in [Balances -> BalanceRow]
    <3>1. balance[b] \in BalanceRow
      BY <2>1 DEF TypeOK
    <3>2. row \in BalanceRow
      BY <2>2, <3>1 DEF BalanceRow
    <3>3. balance' = [balance EXCEPT ![b] = row]
      BY <2>1, <2>4 DEF TypeOK
    <3> QED
      BY <2>1, <3>2, <3>3 DEF TypeOK
  <2>6. request' \in [Requests -> {NoRequest} \cup
                        [status : ApprovalStatus, bal : Balances, units : Nat \ {0}]]
    BY <2>1, <2>3, <2>4 DEF TypeOK, ApprovalStatus, NoRequest
  <2>7. TypeOK'
    BY <2>1, <2>3, <2>4, <2>5, <2>6 DEF TypeOK, ApprovalStatus, Session
  <2>8. /\ \A r \in Requests : r # s.req => events'[r] = events[r]
        /\ events'[s.req] # <<>>
        /\ events'[s.req][Len(events'[s.req])] = status
    <3>1. events[s.req] \in Seq(Decisions)
      BY <2>1 DEF TypeOK
    <3>2. /\ Append(events[s.req], status) # <<>>
          /\ Append(events[s.req], status)[Len(Append(events[s.req], status))] = status
      BY <2>3, <3>1, AppendLast
    <3>3. events'[s.req] = Append(events[s.req], status)
      BY <2>1, <2>4 DEF TypeOK
    <3>4. \A r \in Requests : r # s.req => events'[r] = events[r]
      BY <2>4 DEF TypeOK
    <3> QED
      BY <3>2, <3>3, <3>4
  <2>9. TrailAgrees'
    BY <2>1, <2>3, <2>4, <2>8 DEF TrailAgrees, TypeOK, NoRequest, Decisions
  <2>10. SessionsSound'
    <3>1. \A r \in Requests : request'[r] = NoRequest <=> request[r] = NoRequest
      BY <2>1, <2>3, <2>4, <2>9, <2>7 DEF TrailAgrees, TypeOK, Decisions
    <3>2. \A v \in Workers : session'[v] = IF v = w THEN Idle ELSE session[v]
      BY <2>4 DEF TypeOK
    <3>3. \A v \in Workers : session[v].pc \in {"reserving", "deciding", "settling"}
                               => session[v].req \in Requests
      BY DEF TypeOK, Session, Idle
    <3> QED
      BY <3>1, <3>2, <3>3 DEF SessionsSound, Idle
  <2> QED
    BY <2>7, <2>9, <2>10
<1>6. ASSUME NEW w \in Workers, Abort(w)
      PROVE  BaseInv'
  BY <1>6 DEF Abort, TypeOK, TrailAgrees, SessionsSound, Session, Idle
<1>7. CASE UNCHANGED vars
  BY <1>7 DEF vars, TypeOK, TrailAgrees, SessionsSound
<1>8. ASSUME NEW w \in Workers, ReadForGrant(w)
      PROVE  BaseInv'
  <2>1. TypeOK'
    BY <1>8 DEF ReadForGrant, TypeOK, Session
  <2>2. TrailAgrees'
    BY <1>8 DEF ReadForGrant, TrailAgrees
  <2>3. SessionsSound'
    BY <1>8 DEF ReadForGrant, SessionsSound, TypeOK
  <2> QED
    BY <2>1, <2>2, <2>3
<1>9. ASSUME NEW w \in Workers, NEW year \in [AnnualBalances -> GrantChoices],
             GrantYear(w, year)
      PROVE  BaseInv'
  <2>1. balance' \in [Balances -> BalanceRow]
    BY <1>9, GrantFacts DEF GrantYear
  <2>2. TypeOK'
    BY <1>9, <2>1 DEF GrantYear, TypeOK, Session, MadeOn
  <2>3. TrailAgrees'
    BY <1>9 DEF GrantYear, TrailAgrees
  <2>4. SessionsSound'
    BY <1>9 DEF GrantYear, SessionsSound, TypeOK, Idle
  <2> QED
    BY <2>2, <2>3, <2>4
<1> QED
  BY <1>1, <1>2, <1>3, <1>4, <1>5, <1>6, <1>7, <1>8, <1>9 DEF Next, Begin, Proceed, Grant

-----------------------------------------------------------------------------
(***************************************************************************)
(* Type correctness: every column of every balance keeps its range, in     *)
(* particular pending units never go negative, whatever calls cross.       *)
(***************************************************************************)
THEOREM TypeCorrect == Spec => []TypeOK
<1>1. BaseInv => TypeOK
  BY DEF BaseInv
<1> QED
  BY <1>1, BaseInit, BaseStep, PTL DEF Spec

(***************************************************************************)
(* Whoever decides and however often, the task, the request and the event  *)
(* trail show the same last decision.                                      *)
(***************************************************************************)
THEOREM TrailAlwaysAgrees == Spec => []TrailAgrees
<1>1. BaseInv => TrailAgrees
  BY DEF BaseInv
<1> QED
  BY <1>1, BaseInit, BaseStep, PTL DEF Spec

-----------------------------------------------------------------------------
(***************************************************************************)
(* The ledger.  LedgerInv is inductive: an uncrossed balance equals what   *)
(* its requests add up to, so a pending request's units are part of the    *)
(* pending column and settleLeaveUnits' Math.max never cuts anything off.  *)
(* A request left from an earlier year is decided, or its balance crossed. *)
(***************************************************************************)
ClosedSettled ==
    \A r \in closed : /\ request[r] # NoRequest
                      /\ request[r].status = "pending" => crossed[request[r].bal]

LedgerInv ==
    BaseInv /\ LedgerExact /\ NoOverdraw /\ CarryoverFirst /\ DecidedOnce /\ ClosedSettled

\* The counted requests are finitely many and ask for natural numbers.
LEMMA CountsFinite ==
    ASSUME TypeOK, NEW b \in Balances
    PROVE  /\ IsFiniteSet(PendingOn(b)) /\ IsFiniteSet(ApprovedOn(b))
           /\ \A r \in Requests : UnitsAsked[r] \in Nat
           /\ PendingOn(b) \subseteq Requests /\ ApprovedOn(b) \subseteq Requests
<1>1. PendingOn(b) \in SUBSET Requests /\ ApprovedOn(b) \in SUBSET Requests
  BY DEF PendingOn, ApprovedOn, MadeOn
<1>2. IsFiniteSet(PendingOn(b)) /\ IsFiniteSet(ApprovedOn(b))
  BY <1>1, RequestsAssumption, FS_Subset
<1>3. \A r \in Requests : UnitsAsked[r] \in Nat
  BY DEF UnitsAsked, TypeOK
<1> QED
  BY <1>1, <1>2, <1>3

\* A submission adds its units to what is pending on its balance, no more.
LEMMA SubmitCounts ==
    ASSUME BaseInv, NEW w \in Workers, SubmitRequest(w), NEW b \in Balances
    PROVE  /\ PendingUnits(b)' = PendingUnits(b) +
                  (IF b = session[w].bal THEN session[w].units ELSE 0)
           /\ ApprovedUnits(b)' = ApprovedUnits(b)
           /\ PendingUnits(b) \in Nat
<1> DEFINE s == session[w]
<1>1. /\ s.req \in Requests /\ s.bal \in Balances /\ s.units \in Nat \ {0}
      /\ request[s.req] = NoRequest
  BY SubmitFacts
<1>2. request' = [request EXCEPT ![s.req] =
                    [status |-> "pending", bal |-> s.bal, units |-> s.units]]
      /\ closed' = closed
  BY DEF SubmitRequest
<1>3. TypeOK
  BY DEF BaseInv
<1> HIDE DEF s
<1>4. \A r \in Requests : request'[r] = IF r = s.req
          THEN [status |-> "pending", bal |-> s.bal, units |-> s.units] ELSE request[r]
  BY <1>1, <1>2, <1>3 DEF TypeOK
<1>5. /\ s.req \notin PendingOn(b) /\ s.req \notin ApprovedOn(b)
      /\ PendingOn(b)' = IF b = s.bal THEN PendingOn(b) \cup {s.req} ELSE PendingOn(b)
      /\ ApprovedOn(b)' = ApprovedOn(b)
  BY <1>1, <1>2, <1>4 DEF PendingOn, ApprovedOn, MadeOn, NoRequest
<1>6. /\ \A r \in Requests \ {s.req} : UnitsAsked'[r] = UnitsAsked[r]
      /\ UnitsAsked'[s.req] = s.units
  BY <1>1, <1>4 DEF UnitsAsked, NoRequest
<1>7. /\ IsFiniteSet(PendingOn(b)) /\ IsFiniteSet(ApprovedOn(b))
      /\ \A r \in Requests : UnitsAsked[r] \in Nat
      /\ PendingOn(b) \subseteq Requests /\ ApprovedOn(b) \subseteq Requests
  BY <1>3, CountsFinite
<1>8. /\ UnitsOf(PendingOn(b), UnitsAsked') = UnitsOf(PendingOn(b), UnitsAsked)
      /\ UnitsOf(ApprovedOn(b), UnitsAsked') = UnitsOf(ApprovedOn(b), UnitsAsked)
  <2>1. \A r \in PendingOn(b) \cup ApprovedOn(b) : UnitsAsked'[r] = UnitsAsked[r]
    BY <1>5, <1>6, <1>7
  <2> QED
    BY <2>1, UnitsOfCongruent
<1>9. /\ UnitsOf(PendingOn(b), UnitsAsked') \in Nat
      /\ UnitsOf(PendingOn(b) \cup {s.req}, UnitsAsked')
           = UnitsOf(PendingOn(b), UnitsAsked') + s.units
  <2>1. \A r \in PendingOn(b) \cup {s.req} : UnitsAsked'[r] \in Nat
    BY <1>1, <1>6, <1>7
  <2>2. IsFiniteSet(PendingOn(b)) /\ s.req \notin PendingOn(b)
    BY <1>5, <1>7
  <2>3. UnitsOf(PendingOn(b) \cup {s.req}, UnitsAsked')
          = UnitsOf(PendingOn(b), UnitsAsked') + UnitsAsked'[s.req]
    BY <2>1, <2>2, UnitsOfAdd
  <2>4. UnitsOf(PendingOn(b), UnitsAsked') \in Nat
    BY <2>1, <2>2, UnitsOfAdd
  <2> QED
    BY <1>6, <2>3, <2>4
<1>10. /\ PendingUnits(b)' = UnitsOf(PendingOn(b)', UnitsAsked')
       /\ ApprovedUnits(b)' = UnitsOf(ApprovedOn(b)', UnitsAsked')
       /\ PendingUnits(b) = UnitsOf(PendingOn(b), UnitsAsked)
       /\ ApprovedUnits(b) = UnitsOf(ApprovedOn(b), UnitsAsked)
  BY DEF PendingUnits, ApprovedUnits
<1>11. CASE b = s.bal
  BY <1>5, <1>8, <1>9, <1>10, <1>11 DEF s
<1>12. CASE b # s.bal
  BY <1>5, <1>8, <1>9, <1>10, <1>12 DEF s
<1> QED
  BY <1>11, <1>12

\* A decision on a pending request moves its units out of what is pending; no
\* decision touches another balance.
LEMMA DecideCounts ==
    ASSUME BaseInv, NEW w \in Workers, DecideTask(w), NEW b \in Balances
    PROVE  LET s == session[w]
               units == request[s.req].units
               taken == IF s.action = "approve" THEN units ELSE 0
           IN  /\ b # request[s.req].bal =>
                     PendingUnits(b)' = PendingUnits(b) /\ ApprovedUnits(b)' = ApprovedUnits(b)
               /\ b = request[s.req].bal /\ task[s.req] = "pending" /\ s.req \notin closed =>
                     /\ PendingUnits(b)' + units = PendingUnits(b)
                     /\ ApprovedUnits(b)' = ApprovedUnits(b) + taken
                     /\ PendingUnits(b)' \in Nat /\ ApprovedUnits(b) \in Nat
<1> DEFINE s == session[w]
           r0 == s.req
           units == request[r0].units
           status == NextApprovalStatus(s.action)
<1>1. /\ r0 \in Requests /\ s.action \in Actions /\ units \in Nat \ {0}
      /\ request[r0] # NoRequest /\ request[r0].status = task[r0]
  BY DecideFacts DEF DecideTask, BaseInv, TrailAgrees
<1>2. request' = [request EXCEPT ![r0].status = status] /\ closed' = closed
  BY DEF DecideTask
<1>3. TypeOK
  BY DEF BaseInv
<1>4. /\ status # "pending"
      /\ status = "approved" <=> s.action = "approve"
  BY DEF NextApprovalStatus
<1>5. request[r0] \in [status : ApprovalStatus, bal : Balances, units : Nat \ {0}]
  BY <1>1, <1>3 DEF TypeOK
<1> HIDE DEF s, r0, units, status
<1>6. /\ \A r \in Requests : r # r0 => request'[r] = request[r]
      /\ request'[r0] = [request[r0] EXCEPT !.status = status]
  BY <1>1, <1>2, <1>3 DEF TypeOK
<1>7. /\ request'[r0].status = status
      /\ request'[r0].bal = request[r0].bal
      /\ request'[r0].units = units
      /\ request'[r0] # NoRequest
  BY <1>1, <1>5, <1>6, <1>4 DEF NoRequest, units
<1>8. UnitsAsked' = UnitsAsked
  BY <1>1, <1>6, <1>7 DEF UnitsAsked, units
<1>9. /\ IsFiniteSet(PendingOn(b)) /\ IsFiniteSet(ApprovedOn(b))
      /\ \A r \in Requests : UnitsAsked[r] \in Nat
      /\ PendingOn(b) \subseteq Requests /\ ApprovedOn(b) \subseteq Requests
  BY <1>3, CountsFinite
<1>10. /\ PendingUnits(b)' = UnitsOf(PendingOn(b)', UnitsAsked)
       /\ ApprovedUnits(b)' = UnitsOf(ApprovedOn(b)', UnitsAsked)
       /\ PendingUnits(b) = UnitsOf(PendingOn(b), UnitsAsked)
       /\ ApprovedUnits(b) = UnitsOf(ApprovedOn(b), UnitsAsked)
  BY <1>8 DEF PendingUnits, ApprovedUnits
<1>11. UnitsAsked[r0] = units
  BY <1>1 DEF UnitsAsked, units
<1>12. CASE b = request[r0].bal /\ task[r0] = "pending" /\ r0 \notin closed
  <2>1. /\ r0 \in PendingOn(b) /\ r0 \notin ApprovedOn(b)
        /\ PendingOn(b)' = PendingOn(b) \ {r0}
        /\ ApprovedOn(b)' = IF s.action = "approve" THEN ApprovedOn(b) \cup {r0}
                                                    ELSE ApprovedOn(b)
    BY <1>1, <1>2, <1>4, <1>6, <1>7, <1>12 DEF PendingOn, ApprovedOn, MadeOn
  <2>2. /\ UnitsOf(PendingOn(b) \ {r0}, UnitsAsked) \in Nat
        /\ UnitsOf(PendingOn(b), UnitsAsked)
             = UnitsOf(PendingOn(b) \ {r0}, UnitsAsked) + units
    BY <1>9, <1>11, <2>1, UnitsOfRemove
  <2>3. /\ UnitsOf(ApprovedOn(b), UnitsAsked) \in Nat
        /\ UnitsOf(ApprovedOn(b) \cup {r0}, UnitsAsked)
             = UnitsOf(ApprovedOn(b), UnitsAsked) + units
    BY <1>1, <1>9, <1>11, <2>1, UnitsOfAdd
  <2> QED
    BY <1>1, <1>10, <1>12, <2>1, <2>2, <2>3 DEF s, r0, units
<1>13. CASE b # request[r0].bal
  <2>1. PendingOn(b)' = PendingOn(b) /\ ApprovedOn(b)' = ApprovedOn(b)
    BY <1>1, <1>2, <1>6, <1>7, <1>13 DEF PendingOn, ApprovedOn, MadeOn
  <2> QED
    BY <1>10, <1>13, <2>1 DEF s, r0, units
<1> QED
  BY <1>12, <1>13 DEF s, r0, units


LEMMA LedgerInit == Init => LedgerInv
<1> SUFFICES ASSUME Init PROVE LedgerInv
  OBVIOUS
<1>1. BaseInv
  BY BaseInit
<1>2. \A b \in Balances : PendingOn(b) = {} /\ ApprovedOn(b) = {}
  BY DEF Init, PendingOn, ApprovedOn, MadeOn
<1>3. \A b \in Balances : PendingUnits(b) = 0 /\ ApprovedUnits(b) = 0
  BY <1>2, UnitsOfNone DEF PendingUnits, ApprovedUnits
<1>4. \A b \in Balances : /\ balance[b] = FreshRow(CarryUnits[b], YearUnits[b])
                          /\ CarryUnits[b] \in Nat /\ YearUnits[b] \in Nat
  BY UnitsAssumption DEF Init
<1>5. ASSUME NEW b \in Balances
      PROVE  /\ balance[b].pending = 0 /\ balance[b].used = 0
             /\ balance[b].remaining = Remaining(balance[b])
             /\ balance[b].remaining >= 0
             /\ balance[b].carryUsed = 0 /\ balance[b].yearUsed = 0
             /\ balance[b].carry \in Nat
  <2>1. balance[b] = FreshRow(CarryUnits[b], YearUnits[b])
    BY <1>4
  <2>2. CarryUnits[b] \in Nat /\ YearUnits[b] \in Nat
    BY <1>4
  <2> QED
    BY <2>1, <2>2 DEF FreshRow, Remaining
<1>6. LedgerExact /\ NoOverdraw /\ CarryoverFirst
  BY <1>3, <1>5 DEF LedgerExact, NoOverdraw, CarryoverFirst
<1>7. DecidedOnce /\ ClosedSettled
  BY DEF Init, DecidedOnce, ClosedSettled
<1> QED
  BY <1>1, <1>6, <1>7 DEF LedgerInv

\* allocateLeaveUsage takes from the carried-over units while there are any.
LEMMA SettleCarriesFirst ==
    ASSUME NEW row \in BalanceRow, NEW units \in Nat, NEW action \in Actions,
           row.carryUsed <= row.carry,
           row.yearUsed > 0 => row.carryUsed = row.carry
    PROVE  LET new == SettleLeaveUnits(row, units, action)
           IN  /\ new.carryUsed <= row.carry
               /\ new.yearUsed > 0 => new.carryUsed = row.carry
<1>1. CASE action = "approve"
  <2>1. /\ SettleLeaveUnits(row, units, action).carryUsed
              = row.carryUsed + CarryoverApplied(row, units)
        /\ SettleLeaveUnits(row, units, action).yearUsed
              = row.yearUsed + units - CarryoverApplied(row, units)
    BY <1>1 DEF SettleLeaveUnits
  <2> QED
    BY <2>1 DEF CarryoverApplied, CarryoverAvailable, AtLeastZero, Lesser, BalanceRow
<1>2. CASE action # "approve"
  <2>1. /\ SettleLeaveUnits(row, units, action).carryUsed = row.carryUsed + 0
        /\ SettleLeaveUnits(row, units, action).yearUsed = row.yearUsed + 0 - 0
    BY <1>2 DEF SettleLeaveUnits
  <2> QED
    BY <2>1 DEF BalanceRow
<1> QED
  BY <1>1, <1>2

\* A submission that crosses nothing keeps its balance exact.
LEMMA SubmitKeepsLedger ==
    ASSUME LedgerInv, NEW w \in Workers, SubmitRequest(w)
    PROVE  LedgerExact' /\ NoOverdraw' /\ CarryoverFirst' /\ DecidedOnce' /\ ClosedSettled'
<1> DEFINE s == session[w]
<1>0. BaseInv /\ TypeOK
  BY DEF LedgerInv, BaseInv
<1>1. /\ s.req \in Requests /\ s.bal \in Balances
      /\ s.seen \in BalanceRow /\ s.units \in Nat \ {0}
      /\ CanReserve(s.seen, s.units) /\ request[s.req] = NoRequest
  BY <1>0, SubmitFacts
<1>2. /\ ReserveLeaveUnits(s.seen, s.units).pending = s.seen.pending + s.units
      /\ ReserveLeaveUnits(s.seen, s.units).remaining = Remaining(s.seen) - s.units
  BY <1>1, ReserveType
<1>3. /\ balance' = [balance EXCEPT ![s.bal].pending = s.seen.pending + s.units,
                                    ![s.bal].remaining = Remaining(s.seen) - s.units]
      /\ crossed' = [crossed EXCEPT ![s.bal] = @ \/ s.seen # balance[s.bal]]
      /\ request' = [request EXCEPT ![s.req] =
                       [status |-> "pending", bal |-> s.bal, units |-> s.units]]
      /\ events' = events /\ closed' = closed
  BY <1>2 DEF SubmitRequest
<1>4. \A b \in Balances :
        /\ PendingUnits(b)' = PendingUnits(b) + (IF b = s.bal THEN s.units ELSE 0)
        /\ ApprovedUnits(b)' = ApprovedUnits(b)
        /\ PendingUnits(b) \in Nat
  BY <1>0, SubmitCounts
<1> HIDE DEF s
<1>5. ASSUME NEW b \in Balances, ~crossed'[b]
      PROVE  /\ balance'[b].pending = PendingUnits(b)'
             /\ balance'[b].used = ApprovedUnits(b)'
             /\ balance'[b].remaining = Remaining(balance'[b])
             /\ balance'[b].remaining >= 0
             /\ balance'[b].carryUsed + balance'[b].yearUsed = balance'[b].used
             /\ balance'[b].carryUsed <= balance'[b].carry
             /\ balance'[b].yearUsed > 0 => balance'[b].carryUsed = balance'[b].carry
  <2>1. ~crossed[b] /\ balance[b] \in BalanceRow
    BY <1>0, <1>1, <1>3, <1>5 DEF TypeOK
  <2>2. /\ balance[b].pending = PendingUnits(b)
        /\ balance[b].used = ApprovedUnits(b)
        /\ balance[b].remaining = Remaining(balance[b])
        /\ balance[b].remaining >= 0
        /\ balance[b].carryUsed + balance[b].yearUsed = balance[b].used
        /\ balance[b].carryUsed <= balance[b].carry
        /\ balance[b].yearUsed > 0 => balance[b].carryUsed = balance[b].carry
    BY <2>1 DEF LedgerInv, LedgerExact, NoOverdraw, CarryoverFirst
  <2>3. CASE b # s.bal
    <3>1. PendingUnits(b)' = PendingUnits(b) /\ ApprovedUnits(b)' = ApprovedUnits(b)
      BY <1>4, <2>3
    <3>2. balance'[b] = balance[b]
      BY <1>0, <1>1, <1>3, <2>3 DEF TypeOK
    <3> QED
      BY <2>2, <3>1, <3>2
  <2>4. CASE b = s.bal
    <3>1. /\ PendingUnits(b)' = PendingUnits(b) + s.units
          /\ ApprovedUnits(b)' = ApprovedUnits(b)
      BY <1>4, <2>4
    <3>2. s.seen = balance[b]
      BY <1>0, <1>1, <1>3, <1>5, <2>4 DEF TypeOK
    <3>3. balance'[b] = [balance[b] EXCEPT
                           !.pending = balance[b].pending + s.units,
                           !.remaining = Remaining(balance[b]) - s.units]
      BY <1>0, <1>1, <1>3, <2>4, <3>2 DEF TypeOK
    <3>4. /\ balance'[b].pending = balance[b].pending + s.units
          /\ balance'[b].remaining = Remaining(balance[b]) - s.units
          /\ balance'[b].used = balance[b].used
          /\ balance'[b].granted = balance[b].granted
          /\ balance'[b].settled = balance[b].settled
          /\ balance'[b].carry = balance[b].carry
          /\ balance'[b].carryUsed = balance[b].carryUsed
          /\ balance'[b].yearUsed = balance[b].yearUsed
      BY <2>1, <3>3 DEF BalanceRow
    <3>5. /\ balance'[b].remaining = Remaining(balance'[b])
          /\ balance'[b].remaining >= 0
      BY <1>1, <2>1, <3>2, <3>4 DEF Remaining, CanReserve, BalanceRow
    <3> QED
      BY <2>2, <3>1, <3>4, <3>5
  <2> QED
    BY <2>3, <2>4
<1>6. LedgerExact' /\ NoOverdraw' /\ CarryoverFirst'
  BY <1>5 DEF LedgerExact, NoOverdraw, CarryoverFirst
<1>7. DecidedOnce'
  <2>1. events[s.req] = <<>>
    BY <1>0, <1>1 DEF LedgerInv, BaseInv, TrailAgrees, Decisions, NoRequest
  <2> SUFFICES ASSUME NEW r \in Requests, request'[r] # NoRequest,
                      ~crossed'[request'[r].bal]
               PROVE  Len(events'[r]) <= 1
    BY DEF DecidedOnce
  <2>2. CASE r = s.req
    BY <1>3, <2>1, <2>2
  <2>3. CASE r # s.req
    <3>1. request'[r] = request[r]
      BY <1>0, <1>3, <2>3 DEF TypeOK
    <3>2. request[r].bal \in Balances
      BY <1>0, <3>1 DEF TypeOK
    <3>3. ~crossed[request[r].bal]
      BY <1>0, <1>1, <1>3, <3>1, <3>2 DEF TypeOK
    <3> QED
      BY <1>3, <3>1, <3>3 DEF LedgerInv, DecidedOnce
  <2> QED
    BY <2>2, <2>3
<1>8. ClosedSettled'
  <2> SUFFICES ASSUME NEW r \in closed
               PROVE  /\ request'[r] # NoRequest
                      /\ request'[r].status = "pending" => crossed'[request'[r].bal]
    BY <1>3 DEF ClosedSettled
  <2>1. r \in Requests /\ r # s.req
    BY <1>0, <1>1 DEF TypeOK, LedgerInv, ClosedSettled
  <2>2. request'[r] = request[r]
    BY <1>0, <1>3, <2>1 DEF TypeOK
  <2>3. /\ request[r] # NoRequest /\ request[r].bal \in Balances
        /\ request[r].status = "pending" => crossed[request[r].bal]
    BY <1>0, <2>1 DEF TypeOK, LedgerInv, ClosedSettled
  <2>4. \A c \in Balances : crossed[c] => crossed'[c]
    BY <1>0, <1>3 DEF TypeOK
  <2> QED
    BY <2>2, <2>3, <2>4
<1> QED
  BY <1>6, <1>7, <1>8

\* A decision that crosses nothing keeps its balance exact.
LEMMA DecideKeepsLedger ==
    ASSUME LedgerInv, NEW w \in Workers, DecideTask(w)
    PROVE  LedgerExact' /\ NoOverdraw' /\ CarryoverFirst' /\ DecidedOnce' /\ ClosedSettled'
<1> DEFINE s == session[w]
           own == request[s.req].bal
           units == request[s.req].units
           status == NextApprovalStatus(s.action)
           taken == IF s.action = "approve" THEN units ELSE 0
           new == SettleLeaveUnits(s.seen, units, s.action)
<1>0. BaseInv /\ TypeOK
  BY DEF LedgerInv, BaseInv
<1>1. /\ s.req \in Requests /\ s.action \in Actions /\ s.seen \in BalanceRow
      /\ request[s.req] # NoRequest /\ own \in Balances /\ units \in Nat \ {0}
      /\ s.saw = "pending"
  BY <1>0, DecideFacts DEF DecideTask
<1>2. /\ new.used = s.seen.used + taken
      /\ new.pending = AtLeastZero(s.seen.pending - units)
      /\ new.carryUsed + new.yearUsed = s.seen.carryUsed + s.seen.yearUsed + taken
      /\ new.remaining = s.seen.granted - new.used - s.seen.settled - new.pending
      /\ new.carryUsed \in Nat /\ new.yearUsed \in Nat
      /\ new.used \in Nat /\ new.pending \in Nat /\ new.remaining \in Int
  BY <1>1, SettleColumns
<1>3. /\ balance' = [balance EXCEPT ![own].used = new.used,
                                    ![own].pending = new.pending,
                                    ![own].carryUsed = new.carryUsed,
                                    ![own].yearUsed = new.yearUsed,
                                    ![own].remaining = new.remaining]
      /\ crossed' = [crossed EXCEPT ![own] =
                       @ \/ s.seen # balance[own] \/ s.saw # task[s.req]]
      /\ request' = [request EXCEPT ![s.req].status = status]
      /\ events' = [events EXCEPT ![s.req] = Append(@, status)]
      /\ closed' = closed
  BY DEF DecideTask
<1>4. \A b \in Balances :
        /\ b # own =>
              PendingUnits(b)' = PendingUnits(b) /\ ApprovedUnits(b)' = ApprovedUnits(b)
        /\ b = own /\ task[s.req] = "pending" /\ s.req \notin closed =>
              /\ PendingUnits(b)' + units = PendingUnits(b)
              /\ ApprovedUnits(b)' = ApprovedUnits(b) + taken
              /\ PendingUnits(b)' \in Nat /\ ApprovedUnits(b) \in Nat
  BY <1>0, <1>1, DecideCounts
<1>5. s.seen.carryUsed <= s.seen.carry
      /\ (s.seen.yearUsed > 0 => s.seen.carryUsed = s.seen.carry)
      => /\ new.carryUsed <= s.seen.carry
         /\ new.yearUsed > 0 => new.carryUsed = s.seen.carry
  BY <1>1, SettleCarriesFirst
<1>6. taken \in Nat /\ taken <= units
  BY <1>1
<1>7. status \in Decisions
  BY DEF NextApprovalStatus, Decisions
<1> HIDE DEF s, own, units, taken, new, status
<1>8. ASSUME NEW b \in Balances, ~crossed'[b]
      PROVE  /\ balance'[b].pending = PendingUnits(b)'
             /\ balance'[b].used = ApprovedUnits(b)'
             /\ balance'[b].remaining = Remaining(balance'[b])
             /\ balance'[b].remaining >= 0
             /\ balance'[b].carryUsed + balance'[b].yearUsed = balance'[b].used
             /\ balance'[b].carryUsed <= balance'[b].carry
             /\ balance'[b].yearUsed > 0 => balance'[b].carryUsed = balance'[b].carry
  <2>1. ~crossed[b] /\ balance[b] \in BalanceRow
    BY <1>0, <1>1, <1>3, <1>8 DEF TypeOK
  <2>2. /\ balance[b].pending = PendingUnits(b)
        /\ balance[b].used = ApprovedUnits(b)
        /\ balance[b].remaining = Remaining(balance[b])
        /\ balance[b].remaining >= 0
        /\ balance[b].carryUsed + balance[b].yearUsed = balance[b].used
        /\ balance[b].carryUsed <= balance[b].carry
        /\ balance[b].yearUsed > 0 => balance[b].carryUsed = balance[b].carry
    BY <2>1 DEF LedgerInv, LedgerExact, NoOverdraw, CarryoverFirst
  <2>3. CASE b # own
    <3>1. balance'[b] = balance[b]
      BY <1>0, <1>1, <1>3, <2>3 DEF TypeOK
    <3>2. PendingUnits(b)' = PendingUnits(b) /\ ApprovedUnits(b)' = ApprovedUnits(b)
      BY <1>4, <2>3
    <3> QED
      BY <2>2, <3>1, <3>2
  <2>4. CASE b = own
    <3>0. s.seen = balance[b] /\ task[s.req] = "pending"
      BY <1>0, <1>1, <1>3, <1>8, <2>4 DEF TypeOK
    <3>1. s.seen = balance[b] /\ task[s.req] = "pending" /\ s.req \notin closed
      BY <1>0, <1>1, <2>1, <2>4, <3>0 DEF own, LedgerInv, ClosedSettled, BaseInv, TrailAgrees
    <3>2. /\ PendingUnits(b)' + units = PendingUnits(b)
          /\ ApprovedUnits(b)' = ApprovedUnits(b) + taken
          /\ PendingUnits(b)' \in Nat
      BY <1>4, <2>4, <3>1
    <3>3. balance'[b] = [balance[b] EXCEPT !.used = new.used,
                                           !.pending = new.pending,
                                           !.carryUsed = new.carryUsed,
                                           !.yearUsed = new.yearUsed,
                                           !.remaining = new.remaining]
      BY <1>0, <1>1, <1>3, <2>4 DEF TypeOK
    <3>4. /\ balance'[b].used = new.used
          /\ balance'[b].pending = new.pending
          /\ balance'[b].carryUsed = new.carryUsed
          /\ balance'[b].yearUsed = new.yearUsed
          /\ balance'[b].remaining = new.remaining
          /\ balance'[b].granted = balance[b].granted
          /\ balance'[b].settled = balance[b].settled
          /\ balance'[b].carry = balance[b].carry
      BY <2>1, <3>3 DEF BalanceRow
    <3>5. new.pending = balance[b].pending - units
      BY <1>1, <1>2, <2>1, <2>2, <3>1, <3>2 DEF AtLeastZero, BalanceRow
    <3>6. /\ balance'[b].pending = PendingUnits(b)'
          /\ balance'[b].used = ApprovedUnits(b)'
      BY <1>1, <1>2, <1>6, <2>1, <2>2, <3>1, <3>2, <3>4, <3>5 DEF BalanceRow
    <3>7. /\ balance'[b].remaining = Remaining(balance'[b])
          /\ balance'[b].remaining >= 0
      BY <1>1, <1>2, <1>6, <2>1, <2>2, <3>1, <3>4, <3>5 DEF Remaining, BalanceRow
    <3>8. balance'[b].carryUsed + balance'[b].yearUsed = balance'[b].used
      BY <1>2, <1>6, <2>1, <2>2, <3>1, <3>4 DEF BalanceRow
    <3> QED
      BY <1>5, <2>2, <3>1, <3>4, <3>6, <3>7, <3>8
  <2> QED
    BY <2>3, <2>4
<1>9. LedgerExact' /\ NoOverdraw' /\ CarryoverFirst'
  BY <1>8 DEF LedgerExact, NoOverdraw, CarryoverFirst
<1>10. DecidedOnce'
  <2> SUFFICES ASSUME NEW r \in Requests, request'[r] # NoRequest,
                      ~crossed'[request'[r].bal]
               PROVE  Len(events'[r]) <= 1
    BY DEF DecidedOnce
  <2>1. request[r].bal \in Balances /\ request'[r].bal = request[r].bal
        /\ request[r] # NoRequest
    BY <1>0, <1>1, <1>3 DEF TypeOK
  <2>2. ~crossed[request[r].bal]
    BY <1>0, <1>1, <1>3, <2>1 DEF TypeOK
  <2>3. CASE r # s.req
    BY <1>0, <1>3, <2>1, <2>2, <2>3 DEF LedgerInv, DecidedOnce, TypeOK
  <2>4. CASE r = s.req
    <3>1. task[r] = "pending"
      BY <1>0, <1>1, <1>3, <2>1, <2>4 DEF TypeOK, own
    <3>2. events[r] = <<>>
      BY <1>0, <3>1 DEF BaseInv, TrailAgrees, Decisions
    <3>3. events'[r] = Append(events[r], status)
      BY <1>0, <1>3, <2>4 DEF TypeOK
    <3> QED
      BY <1>7, <3>2, <3>3
  <2> QED
    BY <2>3, <2>4
<1>11. ClosedSettled'
  <2> SUFFICES ASSUME NEW r \in closed
               PROVE  /\ request'[r] # NoRequest
                      /\ request'[r].status = "pending" => crossed'[request'[r].bal]
    BY <1>3 DEF ClosedSettled
  <2>1. /\ r \in Requests /\ request[r] # NoRequest /\ request[r].bal \in Balances
        /\ request[r] \in [status : ApprovalStatus, bal : Balances, units : Nat \ {0}]
    BY <1>0 DEF TypeOK, LedgerInv, ClosedSettled
  <2>2. CASE r = s.req
    <3>1. request'[r] = [request[r] EXCEPT !.status = status]
      BY <1>0, <1>3, <2>1, <2>2 DEF TypeOK
    <3> QED
      BY <1>7, <2>1, <3>1 DEF NoRequest, Decisions
  <2>3. CASE r # s.req
    <3>1. request'[r] = request[r]
      BY <1>0, <1>3, <2>1, <2>3 DEF TypeOK
    <3>2. request[r].status = "pending" => crossed[request[r].bal]
      BY DEF LedgerInv, ClosedSettled
    <3>3. \A c \in Balances : crossed[c] => crossed'[c]
      BY <1>0, <1>3 DEF TypeOK
    <3> QED
      BY <2>1, <3>1, <3>2, <3>3
  <2> QED
    BY <2>2, <2>3
<1> QED
  BY <1>9, <1>10, <1>11



\* A grant over a balance with nothing pending starts a year with an exact row.
LEMMA GrantKeepsLedger ==
    ASSUME LedgerInv, NEW w \in Workers, NEW year \in [AnnualBalances -> GrantChoices],
           GrantYear(w, year)
    PROVE  LedgerExact' /\ NoOverdraw' /\ CarryoverFirst' /\ DecidedOnce' /\ ClosedSettled'
<1> DEFINE seen == session[w].seen
<1>0. BaseInv /\ TypeOK
  BY DEF LedgerInv, BaseInv
<1>1. /\ seen \in [Balances -> BalanceRow]
      /\ \A b \in Balances \ AnnualBalances : balance'[b] = balance[b]
      /\ \A b \in AnnualBalances :
           /\ balance'[b] = FreshRow(CarriedOver(seen[b], CarryLimit), year[b])
           /\ year[b] \in Nat /\ b \in Balances
  BY <1>0, GrantFacts
<1>2. /\ \A b \in Balances : crossed'[b] <=>
           \/ crossed[b]
           \/ b \in AnnualBalances /\ (seen[b] # balance[b] \/ PendingOn(b) # {})
      /\ closed' = closed \cup UNION {MadeOn(b) : b \in AnnualBalances}
      /\ request' = request /\ events' = events
  BY DEF GrantYear
<1> HIDE DEF seen
<1>3. ASSUME NEW b \in Balances, ~crossed'[b]
      PROVE  /\ balance'[b].pending = PendingUnits(b)'
             /\ balance'[b].used = ApprovedUnits(b)'
             /\ balance'[b].remaining = Remaining(balance'[b])
             /\ balance'[b].remaining >= 0
             /\ balance'[b].carryUsed + balance'[b].yearUsed = balance'[b].used
             /\ balance'[b].carryUsed <= balance'[b].carry
             /\ balance'[b].yearUsed > 0 => balance'[b].carryUsed = balance'[b].carry
  <2>1. ~crossed[b] /\ balance[b] \in BalanceRow
    BY <1>0, <1>2, <1>3 DEF TypeOK
  <2>2. /\ balance[b].pending = PendingUnits(b)
        /\ balance[b].used = ApprovedUnits(b)
        /\ balance[b].remaining = Remaining(balance[b])
        /\ balance[b].remaining >= 0
        /\ balance[b].carryUsed + balance[b].yearUsed = balance[b].used
        /\ balance[b].carryUsed <= balance[b].carry
        /\ balance[b].yearUsed > 0 => balance[b].carryUsed = balance[b].carry
    BY <2>1 DEF LedgerInv, LedgerExact, NoOverdraw, CarryoverFirst
  <2>3. PendingUnits(b)' = PendingUnits(b)
    BY <1>2 DEF PendingUnits, PendingOn, MadeOn, UnitsAsked
  <2>4. CASE b \notin AnnualBalances
    <3>1. ApprovedOn(b)' = ApprovedOn(b)
      BY <1>2, <2>4 DEF ApprovedOn, MadeOn
    <3>2. ApprovedUnits(b)' = ApprovedUnits(b)
      BY <1>2, <3>1 DEF ApprovedUnits, UnitsAsked
    <3>3. balance'[b] = balance[b]
      BY <1>1, <2>4
    <3> QED
      BY <2>2, <2>3, <3>2, <3>3
  <2>5. CASE b \in AnnualBalances
    <3>1. PendingOn(b) = {} /\ seen[b] = balance[b]
      BY <1>2, <1>3, <2>5
    <3>2. ApprovedOn(b)' = {}
      BY <1>2, <2>5 DEF ApprovedOn, MadeOn
    <3>3. PendingUnits(b) = 0
      BY <3>1, UnitsOfNone DEF PendingUnits
    <3>4. ApprovedUnits(b)' = 0
      BY <3>2, UnitsOfNone DEF ApprovedUnits
    <3>5. /\ balance'[b].pending = 0 /\ balance'[b].used = 0
          /\ balance'[b].carryUsed = 0 /\ balance'[b].yearUsed = 0
          /\ balance'[b].remaining = Remaining(balance'[b])
          /\ balance'[b].remaining >= 0 /\ balance'[b].carry >= 0
      BY <1>1, <2>1, <2>2, <2>5, <3>1, GrantType
    <3>6. balance'[b].carry \in Int
      BY <1>1, <2>1, <2>5, <3>1, GrantType DEF BalanceRow
    <3> QED
      BY <2>3, <3>3, <3>4, <3>5, <3>6
  <2> QED
    BY <2>4, <2>5
<1>4. LedgerExact' /\ NoOverdraw' /\ CarryoverFirst'
  BY <1>3 DEF LedgerExact, NoOverdraw, CarryoverFirst
<1>5. DecidedOnce'
  BY <1>0, <1>2 DEF LedgerInv, DecidedOnce, TypeOK
<1>6. ClosedSettled'
  <2> SUFFICES ASSUME NEW r \in closed', request[r].status = "pending" \/ request[r] = NoRequest
               PROVE  request[r] # NoRequest /\ crossed'[request[r].bal]
    BY <1>2 DEF ClosedSettled
  <2>1. CASE r \in closed
    BY <1>0, <1>2, <2>1 DEF LedgerInv, ClosedSettled, TypeOK
  <2>2. CASE r \notin closed
    <3>1. PICK b \in AnnualBalances : r \in MadeOn(b)
      BY <1>2, <2>2
    <3>2. r \in PendingOn(b) /\ request[r] # NoRequest /\ request[r].bal = b
      BY <3>1 DEF PendingOn, MadeOn
    <3> QED
      BY <1>1, <1>2, <3>2
  <2> QED
    BY <2>1, <2>2
<1> QED
  BY <1>4, <1>5, <1>6

LEMMA LedgerStep == LedgerInv /\ [Next]_vars => LedgerInv'
<1> SUFFICES ASSUME LedgerInv, [Next]_vars PROVE LedgerInv'
  OBVIOUS
<1>1. BaseInv'
  BY BaseStep DEF LedgerInv
<1>2. ASSUME NEW w \in Workers, SubmitRequest(w)
      PROVE  LedgerExact' /\ NoOverdraw' /\ CarryoverFirst' /\ DecidedOnce' /\ ClosedSettled'
  BY <1>2, SubmitKeepsLedger
<1>3. ASSUME NEW w \in Workers, DecideTask(w)
      PROVE  LedgerExact' /\ NoOverdraw' /\ CarryoverFirst' /\ DecidedOnce' /\ ClosedSettled'
  BY <1>3, DecideKeepsLedger
<1>4. ASSUME UNCHANGED <<balance, request, task, events, crossed, closed>>
      PROVE  LedgerExact' /\ NoOverdraw' /\ CarryoverFirst' /\ DecidedOnce' /\ ClosedSettled'
  BY <1>4 DEF LedgerInv, LedgerExact, NoOverdraw, CarryoverFirst, DecidedOnce,
              PendingUnits, ApprovedUnits, PendingOn, ApprovedOn, MadeOn, UnitsAsked, ClosedSettled
<1>5. ASSUME NEW w \in Workers, NEW year \in [AnnualBalances -> GrantChoices],
             GrantYear(w, year)
      PROVE  LedgerExact' /\ NoOverdraw' /\ CarryoverFirst' /\ DecidedOnce' /\ ClosedSettled'
  BY <1>5, GrantKeepsLedger
<1>6. UNCHANGED <<balance, request, task, events, crossed, closed>>
      \/ \E w \in Workers : SubmitRequest(w) \/ DecideTask(w) \/ Grant(w)
  BY DEF Next, Begin, Proceed, vars, ReadBalance, ReadTask, ReadForGrant, LockTask, Abort
<1> QED
  BY <1>1, <1>2, <1>3, <1>4, <1>5, <1>6 DEF LedgerInv, Grant

(***************************************************************************)
(* As long as no call on a balance has crossed another, its columns are    *)
(* exactly what its requests add up to.                                    *)
(***************************************************************************)
THEOREM LedgerAlwaysExact == Spec => []LedgerExact
<1>1. LedgerInv => LedgerExact
  BY DEF LedgerInv
<1> QED
  BY <1>1, LedgerInit, LedgerStep, PTL DEF Spec

(***************************************************************************)
(* ... its remaining column agrees with the others and is not negative,    *)
(***************************************************************************)
THEOREM NeverOverdrawn == Spec => []NoOverdraw
<1>1. LedgerInv => NoOverdraw
  BY DEF LedgerInv
<1> QED
  BY <1>1, LedgerInit, LedgerStep, PTL DEF Spec

(***************************************************************************)
(* ... its carried-over units are used before the current year's,          *)
(***************************************************************************)
THEOREM CarryoverAlwaysFirst == Spec => []CarryoverFirst
<1>1. LedgerInv => CarryoverFirst
  BY DEF LedgerInv
<1> QED
  BY <1>1, LedgerInit, LedgerStep, PTL DEF Spec

(***************************************************************************)
(* ... and each of its requests was decided at most once.                  *)
(***************************************************************************)
THEOREM DecidedAtMostOnce == Spec => []DecidedOnce
<1>1. LedgerInv => DecidedOnce
  BY DEF LedgerInv
<1> QED
  BY <1>1, LedgerInit, LedgerStep, PTL DEF Spec


-----------------------------------------------------------------------------
(* Refinement *)

\* A function that differs from another at one point is that one EXCEPT there.
LEMMA ExceptAtPoint ==
    ASSUME NEW D, NEW f, NEW g, f = [x \in D |-> f[x]], g = [x \in D |-> g[x]],
           NEW d \in D, NEW v, g[d] = v, \A x \in D : x # d => g[x] = f[x]
    PROVE  g = [f EXCEPT ![d] = v]
OBVIOUS

\* A submission that crosses nothing reserves atomically.
LEMMA SubmitReserves ==
    ASSUME LedgerInv, NEW w \in Workers, SubmitRequest(w), \A b \in Balances : ~crossed'[b]
    PROVE  Ledger!Reserve(session[w].req, session[w].bal, session[w].units)
<1> DEFINE s == session[w]
<1>0. BaseInv /\ TypeOK
  BY DEF LedgerInv, BaseInv
<1>1. /\ s.req \in Requests /\ s.bal \in Balances
      /\ s.seen \in BalanceRow /\ s.units \in Nat \ {0}
      /\ CanReserve(s.seen, s.units) /\ request[s.req] = NoRequest
  BY <1>0, SubmitFacts
<1>2. /\ ReserveLeaveUnits(s.seen, s.units).pending = s.seen.pending + s.units
      /\ ReserveLeaveUnits(s.seen, s.units).remaining = Remaining(s.seen) - s.units
  BY <1>1, ReserveType, UnitsAssumption
<1>3. /\ balance' = [balance EXCEPT ![s.bal].pending = s.seen.pending + s.units,
                                    ![s.bal].remaining = Remaining(s.seen) - s.units]
      /\ crossed' = [crossed EXCEPT ![s.bal] = @ \/ s.seen # balance[s.bal]]
      /\ request' = [request EXCEPT ![s.req] =
                       [status |-> "pending", bal |-> s.bal, units |-> s.units]]
  BY <1>2 DEF SubmitRequest
<1> HIDE DEF s
<1>4. s.seen = balance[s.bal]
  BY <1>0, <1>1, <1>3 DEF TypeOK
<1>5. /\ \A b \in Balances : b # s.bal => balance'[b] = balance[b]
      /\ balance'[s.bal].pending = balance[s.bal].pending + s.units
      /\ balance'[s.bal].used = balance[s.bal].used
      /\ balance'[s.bal].granted = balance[s.bal].granted
      /\ balance'[s.bal].settled = balance[s.bal].settled
  BY <1>0, <1>1, <1>3, <1>4 DEF TypeOK, BalanceRow
<1>6. entryBar[s.req] = Ledger!NoEntry
  BY <1>1 DEF entryBar, Ledger!NoEntry
<1>7. s.units > 0 /\ s.units <= Ledger!Available(s.bal)
  <2>1. Ledger!Available(s.bal) = Remaining(balance[s.bal])
    <3>1. balance[s.bal] \in BalanceRow
      BY <1>0, <1>1 DEF TypeOK
    <3>2. bookBar[s.bal] = [entitled |-> balance[s.bal].granted - balance[s.bal].settled,
                            used     |-> balance[s.bal].used,
                            pending  |-> balance[s.bal].pending]
      BY <1>1 DEF bookBar
    <3>3. Ledger!Available(s.bal) = (balance[s.bal].granted - balance[s.bal].settled)
                                      - balance[s.bal].used - balance[s.bal].pending
      BY <3>2 DEF Ledger!Available
    <3> QED
      BY <3>1, <3>3 DEF Remaining, BalanceRow
  <2> QED
    BY <1>1, <1>4, <2>1 DEF CanReserve
<1>8. entryBar' = [entryBar EXCEPT ![s.req] =
                     [state |-> "pending", bal |-> s.bal, units |-> s.units]]
  <2>1. request'[s.req] = [status |-> "pending", bal |-> s.bal, units |-> s.units]
        /\ request'[s.req] # NoRequest
    BY <1>0, <1>1, <1>3 DEF TypeOK, NoRequest
  <2>2. \A r \in Requests : r # s.req => request'[r] = request[r]
    BY <1>0, <1>3 DEF TypeOK
  <2>3. /\ entryBar = [r \in Requests |-> entryBar[r]]
        /\ entryBar' = [r \in Requests |-> entryBar'[r]]
    BY DEF entryBar
  <2>4. entryBar'[s.req] = [state |-> "pending", bal |-> s.bal, units |-> s.units]
    BY <1>1, <2>1 DEF entryBar
  <2>5. \A r \in Requests : r # s.req => entryBar'[r] = entryBar[r]
    BY <2>2 DEF entryBar
  <2> QED
    BY <1>1, <2>3, <2>4, <2>5, ExceptAtPoint
<1>9. bookBar' = [bookBar EXCEPT ![s.bal].pending = @ + s.units]
  <2>1. /\ bookBar = [b \in Balances |-> bookBar[b]]
        /\ bookBar' = [b \in Balances |-> bookBar'[b]]
    BY DEF bookBar
  <2>2. bookBar'[s.bal] = [bookBar[s.bal] EXCEPT !.pending = bookBar[s.bal].pending + s.units]
    BY <1>1, <1>5 DEF bookBar
  <2>3. \A b \in Balances : b # s.bal => bookBar'[b] = bookBar[b]
    BY <1>5 DEF bookBar
  <2> QED
    BY <1>1, <2>1, <2>2, <2>3, ExceptAtPoint
<1> QED
  BY <1>6, <1>7, <1>8, <1>9 DEF Ledger!Reserve, s

\* A decision that crosses nothing settles atomically.
LEMMA DecideSettles ==
    ASSUME LedgerInv, NEW w \in Workers, DecideTask(w), \A b \in Balances : ~crossed'[b]
    PROVE  Ledger!Settle(session[w].req, session[w].action = "approve")
<1> DEFINE s == session[w]
           own == request[s.req].bal
           units == request[s.req].units
           status == NextApprovalStatus(s.action)
           taken == IF s.action = "approve" THEN units ELSE 0
           new == SettleLeaveUnits(s.seen, units, s.action)
<1>0. BaseInv /\ TypeOK
  BY DEF LedgerInv, BaseInv
<1>1. /\ s.req \in Requests /\ s.action \in Actions /\ s.seen \in BalanceRow
      /\ request[s.req] # NoRequest /\ own \in Balances /\ units \in Nat \ {0}
      /\ s.saw = "pending"
      /\ request[s.req].status = task[s.req]
  BY <1>0, DecideFacts DEF DecideTask, BaseInv, TrailAgrees
<1>2. /\ new.used = s.seen.used + taken
      /\ new.pending = AtLeastZero(s.seen.pending - units)
  BY <1>1, SettleColumns
<1>3. /\ balance' = [balance EXCEPT ![own].used = new.used,
                                    ![own].pending = new.pending,
                                    ![own].carryUsed = new.carryUsed,
                                    ![own].yearUsed = new.yearUsed,
                                    ![own].remaining = new.remaining]
      /\ crossed' = [crossed EXCEPT ![own] =
                       @ \/ s.seen # balance[own] \/ s.saw # task[s.req]]
      /\ request' = [request EXCEPT ![s.req].status = status]
  BY DEF DecideTask
<1>4. \A b \in Balances : b = own /\ task[s.req] = "pending" /\ s.req \notin closed =>
        /\ PendingUnits(b)' + units = PendingUnits(b)
        /\ PendingUnits(b)' \in Nat
  BY <1>0, <1>1, DecideCounts
<1>5. status = IF s.action = "approve" THEN "approved" ELSE "rejected"
  BY DEF NextApprovalStatus
<1>6. request[s.req] \in [status : ApprovalStatus, bal : Balances, units : Nat \ {0}]
  BY <1>0, <1>1 DEF TypeOK
<1> HIDE DEF s, own, units, new, status
<1>7. /\ s.seen = balance[own] /\ task[s.req] = "pending" /\ ~crossed[own]
      /\ balance[own] \in BalanceRow
  BY <1>0, <1>1, <1>3 DEF TypeOK
<1>16. s.req \notin closed
  BY <1>1, <1>7 DEF LedgerInv, ClosedSettled, own
<1>8. units <= balance[own].pending
  <2>1. PICK b \in Balances : b = own
    BY <1>1
  <2>2. balance[b].pending = PendingUnits(b)
    BY <1>7, <2>1 DEF LedgerInv, LedgerExact
  <2>3. PendingUnits(b)' + units = PendingUnits(b) /\ PendingUnits(b)' \in Nat
    BY <1>4, <1>7, <1>16, <2>1
  <2> QED
    BY <1>1, <2>1, <2>2, <2>3
<1>9. new.pending = balance[own].pending - units
  BY <1>1, <1>2, <1>7, <1>8 DEF AtLeastZero, BalanceRow
<1>10. balance'[own] = [balance[own] EXCEPT !.used = new.used,
                                           !.pending = new.pending,
                                           !.carryUsed = new.carryUsed,
                                           !.yearUsed = new.yearUsed,
                                           !.remaining = new.remaining]
  BY <1>0, <1>1, <1>3 DEF TypeOK
<1>11. /\ \A b \in Balances : b # own => balance'[b] = balance[b]
       /\ balance'[own].pending = balance[own].pending - units
       /\ balance'[own].used = balance[own].used + taken
       /\ balance'[own].granted = balance[own].granted
       /\ balance'[own].settled = balance[own].settled
  <2>1. \A b \in Balances : b # own => balance'[b] = balance[b]
    BY <1>0, <1>1, <1>3 DEF TypeOK
  <2> QED
    BY <1>2, <1>7, <1>9, <1>10, <2>1 DEF BalanceRow
<1>12. entryBar[s.req] = [state |-> "pending", bal |-> own, units |-> units]
  BY <1>1, <1>7 DEF entryBar, own, units
<1>13. entryBar' = [entryBar EXCEPT ![s.req].state = status]
  <2>1. request'[s.req] = [request[s.req] EXCEPT !.status = status]
    BY <1>0, <1>1, <1>3 DEF TypeOK
  <2>2. /\ request'[s.req].status = status /\ request'[s.req].bal = own
        /\ request'[s.req].units = units /\ request'[s.req] # NoRequest
    BY <1>5, <1>6, <2>1 DEF own, units, NoRequest
  <2>3. \A r \in Requests : r # s.req => request'[r] = request[r]
    BY <1>0, <1>3 DEF TypeOK
  <2>4. \A r \in Requests : r # s.req => entryBar'[r] = entryBar[r]
    BY <2>3 DEF entryBar
  <2>5. entryBar'[s.req] = [state |-> status, bal |-> own, units |-> units]
    BY <1>1, <2>2 DEF entryBar
  <2>6. /\ entryBar = [r \in Requests |-> entryBar[r]]
        /\ entryBar' = [r \in Requests |-> entryBar'[r]]
    BY DEF entryBar
  <2>7. entryBar'[s.req] = [entryBar[s.req] EXCEPT !.state = status]
    BY <1>12, <2>5
  <2>8. entryBar' = [entryBar EXCEPT ![s.req] = [entryBar[s.req] EXCEPT !.state = status]]
    BY <1>1, <2>4, <2>6, <2>7, ExceptAtPoint
  <2> QED
    BY <2>8
<1>14. bookBar' = [bookBar EXCEPT ![own] =
                     [entitled |-> bookBar[own].entitled,
                      used     |-> bookBar[own].used + taken,
                      pending  |-> bookBar[own].pending - units]]
  <2>1. /\ bookBar = [b \in Balances |-> bookBar[b]]
        /\ bookBar' = [b \in Balances |-> bookBar'[b]]
    BY DEF bookBar
  <2>2. bookBar[own] = [entitled |-> balance[own].granted - balance[own].settled,
                        used     |-> balance[own].used,
                        pending  |-> balance[own].pending]
    BY <1>1 DEF bookBar
  <2>3. bookBar'[own] = [entitled |-> balance'[own].granted - balance'[own].settled,
                         used     |-> balance'[own].used,
                         pending  |-> balance'[own].pending]
    BY <1>1 DEF bookBar
  <2>4. bookBar'[own] = [entitled |-> bookBar[own].entitled,
                         used     |-> bookBar[own].used + taken,
                         pending  |-> bookBar[own].pending - units]
    <3> HIDE DEF taken
    <3> QED
      BY <1>11, <2>2, <2>3
  <2>5. \A b \in Balances : b # own => bookBar'[b] = bookBar[b]
    BY <1>11 DEF bookBar
  <2> QED
    BY <1>1, <2>1, <2>4, <2>5, ExceptAtPoint
<1>15. /\ entryBar[s.req].state = "pending"
       /\ entryBar[s.req].bal = own /\ entryBar[s.req].units = units
  BY <1>12
<1> QED
  BY <1>5, <1>13, <1>14, <1>15 DEF Ledger!Settle, s

\* A grant that crosses nothing, and so meets no reservation, renews atomically.
LEMMA GrantRenews ==
    ASSUME LedgerInv, NEW w \in Workers, NEW year \in [AnnualBalances -> GrantChoices],
           GrantYear(w, year), \A b \in Balances : ~crossed'[b]
    PROVE  Ledger!Renew(AnnualBalances, year)
<1> DEFINE seen == session[w].seen
<1>0. BaseInv /\ TypeOK
  BY DEF LedgerInv, BaseInv
<1>1. /\ seen \in [Balances -> BalanceRow]
      /\ \A b \in Balances \ AnnualBalances : balance'[b] = balance[b]
      /\ \A b \in AnnualBalances :
           /\ balance'[b] = FreshRow(CarriedOver(seen[b], CarryLimit), year[b])
           /\ year[b] \in Nat /\ b \in Balances
  BY <1>0, GrantFacts
<1>2. /\ \A b \in Balances : crossed'[b] <=>
           \/ crossed[b]
           \/ b \in AnnualBalances /\ (seen[b] # balance[b] \/ PendingOn(b) # {})
      /\ request' = request
  BY DEF GrantYear
<1> HIDE DEF seen
<1>3. ASSUME NEW b \in AnnualBalances
      PROVE  /\ bookBar[b].pending = 0
             /\ bookBar'[b] = [entitled |-> Ledger!Carried(b) + year[b],
                               used |-> 0, pending |-> 0]
  <2>1. /\ ~crossed[b] /\ seen[b] = balance[b] /\ PendingOn(b) = {}
        /\ b \in Balances /\ balance[b] \in BalanceRow
    BY <1>0, <1>1, <1>2 DEF TypeOK
  <2>2. balance[b].pending = 0
    BY <2>1, UnitsOfNone DEF LedgerInv, LedgerExact, PendingUnits
  <2>3. balance[b].remaining = Remaining(balance[b])
    BY <2>1 DEF LedgerInv, NoOverdraw
  <2>4. bookBar[b] = [entitled |-> balance[b].granted - balance[b].settled,
                      used     |-> balance[b].used,
                      pending  |-> balance[b].pending]
    BY <2>1 DEF bookBar
  <2>5. Ledger!Available(b) = (balance[b].granted - balance[b].settled)
                                - balance[b].used - balance[b].pending
    BY <2>4 DEF Ledger!Available
  <2>6. Ledger!Available(b) = balance[b].remaining
    BY <2>1, <2>3, <2>5 DEF Remaining, BalanceRow
  <2>7. Ledger!Carried(b) = CarriedOver(balance[b], CarryLimit)
    BY <2>6 DEF Ledger!Carried, CarriedOver, Lesser
  <2>8. CarriedOver(balance[b], CarryLimit) + year[b] \in Int
    BY <1>1, <2>1, GrantAssumption DEF CarriedOver, Lesser, BalanceRow
  <2>9. bookBar'[b] = [entitled |-> balance'[b].granted - balance'[b].settled,
                       used     |-> balance'[b].used,
                       pending  |-> balance'[b].pending]
    BY <2>1 DEF bookBar
  <2>10. /\ balance'[b].granted = CarriedOver(balance[b], CarryLimit) + year[b]
         /\ balance'[b].settled = 0 /\ balance'[b].used = 0 /\ balance'[b].pending = 0
    BY <1>1, <2>1, GrantType
  <2>11. bookBar'[b] = [entitled |-> Ledger!Carried(b) + year[b], used |-> 0, pending |-> 0]
    BY <2>7, <2>8, <2>9, <2>10
  <2> QED
    BY <2>2, <2>4, <2>11
<1>4. bookBar' = [b \in Balances |->
         IF b \in AnnualBalances
         THEN [entitled |-> Ledger!Carried(b) + year[b], used |-> 0, pending |-> 0]
         ELSE bookBar[b]]
  <2>1. bookBar' = [b \in Balances |-> bookBar'[b]]
    BY DEF bookBar
  <2>2. \A b \in Balances \ AnnualBalances : bookBar'[b] = bookBar[b]
    BY <1>1 DEF bookBar
  <2> QED
    BY <1>3, <2>1, <2>2
<1>5. UNCHANGED entryBar
  BY <1>2 DEF entryBar
<1> QED
  BY <1>3, <1>4, <1>5 DEF Ledger!Renew

LEMMA LedgerSimulates ==
    ASSUME LedgerInv, [Next]_vars, \A b \in Balances : ~crossed'[b]
    PROVE  [Ledger!Next]_(Ledger!ledger)
<1>1. ASSUME NEW w \in Workers, SubmitRequest(w)
      PROVE  Ledger!Next
  <2>1. /\ session[w].req \in Requests /\ session[w].bal \in Balances
        /\ session[w].units \in UnitChoices
    BY <1>1, SubmitFacts DEF LedgerInv
  <2> QED
    BY <1>1, <2>1, SubmitReserves DEF Ledger!Next
<1>2. ASSUME NEW w \in Workers, DecideTask(w)
      PROVE  Ledger!Next
  <2>1. session[w].req \in Requests
    BY <1>2, DecideFacts DEF LedgerInv, DecideTask
  <2> QED
    BY <1>2, <2>1, DecideSettles DEF Ledger!Next
<1>3. ASSUME UNCHANGED <<balance, request>>
      PROVE  UNCHANGED Ledger!ledger
  BY <1>3 DEF Ledger!ledger, bookBar, entryBar
<1>4. ASSUME NEW w \in Workers, Grant(w)
      PROVE  Ledger!Next
  <2>1. PICK year \in [AnnualBalances -> GrantChoices] : GrantYear(w, year)
    BY <1>4 DEF Grant
  <2>2. Ledger!Renew(AnnualBalances, year)
    BY <2>1, GrantRenews
  <2>3. AnnualBalances \in SUBSET Balances
    BY GrantAssumption
  <2> QED
    BY <2>2, <2>3 DEF Ledger!Next
<1>5. UNCHANGED <<balance, request>>
      \/ \E w \in Workers : SubmitRequest(w) \/ DecideTask(w) \/ Grant(w)
  BY DEF Next, Begin, Proceed, vars, ReadBalance, ReadTask, ReadForGrant, LockTask, Abort
<1> QED
  BY <1>1, <1>2, <1>3, <1>4, <1>5

\* The balances start as the ledger does.
LEMMA LedgerStarts == Init => Ledger!Init
<1> SUFFICES ASSUME Init PROVE Ledger!Init
  OBVIOUS
<1>1. \A b \in Balances :
        /\ balance[b].granted = CarryUnits[b] + YearUnits[b]
        /\ balance[b].settled = 0 /\ balance[b].used = 0 /\ balance[b].pending = 0
        /\ CarryUnits[b] \in Nat /\ YearUnits[b] \in Nat
  BY UnitsAssumption DEF Init, FreshRow
<1>2. bookBar \in [Balances -> [entitled : Nat, used : {0}, pending : {0}]]
  BY <1>1 DEF bookBar
<1>3. entryBar = [r \in Requests |-> Ledger!NoEntry]
  BY DEF entryBar, Init, Ledger!NoEntry
<1> QED
  BY <1>2, <1>3 DEF Ledger!Init

(***************************************************************************)
(* Up to the first crossed call, any number of concurrent calls do what    *)
(* the atomic ledger does.                                                 *)
(***************************************************************************)
THEOREM LedgerStepsUntilCrossed == Spec => LedgerUntilCrossed
<1>1. LedgerInv /\ [Next]_vars
        => [(\A b \in Balances : ~crossed'[b]) => [Ledger!Next]_(Ledger!ledger)]_vars
  BY LedgerSimulates
<1> QED
  BY <1>1, LedgerInit, LedgerStarts, LedgerStep, PTL DEF Spec, LedgerUntilCrossed

-----------------------------------------------------------------------------
(***************************************************************************)
(* Calls that do not overlap on a balance.  A call is at work on a balance *)
(* from its first read to its commit; a grant is at work on every balance  *)
(* under the annual policy.                                                *)
(***************************************************************************)
AtWorkOn(w, b) ==
    \/ session[w].pc = "reserving" /\ session[w].bal = b
    \/ session[w].pc \in {"deciding", "settling"} /\ request[session[w].req].bal = b
    \/ session[w].pc = "granting" /\ b \in AnnualBalances

(***************************************************************************)
(* At most one call at a time on the balance, as a row lock on its first   *)
(* read would have it, and no new year while a request is pending.         *)
(***************************************************************************)
Orderly(b) ==
    /\ \A v, w \in Workers : AtWorkOn(v, b) /\ AtWorkOn(w, b) => v = w
    /\ \A w \in Workers : session[w].pc = "granting" /\ b \in AnnualBalances => PendingOn(b) = {}

\* Then what a call has read of the balance is still so when it commits.
StillAsRead(w, b) ==
    /\ session[w].pc = "reserving" /\ session[w].bal = b => session[w].seen = balance[b]
    /\ session[w].pc \in {"deciding", "settling"} /\ request[session[w].req].bal = b =>
           task[session[w].req] = "pending"
    /\ session[w].pc = "settling" /\ request[session[w].req].bal = b => session[w].seen = balance[b]
    /\ session[w].pc = "granting" /\ b \in AnnualBalances => session[w].seen[b] = balance[b]

OrderlyInv(b) == ~crossed[b] /\ \A w \in Workers : StillAsRead(w, b)

\* What a step leaves as it is read by the calls that do not take it.
LEMMA StillAsReadByOthers ==
    ASSUME BaseInv, NEW b \in Balances, NEW v \in Workers, StillAsRead(v, b), session'[v] = session[v],
           AtWorkOn(v, b) => balance'[b] = balance[b],
           \A r \in Requests : request[r] # NoRequest =>
               /\ request'[r].bal = request[r].bal
               /\ request[r].bal = b /\ AtWorkOn(v, b) => task'[r] = task[r]
    PROVE  StillAsRead(v, b)'
<1>1. session[v].pc \in {"deciding", "settling"} =>
        session[v].req \in Requests /\ request[session[v].req] # NoRequest
  BY DEF BaseInv, TypeOK, Session, Idle, SessionsSound
<1> QED
  BY <1>1 DEF StillAsRead, AtWorkOn

LEMMA OrderlyStep ==
    ASSUME BaseInv, NEW b \in Balances, OrderlyInv(b), Orderly(b), [Next]_vars
    PROVE  OrderlyInv(b)'
<1> USE DEF OrderlyInv
<1>1. TypeOK
  BY DEF BaseInv
\* A call that takes its first step, or none.
<1>2. ASSUME NEW w \in Workers, NEW s, session' = [session EXCEPT ![w] = s],
             UNCHANGED <<balance, request, task, crossed>>, StillAsRead(w, b)'
      PROVE  OrderlyInv(b)'
  <2>1. ASSUME NEW v \in Workers, v # w
        PROVE  StillAsRead(v, b)'
    <3>1. session'[v] = session[v]
      BY <1>1, <1>2, <2>1 DEF TypeOK
    <3> QED
      BY <1>2, <3>1, StillAsReadByOthers
  <2> QED
    BY <1>2, <2>1
<1>3. ASSUME NEW w \in Workers, session'[w] = Idle
      PROVE  StillAsRead(w, b)'
  BY <1>3 DEF StillAsRead, Idle
\* A call that commits.
<1>4. ASSUME NEW w \in Workers, session' = [session EXCEPT ![w] = Idle],
             ~crossed'[b], balance'[b] = balance[b] \/ AtWorkOn(w, b),
             \A r \in Requests : request[r] # NoRequest =>
                 /\ request'[r].bal = request[r].bal
                 /\ task'[r] = task[r] \/ AtWorkOn(w, request[r].bal)
      PROVE  OrderlyInv(b)'
  <2>1. session'[w] = Idle
    BY <1>1, <1>4 DEF TypeOK
  <2>2. ASSUME NEW v \in Workers, v # w
        PROVE  StillAsRead(v, b)'
    <3>1. session'[v] = session[v]
      BY <1>1, <1>4, <2>2 DEF TypeOK
    <3>2. AtWorkOn(v, b) => ~AtWorkOn(w, b)
      BY <2>2 DEF Orderly
    <3> QED
      BY <1>4, <3>1, <3>2, StillAsReadByOthers
  <2> QED
    BY <1>3, <1>4, <2>1, <2>2
<1>5. ASSUME NEW w \in Workers, NEW r \in Requests, NEW c \in Balances, NEW u \in UnitChoices,
             ReadBalance(w, r, c, u)
      PROVE  OrderlyInv(b)'
  <2>1. session' = [session EXCEPT ![w] = [pc |-> "reserving", req |-> r, bal |-> c, units |-> u,
                                           seen |-> balance[c]]]
        /\ UNCHANGED <<balance, request, task, crossed>>
    BY <1>5 DEF ReadBalance
  <2>2. session'[w] = [pc |-> "reserving", req |-> r, bal |-> c, units |-> u, seen |-> balance[c]]
    BY <1>1, <2>1 DEF TypeOK
  <2>3. StillAsRead(w, b)'
    BY <2>1, <2>2 DEF StillAsRead
  <2> QED
    BY <1>2, <2>1, <2>3
<1>6. ASSUME NEW w \in Workers, NEW r \in Requests, NEW action \in Actions, ReadTask(w, r, action)
      PROVE  OrderlyInv(b)'
  <2>1. /\ session' = [session EXCEPT ![w] = [pc |-> "deciding", req |-> r, action |-> action,
                                              saw |-> task[r]]]
        /\ task[r] = "pending" /\ UNCHANGED <<balance, request, task, crossed>>
    BY <1>6 DEF ReadTask, CanDecide
  <2>2. session'[w] = [pc |-> "deciding", req |-> r, action |-> action, saw |-> task[r]]
    BY <1>1, <2>1 DEF TypeOK
  <2>3. StillAsRead(w, b)'
    BY <2>1, <2>2 DEF StillAsRead
  <2> QED
    BY <1>2, <2>1, <2>3
<1>7. ASSUME NEW w \in Workers, LockTask(w)
      PROVE  OrderlyInv(b)'
  <2>1. PICK s : s = session[w]
    OBVIOUS
  <2>2. PICK t : t = [pc |-> "settling", req |-> s.req, action |-> s.action, saw |-> s.saw,
                      seen |-> balance[request[s.req].bal]]
    OBVIOUS
  <2>3. /\ session' = [session EXCEPT ![w] = t] /\ s.pc = "deciding"
        /\ UNCHANGED <<balance, request, task, crossed>>
    BY <1>7, <2>1, <2>2 DEF LockTask
  <2>4. session'[w] = t
    BY <1>1, <2>3 DEF TypeOK
  <2>5. StillAsRead(w, b)'
    BY <2>1, <2>2, <2>3, <2>4 DEF StillAsRead
  <2> QED
    BY <1>2, <2>3, <2>5
<1>8. ASSUME NEW w \in Workers, SubmitRequest(w)
      PROVE  OrderlyInv(b)'
  <2>1. PICK s : s = session[w]
    OBVIOUS
  <2>2. /\ s.req \in Requests /\ s.bal \in Balances /\ s.pc = "reserving"
        /\ request[s.req] = NoRequest
    BY <1>8, <2>1, SubmitFacts DEF SubmitRequest
  <2>3. /\ request' = [request EXCEPT ![s.req] =
                         [status |-> "pending", bal |-> s.bal, units |-> s.units]]
        /\ task' = [task EXCEPT ![s.req] = "pending"]
        /\ crossed' = [crossed EXCEPT ![s.bal] = @ \/ s.seen # balance[s.bal]]
        /\ session' = [session EXCEPT ![w] = Idle]
    BY <1>8, <2>1 DEF SubmitRequest
  <2>4. \A c \in Balances : c # s.bal => balance'[c] = balance[c]
    BY <1>1, <1>8, <2>1, <2>2 DEF SubmitRequest, TypeOK
  <2>5. balance'[b] = balance[b] \/ AtWorkOn(w, b)
    BY <2>1, <2>2, <2>4 DEF AtWorkOn
  <2>6. ~crossed'[b]
    BY <1>1, <2>1, <2>2, <2>3 DEF StillAsRead, TypeOK
  <2>7. \A r \in Requests : request[r] # NoRequest =>
            request'[r] = request[r] /\ task'[r] = task[r]
    BY <1>1, <2>2, <2>3 DEF TypeOK
  <2> QED
    BY <1>4, <2>3, <2>5, <2>6, <2>7
<1>9. ASSUME NEW w \in Workers, DecideTask(w)
      PROVE  OrderlyInv(b)'
  <2>1. PICK s, own : s = session[w] /\ own = request[s.req].bal
    OBVIOUS
  <2>2. /\ s.req \in Requests /\ own \in Balances /\ s.pc = "settling" /\ s.saw = "pending"
        /\ request[s.req] # NoRequest
    BY <1>9, <2>1, DecideFacts DEF DecideTask
  <2>3. PICK status : /\ request' = [request EXCEPT ![s.req].status = status]
                      /\ task' = [task EXCEPT ![s.req] = status]
    BY <1>9, <2>1 DEF DecideTask
  <2>4. /\ crossed' = [crossed EXCEPT ![own] = @ \/ s.seen # balance[own] \/ s.saw # task[s.req]]
        /\ session' = [session EXCEPT ![w] = Idle]
    BY <1>9, <2>1 DEF DecideTask
  <2>5. \A c \in Balances : c # own => balance'[c] = balance[c]
    BY <1>1, <1>9, <2>1, <2>2 DEF DecideTask, TypeOK
  <2>6. AtWorkOn(w, own)
    BY <2>1, <2>2 DEF AtWorkOn
  <2>7. ~crossed'[b]
    BY <1>1, <2>1, <2>2, <2>4 DEF StillAsRead, TypeOK
  <2>8. ASSUME NEW r \in Requests, request[r] # NoRequest
        PROVE  /\ request'[r].bal = request[r].bal
               /\ task'[r] = task[r] \/ AtWorkOn(w, request[r].bal)
    <3>1. request[r] \in [status : ApprovalStatus, bal : Balances, units : Nat \ {0}]
      BY <1>1, <2>8 DEF TypeOK
    <3>2. request'[r] = IF r = s.req THEN [request[r] EXCEPT !.status = status] ELSE request[r]
      BY <1>1, <2>2, <2>3 DEF TypeOK
    <3>3. r # s.req => task'[r] = task[r]
      BY <1>1, <2>3 DEF TypeOK
    <3> QED
      BY <2>1, <2>6, <3>1, <3>2, <3>3
  <2> QED
    BY <1>4, <2>4, <2>5, <2>6, <2>7, <2>8
<1>10. ASSUME NEW w \in Workers, ReadForGrant(w)
       PROVE  OrderlyInv(b)'
  <2>1. session' = [session EXCEPT ![w] = [pc |-> "granting", seen |-> balance]]
        /\ UNCHANGED <<balance, request, task, crossed>>
    BY <1>10 DEF ReadForGrant
  <2>2. session'[w] = [pc |-> "granting", seen |-> balance]
    BY <1>1, <2>1 DEF TypeOK
  <2>3. StillAsRead(w, b)'
    BY <2>1, <2>2 DEF StillAsRead
  <2> QED
    BY <1>2, <2>1, <2>3
<1>11. ASSUME NEW w \in Workers, NEW year \in [AnnualBalances -> GrantChoices], GrantYear(w, year)
       PROVE  OrderlyInv(b)'
  <2>1. /\ session[w].pc = "granting" /\ session' = [session EXCEPT ![w] = Idle]
        /\ UNCHANGED <<request, task>>
        /\ crossed'[b] <=> \/ crossed[b]
                           \/ b \in AnnualBalances
                              /\ (session[w].seen[b] # balance[b] \/ PendingOn(b) # {})
    BY <1>11 DEF GrantYear
  <2>2. ~crossed'[b]
    BY <2>1 DEF StillAsRead, Orderly
  <2>3. balance'[b] = balance[b] \/ AtWorkOn(w, b)
    BY <1>11, <2>1 DEF GrantYear, AtWorkOn
  <2> QED
    BY <1>4, <2>1, <2>2, <2>3
<1>12. ASSUME NEW w \in Workers, Abort(w)
       PROVE  OrderlyInv(b)'
  <2>1. session' = [session EXCEPT ![w] = Idle] /\ UNCHANGED <<balance, request, task, crossed>>
    BY <1>12 DEF Abort
  <2>2. session'[w] = Idle
    BY <1>1, <2>1 DEF TypeOK
  <2> QED
    BY <1>2, <1>3, <2>1, <2>2
<1>13. CASE UNCHANGED vars
  BY <1>13 DEF vars, StillAsRead
<1> QED
  BY <1>5, <1>6, <1>7, <1>8, <1>9, <1>10, <1>11, <1>12, <1>13 DEF Next, Begin, Proceed, Grant

LEMMA OrderlyInit == ASSUME NEW b \in Balances, Init PROVE OrderlyInv(b)
BY DEF Init, OrderlyInv, StillAsRead, Idle

LEMMA BaseAlways == Spec => []BaseInv
BY BaseInit, BaseStep, PTL DEF Spec

(***************************************************************************)
(* A balance no two calls work on at once, and over whose pending requests *)
(* no year begins, is never crossed, whatever happens to the others: the   *)
(* overlaps are the only way its ledger can go wrong.                      *)
(***************************************************************************)
THEOREM OrderlyNeverCrossed ==
    ASSUME NEW b \in Balances
    PROVE  Spec /\ []Orderly(b) => []~crossed[b]
<1>1. Init => OrderlyInv(b)
  BY OrderlyInit
<1>2. BaseInv /\ OrderlyInv(b) /\ Orderly(b) /\ [Next]_vars => OrderlyInv(b)'
  BY OrderlyStep
<1>3. OrderlyInv(b) => ~crossed[b]
  BY DEF OrderlyInv
<1> QED
  BY <1>1, <1>2, <1>3, BaseAlways, PTL DEF Spec

(***************************************************************************)
(* If that holds of every balance, the multi-statement transactions of any *)
(* number of concurrent calls implement the atomic ledger.                 *)
(***************************************************************************)
THEOREM OrderlyImplementsLedger ==
    Spec /\ [](\A b \in Balances : Orderly(b)) => ImplementsLedger
<1> DEFINE All == \A b \in Balances : OrderlyInv(b)
           Clear == \A b \in Balances : ~crossed[b]
<1>1. Init => All
  BY OrderlyInit
<1>2. BaseInv /\ All /\ (\A b \in Balances : Orderly(b)) /\ [Next]_vars => All'
  BY OrderlyStep
<1>3. All => Clear
  BY DEF OrderlyInv
<1>4. LedgerInv /\ Clear' /\ [Next]_vars => [Ledger!Next]_(Ledger!ledger)
  BY LedgerSimulates
<1>5. Init => Ledger!Init
  BY LedgerStarts
<1> HIDE DEF All, Clear
<1> QED
  BY <1>1, <1>2, <1>3, <1>4, <1>5, BaseAlways, LedgerInit, LedgerStep, PTL
     DEF Spec, ImplementsLedger, Ledger!Spec
=============================================================================
