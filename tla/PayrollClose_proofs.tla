------------------------ MODULE PayrollClose_proofs -------------------------
(***************************************************************************)
(* Proofs about PayrollClose, for any workers, employees, reasons and      *)
(* bounds.  The inductive invariant CloseInv has three parts: the types,   *)
(* what a call in progress may still rely on although the run can change   *)
(* under it, and what relates the run to its items, payslips, adjustments  *)
(* and settlements.                                                        *)
(***************************************************************************)
EXTENDS PayrollClose, FiniteSetTheorems, TLAPS

HasFigures == Calculated(items) # {}

\* What holds of a call between its steps.
SessionSound(s) ==
    /\ s.pc \notin {"idle", "creating"} => run # NoRun
    /\ s.pc \in {"confirming", "locking", "closing", "releasing"} => HasFigures
    /\ s.pc \in {"locking", "closing"} =>
           s.from = "confirmed" /\ ~BlocksLock(s.version, s.rules)
    /\ s.pc = "requesting" => adjustment[s.adj] = NoAdjustment
    /\ s.pc = "deciding" => adjustment[s.adj] # NoAdjustment /\ s.saw = "pending"

SessionsSound ==
    /\ \A w \in Workers : SessionSound(session[w])
    /\ \A v, w \in Workers :
          session[v].pc = "requesting" /\ session[w].pc = "requesting"
          /\ session[v].adj = session[w].adj => v = w

\* A run has no items before it exists, and keeps figures from its calculation on.
FiguresKept ==
    /\ run = NoRun => items = {}
    /\ run.status \in {"calculated", "confirmed", "locked", "released"} => HasFigures

\* AppliedOnce without counting.
OnceApplied ==
    "decide" \notin raced =>
        \A a \in Adjustments :
            /\ \A r1, r2 \in Applied(items, a) : r1 = r2
            /\ Applied(items, a) # {} => adjustment[a].status = "applied"

\* LockedAsConfirmed, from the confirmation on.
FiguresConfirmed ==
    run.status \in {"confirmed", "locked", "released"}
    /\ raced \cap {"confirm", "lock", "release"} = {} =>
        Calculated(items) = Calculated(confirmed)

\* The figures of a run are those of the rule version it names.
FiguresOfVersion ==
    run # NoRun /\ "recalculate" \notin raced =>
        \A row \in Calculated(items) : row.version = run.version

FiguresInv ==
    /\ FiguresKept /\ TotalsAgree /\ SlipsAgree /\ OnceApplied
    /\ FiguresConfirmed /\ FiguresOfVersion /\ IncludedIsPaid

CloseInv == TypeOK /\ SessionsSound /\ FiguresInv

-----------------------------------------------------------------------------
(* Types *)

Units(row) ==
    /\ row.granted \in Int /\ row.used \in Nat /\ row.pending \in Nat
    /\ row.settled \in Nat /\ row.carry \in Int /\ row.carryUsed \in Nat
    /\ row.year \in Int /\ row.yearUsed \in Nat /\ row.remaining \in Int

(***************************************************************************)
(* A settlement leaves a balance row whose columns stay natural numbers.   *)
(***************************************************************************)
LEMMA CloseBalanceType ==
    ASSUME NEW row \in BalanceRow, NEW units \in Nat
    PROVE  CloseBalance(row, units) \in BalanceRow
           /\ CloseBalance(row, units).remaining \in Nat
<1> DEFINE available == CarryoverAvailable(row)
           carried == CarryoverApplied(row, units)
           a == row.settled + units
           b == row.carryUsed + carried
           c == row.yearUsed + (units - carried)
           d == AtLeastZero(row.remaining - units)
           row1 == [row EXCEPT !.settled = a]
           row2 == [row1 EXCEPT !.carryUsed = b]
           row3 == [row2 EXCEPT !.yearUsed = c]
           row4 == [row3 EXCEPT !.remaining = d]
<1>1. Units(row)
  BY DEF BalanceRow, Units
<1>2. available \in Nat
  BY <1>1 DEF CarryoverAvailable, AtLeastZero, Units
<1>3. carried \in Nat /\ units - carried \in Nat
  BY <1>2 DEF CarryoverApplied, Lesser
<1>4. CloseBalance(row, units) = row4
  BY DEF CloseBalance, BalanceRow
<1> HIDE DEF carried
<1>5. a \in Nat /\ b \in Nat /\ c \in Nat /\ d \in Nat
  BY <1>1, <1>3 DEF Units, AtLeastZero
<1> HIDE DEF a, b, c, d
<1>6. row1 \in BalanceRow
  BY <1>5 DEF BalanceRow
<1> HIDE DEF row1
<1>7. row2 \in BalanceRow
  BY <1>5, <1>6 DEF BalanceRow
<1> HIDE DEF row2
<1>8. row3 \in BalanceRow
  BY <1>5, <1>7 DEF BalanceRow
<1> HIDE DEF row3
<1>9. row4 \in BalanceRow /\ row4.remaining = d
  BY <1>5, <1>8 DEF BalanceRow
<1> HIDE DEF row4
<1> QED
  BY <1>4, <1>5, <1>9

(***************************************************************************)
(* What is paid out of a balance is a natural number.                      *)
(***************************************************************************)
LEMMA UnusedUnitsType ==
    ASSUME NEW row \in BalanceRow, row.remaining \in Nat
    PROVE  UnusedUnits(row) \in Nat
<1>1. Units(row)
  BY DEF BalanceRow, Units
<1>2. CarryoverAvailable(row) \in Nat
  BY <1>1 DEF CarryoverAvailable, AtLeastZero, Units
<1> QED
  BY <1>2 DEF UnusedUnits

(***************************************************************************)
(* The kinds of session are told apart by pc.                              *)
(***************************************************************************)
SessionTyped(s) ==
    /\ s.pc = "creating" => s.cleared \in BOOLEAN /\ s.version \in Version
    /\ s.pc \in {"locking", "closing"} =>
           s.from \in RunStatus /\ s.version \in Version /\ s.rules \in Config
    /\ s.pc \in {"calculating", "deleting", "replacing"} =>
           s.version \in Version /\ s.paid \in SUBSET Due
    /\ s.pc \in {"deleting", "replacing"} =>
           s.doomed \in SUBSET Row
           /\ s \in [pc : {"deleting", "replacing"}, version : Version, paid : SUBSET Due,
                    doomed : SUBSET Row]
    /\ s.pc \in {"confirming", "releasing"} => s.seen \in SUBSET Row
    /\ s.pc = "closing" => s.included \in SUBSET Due /\ s.seen \in [Employees -> BalanceRow]
    /\ s.pc = "preparing" => s.reason \in Reasons /\ s.unused \in [Employees -> Nat]
    /\ s.pc = "requesting" => s.adj \in Adjustments /\ s.emp \in Employees
    /\ s.pc = "deciding" => s.adj \in Adjustments

LEMMA SessionKinds ==
    ASSUME NEW s \in Session
    PROVE  SessionTyped(s)
<1>2. CASE s = Idle
  BY <1>2 DEF SessionTyped, Idle
<1>3. CASE s \in [pc : {"creating"}, cleared : BOOLEAN, version : Version]
  BY <1>3 DEF SessionTyped
<1>4. CASE s \in [pc : {"blocking"}]
  BY <1>4 DEF SessionTyped
<1>5. CASE s \in [pc : {"locking"}, from : RunStatus, version : Version, rules : Config]
  BY <1>5 DEF SessionTyped
<1>6. CASE s \in [pc : {"calculating"}, version : Version, paid : SUBSET Due]
  BY <1>6 DEF SessionTyped
<1>7. CASE s \in [pc : {"deleting", "replacing"}, version : Version, paid : SUBSET Due,
                  doomed : SUBSET Row]
  BY <1>7 DEF SessionTyped
<1>8. CASE s \in [pc : {"confirming", "releasing"}, seen : SUBSET Row]
  BY <1>8 DEF SessionTyped
<1>9. CASE s \in [pc : {"closing"}, from : RunStatus, version : Version, rules : Config,
                  included : SUBSET Due, seen : [Employees -> BalanceRow]]
  BY <1>9 DEF SessionTyped
<1>10. CASE s \in [pc : {"preparing"}, reason : Reasons, unused : [Employees -> Nat]]
  BY <1>10 DEF SessionTyped
<1>11. CASE s \in [pc : {"requesting"}, adj : Adjustments, emp : Employees]
  BY <1>11 DEF SessionTyped
<1>12. CASE s \in [pc : {"deciding"}, adj : Adjustments, action : Actions,
                   saw : {"pending", "applied", "rejected"}]
  BY <1>12 DEF SessionTyped
<1> QED
  BY <1>2, <1>3, <1>4, <1>5, <1>6, <1>7, <1>8, <1>9, <1>10, <1>11, <1>12 DEF Session

(***************************************************************************)
(* An update leaves the other sessions as they were.                       *)
(***************************************************************************)
LEMMA BecomeFacts ==
    ASSUME TypeOK, NEW w \in Workers, NEW s \in Session, Become(w, s)
    PROVE  /\ session'[w] = s
           /\ \A v \in Workers \ {w} : session'[v] = session[v]
           /\ session' \in [Workers -> Session]
<1>1. session \in [Workers -> Session]
  BY DEF TypeOK
<1> QED
  BY <1>1 DEF Become

-----------------------------------------------------------------------------
(* Steps in general *)

Figures == <<run, items, slip, adjustment, settlement, leave, config, work,
             serial, confirmed, raced>>

(***************************************************************************)
(* A step that gives one call a new session, and no one the adjustment of  *)
(* another request, keeps what is known about the calls.                   *)
(***************************************************************************)
LEMMA ReadKeepsInv ==
    ASSUME CloseInv, NEW w \in Workers, NEW s \in Session, Become(w, s), SessionSound(s),
           s.pc = "requesting" =>
               \A v \in Workers : ~(session[v].pc = "requesting" /\ session[v].adj = s.adj),
           UNCHANGED Figures
    PROVE  CloseInv'
<1>1. TypeOK /\ SessionsSound /\ FiguresInv
  BY DEF CloseInv
<1>2. /\ session'[w] = s
      /\ \A v \in Workers \ {w} : session'[v] = session[v]
      /\ session' \in [Workers -> Session]
  BY <1>1, BecomeFacts
<1>3. TypeOK'
  BY <1>1, <1>2 DEF TypeOK, Figures
<1>4. SessionsSound'
  <2>1. \A v \in Workers : SessionSound(session'[v])
    BY <1>1, <1>2 DEF SessionsSound
  <2>2. \A v \in Workers : SessionSound(session[v])'
    BY <2>1 DEF SessionSound, Figures, HasFigures
  <2>3. ASSUME NEW v \in Workers, NEW u \in Workers,
               session'[v].pc = "requesting", session'[u].pc = "requesting",
               session'[v].adj = session'[u].adj
        PROVE  v = u
    BY <1>1, <1>2, <2>3 DEF SessionsSound
  <2> QED
    BY <2>2, <2>3 DEF SessionsSound
<1>5. FiguresInv'
  BY <1>1 DEF FiguresInv, Figures, FiguresKept, TotalsAgree, SlipsAgree, OnceApplied,
              FiguresConfirmed, FiguresOfVersion, IncludedIsPaid, HasFigures
<1> QED
  BY <1>3, <1>4, <1>5 DEF CloseInv

(***************************************************************************)
(* A step after which the other calls are as before: they keep what they   *)
(* know if runs, figures and adjustments do not disappear.                 *)
(***************************************************************************)
LEMMA SessionsKept ==
    ASSUME SessionsSound,
           \A v \in Workers : session'[v] \in {session[v], Idle},
           run # NoRun => run' # NoRun,
           HasFigures => HasFigures',
           \A a \in Adjustments : adjustment[a] # NoAdjustment => adjustment'[a] # NoAdjustment,
           \A v \in Workers : session[v].pc = "deciding" => session[v].adj \in Adjustments,
           \A v \in Workers : session'[v].pc = "requesting" =>
                                  adjustment'[session'[v].adj] = NoAdjustment
    PROVE  SessionsSound'
<1>1. ASSUME NEW v \in Workers PROVE SessionSound(session[v])'
  <2>1. CASE session'[v] = Idle
    BY <2>1 DEF SessionSound, Idle
  <2>2. CASE session'[v] = session[v]
    <3>1. SessionSound(session[v])
      BY DEF SessionsSound
    <3> QED
      BY <2>2, <3>1 DEF SessionSound
  <2> QED
    BY <2>1, <2>2
<1>2. ASSUME NEW v \in Workers, NEW u \in Workers,
             session'[v].pc = "requesting", session'[u].pc = "requesting",
             session'[v].adj = session'[u].adj
      PROVE  v = u
  BY <1>2 DEF SessionsSound, Idle
<1> QED
  BY <1>1, <1>2 DEF SessionsSound

(***************************************************************************)
(* The same for a step that leaves the adjustments alone and ends a call,  *)
(* or none.                                                                *)
(***************************************************************************)
LEMMA CallEnds ==
    ASSUME TypeOK, SessionsSound, NEW w \in Workers,
           Become(w, Idle) \/ session' = session,
           run # NoRun => run' # NoRun,
           HasFigures => HasFigures',
           adjustment' = adjustment
    PROVE  SessionsSound' /\ session' \in [Workers -> Session]
<1>1. Idle \in Session
  BY DEF Session
<1>2. /\ \A v \in Workers : session'[v] \in {session[v], Idle}
      /\ session' \in [Workers -> Session]
  <2>1. CASE Become(w, Idle)
    BY <1>1, <2>1, BecomeFacts
  <2>2. CASE session' = session
    BY <2>2 DEF TypeOK
  <2> QED
    BY <2>1, <2>2
<1>3. \A v \in Workers : session[v].pc = "deciding" => session[v].adj \in Adjustments
  BY SessionKinds DEF SessionTyped, TypeOK
<1>4. \A v \in Workers : session'[v].pc = "requesting" =>
                            adjustment'[session'[v].adj] = NoAdjustment
  BY <1>2 DEF SessionsSound, SessionSound, Idle
<1> QED
  BY <1>2, <1>3, <1>4, SessionsKept

(***************************************************************************)
(* A run that is opened again promises nothing but its items and totals.   *)
(***************************************************************************)
LEMMA ReopenKeepsFigures ==
    ASSUME FiguresInv, run' # NoRun, run'.status \in {"draft", "blocked"},
           run'.net = IF run = NoRun THEN {} ELSE run.net,
           run # NoRun => run'.version = run.version,
           UNCHANGED <<items, slip, adjustment, settlement, confirmed, raced>>
    PROVE  FiguresInv'
<1>1. FiguresKept'
  BY DEF FiguresInv, FiguresKept, HasFigures
<1>2. TotalsAgree'
  BY DEF FiguresInv, FiguresKept, TotalsAgree
<1>3. FiguresOfVersion'
  BY DEF FiguresInv, FiguresKept, FiguresOfVersion, Calculated
<1>4. SlipsAgree' /\ FiguresConfirmed'
  BY DEF SlipsAgree, FiguresConfirmed
<1>5. OnceApplied' /\ IncludedIsPaid'
  BY DEF FiguresInv, OnceApplied, IncludedIsPaid
<1> QED
  BY <1>1, <1>2, <1>3, <1>4, <1>5 DEF FiguresInv

LEMMA InitInv == Init => CloseInv
<1> SUFFICES ASSUME Init PROVE CloseInv
  OBVIOUS
<1>1. TypeOK
  <2>1. leave \in [Employees -> BalanceRow] /\ \A e \in Employees : leave[e].remaining \in Nat
    <3>1. ASSUME NEW e \in Employees
          PROVE  FreshRow(Carried[e], Current[e]) \in BalanceRow
                 /\ FreshRow(Carried[e], Current[e]).remaining \in Nat
      <4>1. Carried[e] \in Nat /\ Current[e] \in Nat
        BY LeaveAssumption
      <4> QED
        BY <4>1 DEF FreshRow, BalanceRow
    <3> QED
      BY <3>1 DEF Init
  <2>2. config \in Config /\ serial \in 0 .. MaxRows
    BY BoundsAssumption DEF Init, Config, Version
  <2>3. session \in [Workers -> Session]
    BY DEF Init, Session
  <2> QED
    BY <2>1, <2>2, <2>3 DEF Init, TypeOK
<1>2. SessionsSound
  BY DEF Init, SessionsSound, SessionSound, Idle
<1>3. FiguresInv
  BY FS_EmptySet DEF Init, FiguresInv, FiguresKept, TotalsAgree, SlipsAgree, OnceApplied,
     FiguresConfirmed, FiguresOfVersion, IncludedIsPaid, NoRun, NoSettlement, Applied, Calculated
<1> QED
  BY <1>1, <1>2, <1>3 DEF CloseInv

-----------------------------------------------------------------------------
(* Reads *)

LEMMA ToPayType == TypeOK => ToPay \in SUBSET Due
<1> SUFFICES ASSUME TypeOK, NEW k \in Employees \X Reasons, settlement[k] # NoSettlement
             PROVE  <<k[1], k[2], settlement[k].units>> \in Due
  BY DEF ToPay
<1>1. settlement[k].units \in Nat
  BY DEF TypeOK
<1> QED
  BY <1>1 DEF Due

LEMMA RunType ==
    ASSUME TypeOK
    PROVE  /\ config.version \in Version /\ config \in Config
           /\ run # NoRun => /\ run.status \in RunStatus /\ run.cleared \in BOOLEAN
                             /\ run.version \in Version /\ run.net \in SUBSET Row
           /\ run.status \in RunStatus => run # NoRun
BY DEF TypeOK, Config, NoRun, RunStatus

LEMMA ReadsBlockers ==
    ASSUME CloseInv, NEW w \in Workers, ReadBlockers(w)
    PROVE  CloseInv'
<1> DEFINE s == [pc |-> "creating", cleared |-> ~work, version |-> config.version]
<1>1. s \in Session
  <2>1. config.version \in Version
    BY RunType DEF CloseInv
  <2>2. (~work) \in BOOLEAN
    OBVIOUS
  <2>3. s \in [pc : {"creating"}, cleared : BOOLEAN, version : Version]
    BY <2>1, <2>2
  <2> QED
    BY <2>3 DEF Session
<1>2. SessionSound(s)
  BY DEF SessionSound
<1>3. Become(w, s) /\ UNCHANGED Figures
  BY DEF ReadBlockers, Figures
<1>4. s.pc = "creating"
  OBVIOUS
<1> HIDE DEF s
<1> QED
  BY <1>1, <1>2, <1>3, <1>4, ReadKeepsInv

LEMMA ReadsBlockedRun ==
    ASSUME CloseInv, NEW w \in Workers, ReadBlockedRun(w)
    PROVE  CloseInv'
<1> DEFINE s == [pc |-> "blocking"]
<1>1. s \in Session
  BY DEF Session
<1>2. SessionSound(s)
  BY DEF SessionSound, ReadBlockedRun
<1>3. Become(w, s) /\ UNCHANGED Figures
  BY DEF ReadBlockedRun, Figures
<1>4. s.pc = "blocking"
  OBVIOUS
<1> HIDE DEF s
<1> QED
  BY <1>1, <1>2, <1>3, <1>4, ReadKeepsInv

LEMMA ReadsSalaries ==
    ASSUME CloseInv, NEW w \in Workers, ReadSalaries(w)
    PROVE  CloseInv'
<1> DEFINE s == [pc |-> "calculating", version |-> config.version, paid |-> ToPay]
<1>1. s \in Session
  <2>1. ToPay \in SUBSET Due /\ config.version \in Version
    BY ToPayType, RunType DEF CloseInv
  <2>2. s \in [pc : {"calculating"}, version : Version, paid : SUBSET Due]
    BY <2>1
  <2> QED
    BY <2>2 DEF Session
<1>2. SessionSound(s)
  BY DEF SessionSound, ReadSalaries
<1>3. Become(w, s) /\ UNCHANGED Figures
  BY DEF ReadSalaries, Figures
<1>4. s.pc = "calculating"
  OBVIOUS
<1> HIDE DEF s
<1> QED
  BY <1>1, <1>2, <1>3, <1>4, ReadKeepsInv

LEMMA DeletesItems ==
    ASSUME CloseInv, NEW w \in Workers, DeleteItems(w)
    PROVE  CloseInv'
<1> DEFINE old == session[w]
           s == [pc |-> "deleting", version |-> old.version, paid |-> old.paid,
                 doomed |-> items]
<1>1. old.pc = "calculating" /\ TypeOK
  BY DEF CloseInv, DeleteItems
<1>2. s \in Session
  <2>1. old.version \in Version /\ old.paid \in SUBSET Due /\ items \in SUBSET Row
    BY <1>1, SessionKinds DEF SessionTyped, TypeOK
  <2>2. s \in [pc : {"deleting", "replacing"}, version : Version, paid : SUBSET Due,
               doomed : SUBSET Row]
    BY <2>1
  <2> QED
    BY <2>2 DEF Session
<1>3. SessionSound(s)
  BY <1>1 DEF SessionSound, SessionsSound, CloseInv
<1>4. Become(w, s) /\ UNCHANGED Figures
  BY DEF DeleteItems, Figures
<1>5. s.pc = "deleting"
  OBVIOUS
<1> HIDE DEF s
<1> QED
  BY <1>2, <1>3, <1>4, <1>5, ReadKeepsInv

LEMMA LocksItems ==
    ASSUME CloseInv, NEW w \in Workers, LockItems(w)
    PROVE  CloseInv'
<1> DEFINE old == session[w]
           s == [old EXCEPT !.pc = "replacing", !.doomed = old.doomed \cap items]
           Deleting == [pc : {"deleting", "replacing"}, version : Version,
                        paid : SUBSET Due, doomed : SUBSET Row]
<1>1. old.pc = "deleting" /\ TypeOK
  BY DEF CloseInv, LockItems
<1>2. old \in Deleting
  BY <1>1, SessionKinds DEF SessionTyped, TypeOK
<1>3. s \in Deleting /\ s.pc = "replacing"
  BY <1>2
<1>4. s \in Session
  BY <1>3 DEF Session
<1>5. SessionSound(s)
  BY <1>1, <1>3 DEF SessionSound, SessionsSound, CloseInv
<1>6. Become(w, s) /\ UNCHANGED Figures
  BY <1>2 DEF LockItems, Figures
<1> HIDE DEF s
<1> QED
  BY <1>3, <1>4, <1>5, <1>6, ReadKeepsInv

LEMMA ReadsForConfirm ==
    ASSUME CloseInv, NEW w \in Workers, ReadForConfirm(w)
    PROVE  CloseInv'
<1> DEFINE s == [pc |-> "confirming", seen |-> items]
<1>1. s \in Session
  BY DEF Session, CloseInv, TypeOK
<1>2. SessionSound(s)
  BY RunType DEF SessionSound, ReadForConfirm, CloseInv, FiguresInv, FiguresKept, RunStatus
<1>3. Become(w, s) /\ UNCHANGED Figures
  BY DEF ReadForConfirm, Figures
<1>4. s.pc = "confirming"
  OBVIOUS
<1> HIDE DEF s
<1> QED
  BY <1>1, <1>2, <1>3, <1>4, ReadKeepsInv

LEMMA ReadsForLock ==
    ASSUME CloseInv, NEW w \in Workers, ReadForLock(w)
    PROVE  CloseInv'
<1> DEFINE s == [pc |-> "locking", from |-> run.status, version |-> run.version,
                 rules |-> config]
<1>1. run.status = "confirmed" /\ ~BlocksLock(run.version, config)
  BY DEF ReadForLock
<1>2. run.status \in RunStatus /\ run # NoRun
  BY <1>1, RunType DEF CloseInv, RunStatus
<1>3. s \in Session
  <2>1. run.version \in Version /\ config \in Config
    BY <1>2, RunType DEF CloseInv
  <2>2. s \in [pc : {"locking"}, from : RunStatus, version : Version, rules : Config]
    BY <1>2, <2>1
  <2> QED
    BY <2>2 DEF Session
<1>4. SessionSound(s)
  BY <1>1, <1>2 DEF SessionSound, CloseInv, FiguresInv, FiguresKept
<1>5. Become(w, s) /\ UNCHANGED Figures
  BY DEF ReadForLock, Figures
<1>6. s.pc = "locking"
  OBVIOUS
<1> HIDE DEF s
<1> QED
  BY <1>3, <1>4, <1>5, <1>6, ReadKeepsInv

LEMMA ReadsSettlements ==
    ASSUME CloseInv, NEW w \in Workers, ReadSettlements(w)
    PROVE  CloseInv'
<1> DEFINE old == session[w]
           paid == {d \in ToPay : settlement[<<d[1], d[2]>>].status = "included"}
           s == [pc |-> "closing", from |-> old.from, version |-> old.version,
                 rules |-> old.rules, seen |-> leave, included |-> paid]
<1>1. old.pc = "locking" /\ TypeOK
  BY DEF CloseInv, ReadSettlements
<1>2. s \in Session
  <2>1. old.from \in RunStatus /\ old.version \in Version /\ old.rules \in Config
    BY <1>1, SessionKinds DEF SessionTyped, TypeOK
  <2>2. paid \in SUBSET Due
    BY <1>1, ToPayType
  <2>3. leave \in [Employees -> BalanceRow]
    BY <1>1 DEF TypeOK
  <2> HIDE DEF paid, old
  <2>4. s \in [pc : {"closing"}, from : RunStatus, version : Version, rules : Config,
               included : SUBSET Due, seen : [Employees -> BalanceRow]]
    BY <2>1, <2>2, <2>3
  <2> QED
    BY <2>4 DEF Session
<1>3. SessionSound(s)
  BY <1>1 DEF SessionSound, SessionsSound, CloseInv
<1>4. Become(w, s) /\ UNCHANGED Figures
  BY DEF ReadSettlements, Figures
<1>5. s.pc = "closing"
  OBVIOUS
<1> HIDE DEF s
<1> QED
  BY <1>2, <1>3, <1>4, <1>5, ReadKeepsInv

LEMMA ReadsForRelease ==
    ASSUME CloseInv, NEW w \in Workers, ReadForRelease(w)
    PROVE  CloseInv'
<1> DEFINE s == [pc |-> "releasing", seen |-> items]
<1>1. s \in Session
  BY DEF Session, CloseInv, TypeOK
<1>2. SessionSound(s)
  BY DEF SessionSound, ReadForRelease, CanReleasePayroll, CloseInv, FiguresInv, FiguresKept
<1>3. Become(w, s) /\ UNCHANGED Figures
  BY DEF ReadForRelease, Figures
<1>4. s.pc = "releasing"
  OBVIOUS
<1> HIDE DEF s
<1> QED
  BY <1>1, <1>2, <1>3, <1>4, ReadKeepsInv

LEMMA ReadsBalances ==
    ASSUME CloseInv, NEW w \in Workers, NEW reason \in Reasons, ReadBalances(w, reason)
    PROVE  CloseInv'
<1> DEFINE Unused(e) == IF leave[e].remaining > 0 THEN UnusedUnits(leave[e]) ELSE 0
           unused == [e \in Employees |-> Unused(e)]
           s == [pc |-> "preparing", reason |-> reason, unused |-> unused]
<1>1. unused \in [Employees -> Nat]
  <2> SUFFICES ASSUME NEW e \in Employees PROVE Unused(e) \in Nat
    OBVIOUS
  <2>1. leave[e] \in BalanceRow /\ leave[e].remaining \in Nat
    BY DEF CloseInv, TypeOK
  <2> QED
    BY <2>1, UnusedUnitsType
<1>2. Become(w, s) /\ UNCHANGED Figures
  BY DEF ReadBalances, Figures
<1> HIDE DEF unused
<1>3. s \in Session
  BY <1>1 DEF Session
<1>4. SessionSound(s)
  BY DEF SessionSound, ReadBalances
<1>5. s.pc = "preparing"
  OBVIOUS
<1> HIDE DEF s
<1> QED
  BY <1>2, <1>3, <1>4, <1>5, ReadKeepsInv

LEMMA ReadsForAdjustment ==
    ASSUME CloseInv, NEW w \in Workers, NEW a \in Adjustments, NEW e \in Employees,
           ReadForAdjustment(w, a, e)
    PROVE  CloseInv'
<1> DEFINE s == [pc |-> "requesting", adj |-> a, emp |-> e]
<1>1. s \in Session
  BY DEF Session
<1>2. SessionSound(s)
  BY DEF SessionSound, ReadForAdjustment, Closed, NoRun
<1>3. Become(w, s) /\ UNCHANGED Figures
  BY DEF ReadForAdjustment, Figures
<1>4. \A v \in Workers : ~(session[v].pc = "requesting" /\ session[v].adj = s.adj)
  BY DEF ReadForAdjustment
<1> HIDE DEF s
<1> QED
  BY <1>1, <1>2, <1>3, <1>4, ReadKeepsInv

LEMMA ReadsAdjustment ==
    ASSUME CloseInv, NEW w \in Workers, NEW a \in Adjustments, NEW action \in Actions,
           ReadAdjustment(w, a, action)
    PROVE  CloseInv'
<1> DEFINE s == [pc |-> "deciding", adj |-> a, action |-> action,
                 saw |-> adjustment[a].status]
<1>1. adjustment[a].status = "pending"
  BY DEF ReadAdjustment
<1>2. s \in Session
  <2>1. s \in [pc : {"deciding"}, adj : Adjustments, action : Actions,
               saw : {"pending", "applied", "rejected"}]
    BY <1>1
  <2> QED
    BY <2>1 DEF Session
<1>3. SessionSound(s)
  BY <1>1 DEF SessionSound, ReadAdjustment, Closed, NoRun, NoAdjustment
<1>4. Become(w, s) /\ UNCHANGED Figures
  BY DEF ReadAdjustment, Figures
<1>5. s.pc = "deciding"
  OBVIOUS
<1> HIDE DEF s
<1> QED
  BY <1>2, <1>3, <1>4, <1>5, ReadKeepsInv

LEMMA AbortStops ==
    ASSUME CloseInv, NEW w \in Workers, Abort(w)
    PROVE  CloseInv'
<1>1. Idle \in Session /\ Idle.pc = "idle"
  BY DEF Session, Idle
<1>2. SessionSound(Idle)
  BY <1>1 DEF SessionSound
<1>3. Become(w, Idle) /\ UNCHANGED Figures
  BY DEF Abort, Figures
<1> HIDE DEF Idle
<1> QED
  BY <1>1, <1>2, <1>3, ReadKeepsInv

-----------------------------------------------------------------------------
(* Reopening *)

LEMMA CreatesRun ==
    ASSUME CloseInv, NEW w \in Workers, CreateRun(w)
    PROVE  CloseInv'
<1> DEFINE s == session[w]
           opened == [status |-> OpenStatus(s.cleared), cleared |-> s.cleared,
                      version |-> s.version, net |-> {}]
           again == [run EXCEPT !.status = OpenStatus(s.cleared), !.cleared = s.cleared]
           Run == [status : RunStatus, cleared : BOOLEAN, version : Version, net : SUBSET Row]
<1>1. /\ s.pc = "creating" /\ Become(w, Idle)
      /\ run' = IF run = NoRun THEN opened ELSE again
      /\ UNCHANGED <<items, slip, adjustment, settlement, leave, config, work,
                     serial, confirmed, raced>>
  BY DEF CreateRun
<1>2. TypeOK /\ SessionsSound /\ FiguresInv
  BY DEF CloseInv
<1>3. /\ s.cleared \in BOOLEAN /\ s.version \in Version
      /\ OpenStatus(s.cleared) \in {"draft", "blocked"}
  BY <1>1, <1>2, SessionKinds DEF SessionTyped, TypeOK, OpenStatus
<1>4. /\ run' \in Run /\ run' # NoRun /\ run'.status \in {"draft", "blocked"}
      /\ run'.net = IF run = NoRun THEN {} ELSE run.net
      /\ run # NoRun => run'.version = run.version
  <2>1. CASE run = NoRun
    BY <1>1, <1>3, <2>1 DEF RunStatus, NoRun
  <2>2. CASE run # NoRun
    <3>1. run \in Run
      BY <1>2, <2>2 DEF TypeOK
    <3> QED
      BY <1>1, <1>3, <2>2, <3>1 DEF RunStatus, NoRun
  <2> QED
    BY <2>1, <2>2
<1>5. FiguresInv'
  BY <1>1, <1>2, <1>4, ReopenKeepsFigures
<1>6. SessionsSound' /\ session' \in [Workers -> Session]
  BY <1>1, <1>2, <1>4, CallEnds DEF HasFigures
<1>7. TypeOK'
  BY <1>1, <1>2, <1>4, <1>6 DEF TypeOK
<1> QED
  BY <1>5, <1>6, <1>7 DEF CloseInv

(***************************************************************************)
(* Resolving the blockers and blocking the run set its status and nothing  *)
(* the figures depend on.                                                  *)
(***************************************************************************)
LEMMA StatusChanges ==
    ASSUME CloseInv, NEW w \in Workers, ResolveBlockers(w) \/ BlockRun(w)
    PROVE  CloseInv'
<1> DEFINE Run == [status : RunStatus, cleared : BOOLEAN, version : Version, net : SUBSET Row]
<1>1. TypeOK /\ SessionsSound /\ FiguresInv
  BY DEF CloseInv
<1>2. /\ run # NoRun
      /\ \/ run' = [run EXCEPT !.status = "draft", !.cleared = TRUE]
         \/ run' = [run EXCEPT !.status = "blocked"]
      /\ Become(w, Idle) \/ session' = session
      /\ UNCHANGED <<items, slip, adjustment, settlement, leave, config, work,
                     serial, confirmed, raced>>
  BY <1>1 DEF ResolveBlockers, BlockRun, SessionsSound, SessionSound
<1>3. run \in Run
  BY <1>1, <1>2 DEF TypeOK
<1>4. /\ run' \in Run /\ run' # NoRun /\ run'.status \in {"draft", "blocked"}
      /\ run'.net = run.net /\ run'.version = run.version
  BY <1>2, <1>3 DEF RunStatus, NoRun
<1>5. FiguresInv'
  BY <1>1, <1>2, <1>4, ReopenKeepsFigures
<1>6. SessionsSound' /\ session' \in [Workers -> Session]
  BY <1>1, <1>2, <1>4, CallEnds DEF HasFigures
<1>7. TypeOK'
  BY <1>1, <1>2, <1>4, <1>6 DEF TypeOK
<1> QED
  BY <1>5, <1>6, <1>7 DEF CloseInv

-----------------------------------------------------------------------------
(* Calculation *)

LEMMA RecalculateKeepsInv ==
    ASSUME CloseInv, NEW w \in Workers, Recalculate(w)
    PROVE  CloseInv'
<1> DEFINE s == session[w]
           row == [id |-> serial + 1, kind |-> "calculated",
                   version |-> s.version, paid |-> s.paid]
           Run == [status : RunStatus, cleared : BOOLEAN, version : Version, net : SUBSET Row]
<1>1. TypeOK /\ SessionsSound /\ FiguresInv
  BY DEF CloseInv
<1>2. /\ s.pc = "replacing" /\ serial < MaxRows /\ Become(w, Idle)
      /\ items' = (items \ s.doomed) \cup {row}
      /\ settlement' = [k \in Employees \X Reasons |->
                          IF settlement[k].status = "draft"
                          THEN [settlement[k] EXCEPT !.status = "included"]
                          ELSE settlement[k]]
      /\ run' = [run EXCEPT !.status = "calculated", !.version = s.version, !.net = {row}]
      /\ serial' = serial + 1
      /\ raced' = raced \cup (IF items # s.doomed THEN {"recalculate"} ELSE {})
                        \cup (IF ToPay # s.paid THEN {"settle"} ELSE {})
      /\ UNCHANGED <<slip, adjustment, leave, config, work, confirmed>>
  BY DEF Recalculate
<1>3. s.version \in Version /\ s.paid \in SUBSET Due /\ s.doomed \in SUBSET Row
  BY <1>1, <1>2, SessionKinds DEF SessionTyped, TypeOK
<1>4. /\ row \in Row /\ row.kind = "calculated" /\ row.version = s.version
      /\ row.paid = s.paid /\ serial + 1 \in 0 .. MaxRows
  BY <1>1, <1>2, <1>3, BoundsAssumption DEF Row, RowId, TypeOK
<1> HIDE DEF row
<1>5. run # NoRun
  BY <1>1, <1>2 DEF SessionsSound, SessionSound
<1>6. /\ run' \in Run /\ run' # NoRun /\ run'.status = "calculated"
      /\ run'.version = s.version /\ run'.net = {row}
  <2>1. run \in Run
    BY <1>1, <1>5 DEF TypeOK
  <2> QED
    BY <1>2, <1>3, <1>4, <2>1 DEF RunStatus, NoRun
<1>7. HasFigures'
  BY <1>2, <1>4 DEF HasFigures, Calculated
<1>8. SessionsSound' /\ session' \in [Workers -> Session]
  BY <1>1, <1>2, <1>6, <1>7, CallEnds
<1>9. TypeOK'
  <2>1. settlement' \in [Employees \X Reasons ->
           {NoSettlement} \cup [status : {"draft", "included"}, units : Nat \ {0}]]
    BY <1>1, <1>2 DEF TypeOK, NoSettlement
  <2>2. items' \in SUBSET Row
    BY <1>1, <1>2, <1>4 DEF TypeOK
  <2>3. raced' \in SUBSET {"recalculate", "settle", "confirm", "lock", "release", "decide"}
    BY <1>1, <1>2 DEF TypeOK
  <2>4. serial' \in 0 .. MaxRows
    BY <1>2, <1>4
  <2> QED
    BY <1>1, <1>2, <1>6, <1>8, <2>1, <2>2, <2>3, <2>4 DEF TypeOK
<1>10. FiguresInv'
  <2>1. FiguresKept'
    BY <1>6, <1>7 DEF FiguresKept
  <2>2. "recalculate" \notin raced' => items' = {row} /\ "recalculate" \notin raced
    BY <1>2
  <2>3. TotalsAgree' /\ FiguresOfVersion'
    BY <1>4, <1>6, <2>2 DEF TotalsAgree, FiguresOfVersion, Calculated
  <2>4. SlipsAgree' /\ FiguresConfirmed'
    BY <1>6 DEF SlipsAgree, FiguresConfirmed
  <2>5. OnceApplied'
    <3>1. \A a \in Adjustments : Applied(items', a) \subseteq Applied(items, a)
      BY <1>2, <1>4 DEF Applied
    <3>2. "decide" \notin raced' => "decide" \notin raced
      BY <1>2
    <3> QED
      BY <1>1, <1>2, <3>1, <3>2 DEF FiguresInv, OnceApplied, Applied
  <2>6. IncludedIsPaid'
    <3> SUFFICES ASSUME raced' \cap {"recalculate", "settle"} = {},
                        NEW e \in Employees, NEW r \in Reasons,
                        settlement'[<<e, r>>].status = "included",
                        NEW old \in Calculated(items')
                 PROVE  <<e, r, settlement'[<<e, r>>].units>> \in old.paid
      BY DEF IncludedIsPaid
    <3>1. old = row
      BY <2>2 DEF Calculated
    <3>2. s.paid = ToPay
      BY <1>2
    <3>3. <<e, r>> \in Employees \X Reasons
      OBVIOUS
    <3>4. settlement[<<e, r>>] # NoSettlement
          /\ settlement'[<<e, r>>].units = settlement[<<e, r>>].units
      BY <1>1, <1>2, <3>3 DEF TypeOK, NoSettlement
    <3> QED
      BY <1>4, <3>1, <3>2, <3>3, <3>4 DEF ToPay
  <2> QED
    BY <2>1, <2>3, <2>4, <2>5, <2>6 DEF FiguresInv
<1> QED
  BY <1>8, <1>9, <1>10 DEF CloseInv

-----------------------------------------------------------------------------
(* Confirmation, lock and release *)

LEMMA ConfirmKeepsInv ==
    ASSUME CloseInv, NEW w \in Workers, ConfirmRun(w)
    PROVE  CloseInv'
<1> DEFINE s == session[w]
           Run == [status : RunStatus, cleared : BOOLEAN, version : Version, net : SUBSET Row]
           changed == \/ run.status \notin {"calculated", "confirmed"}
                      \/ Calculated(items) # Calculated(s.seen)
<1>1. TypeOK /\ SessionsSound /\ FiguresInv
  BY DEF CloseInv
<1>2. /\ s.pc = "confirming" /\ Become(w, Idle)
      /\ run' = [run EXCEPT !.status = "confirmed"]
      /\ confirmed' = s.seen
      /\ raced' = IF changed THEN raced \cup {"confirm"} ELSE raced
      /\ UNCHANGED <<items, slip, adjustment, settlement, leave, config, work, serial>>
  BY DEF ConfirmRun, Missed
<1>3. run # NoRun /\ HasFigures /\ s.seen \in SUBSET Row
  BY <1>1, <1>2, SessionKinds DEF SessionsSound, SessionSound, SessionTyped, TypeOK
<1>4. /\ run' \in Run /\ run' # NoRun /\ run'.status = "confirmed"
      /\ run'.version = run.version /\ run'.net = run.net
  <2>1. run \in Run
    BY <1>1, <1>3 DEF TypeOK
  <2> QED
    BY <1>2, <2>1 DEF RunStatus, NoRun
<1>5. SessionsSound' /\ session' \in [Workers -> Session]
  BY <1>1, <1>2, <1>4, CallEnds DEF HasFigures
<1>6. TypeOK'
  BY <1>1, <1>2, <1>3, <1>4, <1>5 DEF TypeOK
<1>7. FiguresInv'
  <2>1. FiguresKept' /\ SlipsAgree'
    BY <1>2, <1>3, <1>4 DEF FiguresKept, SlipsAgree, HasFigures
  <2>2. TotalsAgree' /\ FiguresOfVersion' /\ OnceApplied' /\ IncludedIsPaid'
    BY <1>1, <1>2, <1>3, <1>4
       DEF FiguresInv, TotalsAgree, FiguresOfVersion, OnceApplied, IncludedIsPaid
  <2>3. FiguresConfirmed'
    BY <1>1, <1>2 DEF FiguresConfirmed
  <2> QED
    BY <2>1, <2>2, <2>3 DEF FiguresInv
<1> QED
  BY <1>5, <1>6, <1>7 DEF CloseInv

LEMMA LockKeepsInv ==
    ASSUME CloseInv, NEW w \in Workers, LockRun(w)
    PROVE  CloseInv'
<1> DEFINE s == session[w]
           Run == [status : RunStatus, cleared : BOOLEAN, version : Version, net : SUBSET Row]
           UnitsFor(e) == {d[3] : d \in {c \in s.included : c[1] = e}}
           closing == {e \in Employees : UnitsFor(e) # {}}
           changed == \/ run.status # s.from
                      \/ run.version # s.version \/ config # s.rules
<1>1. TypeOK /\ SessionsSound /\ FiguresInv
  BY DEF CloseInv
<1>2. /\ s.pc = "closing" /\ Become(w, Idle)
      /\ run' = [run EXCEPT !.status = "locked"]
      /\ raced' = IF changed THEN raced \cup {"lock"} ELSE raced
      /\ UNCHANGED <<items, slip, adjustment, settlement, config, work, serial, confirmed>>
  BY DEF LockRun, Missed
<1>3. PICK last \in [closing -> UNION {UnitsFor(e) : e \in closing}] :
        /\ \A e \in closing : last[e] \in UnitsFor(e)
        /\ leave' = [e \in Employees |->
                       IF e \in closing THEN CloseBalance(s.seen[e], last[e]) ELSE leave[e]]
  BY DEF LockRun
<1>4. /\ run # NoRun /\ HasFigures /\ s.from = "confirmed"
      /\ s.included \in SUBSET Due /\ s.seen \in [Employees -> BalanceRow]
  BY <1>1, <1>2, SessionKinds DEF SessionsSound, SessionSound, SessionTyped, TypeOK
<1>5. /\ run' \in Run /\ run' # NoRun /\ run'.status = "locked"
      /\ run'.version = run.version /\ run'.net = run.net
  <2>1. run \in Run
    BY <1>1, <1>4 DEF TypeOK
  <2> QED
    BY <1>2, <2>1 DEF RunStatus, NoRun
<1>6. leave' \in [Employees -> BalanceRow] /\ \A e \in Employees : leave'[e].remaining \in Nat
  <2>1. ASSUME NEW e \in closing
        PROVE  CloseBalance(s.seen[e], last[e]) \in BalanceRow
               /\ CloseBalance(s.seen[e], last[e]).remaining \in Nat
    <3>1. PICK d \in Due : last[e] = d[3]
      BY <1>3, <1>4
    <3>2. last[e] \in Nat
      BY <3>1 DEF Due
    <3>3. s.seen[e] \in BalanceRow
      BY <1>4
    <3> QED
      BY <3>2, <3>3, CloseBalanceType
  <2>2. \A e \in Employees : leave[e] \in BalanceRow /\ leave[e].remaining \in Nat
    BY <1>1 DEF TypeOK
  <2> HIDE DEF closing, s
  <2> QED
    BY <1>3, <2>1, <2>2
<1>7. SessionsSound' /\ session' \in [Workers -> Session]
  BY <1>1, <1>2, <1>5, CallEnds DEF HasFigures
<1>8. TypeOK'
  BY <1>1, <1>2, <1>5, <1>6, <1>7 DEF TypeOK
<1>9. FiguresInv'
  <2>1. FiguresKept' /\ SlipsAgree'
    BY <1>2, <1>4, <1>5 DEF FiguresKept, SlipsAgree, HasFigures
  <2>2. TotalsAgree' /\ FiguresOfVersion' /\ OnceApplied' /\ IncludedIsPaid'
    BY <1>1, <1>2, <1>4, <1>5
       DEF FiguresInv, TotalsAgree, FiguresOfVersion, OnceApplied, IncludedIsPaid
  <2>3. FiguresConfirmed'
    BY <1>1, <1>2, <1>4 DEF FiguresInv, FiguresConfirmed
  <2> QED
    BY <2>1, <2>2, <2>3 DEF FiguresInv
<1> QED
  BY <1>7, <1>8, <1>9 DEF CloseInv

LEMMA ReleaseKeepsInv ==
    ASSUME CloseInv, NEW w \in Workers, ReleasePayslips(w)
    PROVE  CloseInv'
<1> DEFINE s == session[w]
           Run == [status : RunStatus, cleared : BOOLEAN, version : Version, net : SUBSET Row]
           changed == ~Closed(run.status) \/ items # s.seen
<1>1. TypeOK /\ SessionsSound /\ FiguresInv
  BY DEF CloseInv
<1>2. /\ s.pc = "releasing" /\ Become(w, Idle)
      /\ slip' = [e \in Employees |->
                    IF ItemsOf(s.seen, e) # {} THEN ItemsOf(s.seen, e) ELSE slip[e]]
      /\ run' = [run EXCEPT !.status = "released"]
      /\ raced' = IF changed THEN raced \cup {"release"} ELSE raced
      /\ UNCHANGED <<items, adjustment, settlement, leave, config, work, serial, confirmed>>
  BY DEF ReleasePayslips, Missed
<1>3. run # NoRun /\ HasFigures /\ s.seen \in SUBSET Row
  BY <1>1, <1>2, SessionKinds DEF SessionsSound, SessionSound, SessionTyped, TypeOK
<1>4. /\ run' \in Run /\ run' # NoRun /\ run'.status = "released"
      /\ run'.version = run.version /\ run'.net = run.net
  <2>1. run \in Run
    BY <1>1, <1>3 DEF TypeOK
  <2> QED
    BY <1>2, <2>1 DEF RunStatus, NoRun
<1>5. SessionsSound' /\ session' \in [Workers -> Session]
  BY <1>1, <1>2, <1>4, CallEnds DEF HasFigures
<1>6. TypeOK'
  <2>1. slip' \in [Employees -> SUBSET Row]
    <3>1. \A e \in Employees : ItemsOf(s.seen, e) \in SUBSET Row /\ slip[e] \in SUBSET Row
      BY <1>1, <1>3 DEF ItemsOf, TypeOK
    <3> HIDE DEF s
    <3> QED
      BY <1>2, <3>1
  <2> QED
    BY <1>1, <1>2, <1>4, <1>5, <2>1 DEF TypeOK
<1>7. FiguresInv'
  <2>1. FiguresKept'
    BY <1>2, <1>3, <1>4 DEF FiguresKept, HasFigures
  <2>2. TotalsAgree' /\ FiguresOfVersion' /\ OnceApplied' /\ IncludedIsPaid'
    BY <1>1, <1>2, <1>3, <1>4
       DEF FiguresInv, TotalsAgree, FiguresOfVersion, OnceApplied, IncludedIsPaid
  <2>3. FiguresConfirmed'
    BY <1>1, <1>2 DEF FiguresInv, FiguresConfirmed, Closed
  <2>4. SlipsAgree'
    <3> SUFFICES ASSUME "release" \notin raced', NEW e \in Employees
                 PROVE  slip'[e] = ItemsOf(items', e)
      BY DEF SlipsAgree
    <3>1. items = s.seen /\ items' = items
      BY <1>2
    <3>2. ItemsOf(items, e) # {}
      BY <1>3 DEF HasFigures, ItemsOf, Calculated
    <3> QED
      BY <1>2, <3>1, <3>2
  <2> QED
    BY <2>1, <2>2, <2>3, <2>4 DEF FiguresInv
<1> QED
  BY <1>5, <1>6, <1>7 DEF CloseInv

-----------------------------------------------------------------------------
(* Settlements and adjustments *)

LEMMA PrepareKeepsInv ==
    ASSUME CloseInv, NEW w \in Workers, PrepareSettlements(w)
    PROVE  CloseInv'
<1> DEFINE s == session[w]
           Keys == Employees \X Reasons
           Prepared(p) ==
               IF p[2] # s.reason \/ settlement[p].status = "included" THEN settlement[p]
               ELSE IF s.unused[p[1]] > 0
                    THEN [status |-> "draft", units |-> s.unused[p[1]]]
                    ELSE NoSettlement
           Settlement == {NoSettlement} \cup [status : {"draft", "included"}, units : Nat \ {0}]
<1>1. TypeOK /\ SessionsSound /\ FiguresInv
  BY DEF CloseInv
<1>2. /\ s.pc = "preparing" /\ Become(w, Idle)
      /\ settlement' = [p \in Keys |-> Prepared(p)]
      /\ UNCHANGED <<run, items, slip, adjustment, leave, config, work,
                     serial, confirmed, raced>>
  BY DEF PrepareSettlements
<1>3. s.unused \in [Employees -> Nat]
  BY <1>1, <1>2, SessionKinds DEF SessionTyped, TypeOK
<1>4. ASSUME NEW p \in Keys
      PROVE  /\ Prepared(p) \in Settlement
             /\ Prepared(p).status = "included" => Prepared(p) = settlement[p]
  <2>1. settlement[p] \in Settlement /\ s.unused[p[1]] \in Nat
    BY <1>1, <1>3 DEF TypeOK
  <2> QED
    BY <2>1 DEF NoSettlement
<1> HIDE DEF Prepared
<1>5. SessionsSound' /\ session' \in [Workers -> Session]
  BY <1>1, <1>2, CallEnds DEF HasFigures
<1>6. TypeOK'
  <2>1. settlement' \in [Keys -> Settlement]
    BY <1>2, <1>4
  <2> QED
    BY <1>1, <1>2, <1>5, <2>1 DEF TypeOK
<1>7. FiguresInv'
  <2>1. /\ FiguresKept' /\ TotalsAgree' /\ SlipsAgree' /\ OnceApplied'
        /\ FiguresConfirmed' /\ FiguresOfVersion'
    BY <1>1, <1>2 DEF FiguresInv, FiguresKept, TotalsAgree, SlipsAgree, OnceApplied,
                      FiguresConfirmed, FiguresOfVersion, HasFigures
  <2>2. IncludedIsPaid'
    <3>1. \A e \in Employees, r \in Reasons :
            settlement'[<<e, r>>].status = "included" =>
                settlement'[<<e, r>>] = settlement[<<e, r>>]
      BY <1>2, <1>4
    <3> QED
      BY <1>1, <1>2, <3>1 DEF FiguresInv, IncludedIsPaid
  <2> QED
    BY <2>1, <2>2 DEF FiguresInv
<1> QED
  BY <1>5, <1>6, <1>7 DEF CloseInv

(***************************************************************************)
(* What a session knows of the adjustment it requests or decides.          *)
(***************************************************************************)
LEMMA AdjustmentFacts ==
    ASSUME CloseInv, NEW w \in Workers, session[w].pc \in {"requesting", "deciding"}
    PROVE  LET s == session[w]
           IN  /\ s.adj \in Adjustments /\ run # NoRun
               /\ s.pc = "requesting" =>
                      s.emp \in Employees /\ adjustment[s.adj] = NoAdjustment
               /\ s.pc = "deciding" =>
                      /\ adjustment[s.adj] \in
                             [status : {"pending", "applied", "rejected"}, emp : Employees]
                      /\ s.saw = "pending"
<1>1. TypeOK /\ SessionsSound
  BY DEF CloseInv
<1>2. SessionTyped(session[w]) /\ SessionSound(session[w])
  BY <1>1, SessionKinds DEF TypeOK, SessionsSound
<1> QED
  BY <1>1, <1>2 DEF SessionTyped, SessionSound, TypeOK

(***************************************************************************)
(* A step that writes one adjustment keeps what the other calls know, if   *)
(* none of them requests that adjustment.                                  *)
(***************************************************************************)
LEMMA OtherRequestsKept ==
    ASSUME TypeOK, SessionsSound, NEW w \in Workers, Become(w, Idle),
           NEW a \in Adjustments, adjustment'[a] # NoAdjustment,
           \A b \in Adjustments \ {a} : adjustment'[b] = adjustment[b],
           \A v \in Workers \ {w} : session[v].pc = "requesting" => session[v].adj # a,
           run # NoRun => run' # NoRun, HasFigures => HasFigures'
    PROVE  SessionsSound' /\ session' \in [Workers -> Session]
<1>1. Idle \in Session
  BY DEF Session
<1>2. /\ session'[w] = Idle
      /\ \A v \in Workers \ {w} : session'[v] = session[v]
      /\ session' \in [Workers -> Session]
  BY <1>1, BecomeFacts
<1>3. \A v \in Workers : /\ session[v].pc = "deciding" => session[v].adj \in Adjustments
                         /\ session[v].pc = "requesting" => session[v].adj \in Adjustments
  BY SessionKinds DEF SessionTyped, TypeOK
<1>4. \A v \in Workers : session'[v].pc = "requesting" =>
                            adjustment'[session'[v].adj] = NoAdjustment
  <2> SUFFICES ASSUME NEW v \in Workers, session'[v].pc = "requesting"
               PROVE  adjustment'[session'[v].adj] = NoAdjustment
    OBVIOUS
  <2>1. v # w
    BY <1>2 DEF Idle
  <2> QED
    BY <1>2, <1>3, <2>1 DEF SessionsSound, SessionSound
<1>5. \A v \in Workers : session'[v] \in {session[v], Idle}
  BY <1>2
<1>6. \A b \in Adjustments : adjustment[b] # NoAdjustment => adjustment'[b] # NoAdjustment
  OBVIOUS
<1> QED
  BY <1>2, <1>3, <1>4, <1>5, <1>6, SessionsKept

LEMMA RequestKeepsInv ==
    ASSUME CloseInv, NEW w \in Workers, RequestAdjustment(w)
    PROVE  CloseInv'
<1> DEFINE s == session[w]
           a == s.adj
           new == [status |-> "pending", emp |-> s.emp]
           Kind == [status : {"pending", "applied", "rejected"}, emp : Employees]
<1>1. TypeOK /\ SessionsSound /\ FiguresInv
  BY DEF CloseInv
<1>2. /\ s.pc = "requesting" /\ Become(w, Idle)
      /\ adjustment' = [adjustment EXCEPT ![a] = new]
      /\ UNCHANGED <<run, items, slip, settlement, leave, config, work,
                     serial, confirmed, raced>>
  BY DEF RequestAdjustment
<1>3. /\ a \in Adjustments /\ adjustment[a] = NoAdjustment
      /\ new \in Kind /\ new # NoAdjustment
  BY <1>2, AdjustmentFacts DEF NoAdjustment
<1>4. \A v \in Workers \ {w} : session[v].pc = "requesting" => session[v].adj # a
  BY <1>1, <1>2 DEF SessionsSound
<1>5. \A b \in Adjustments : adjustment'[b] = IF b = a THEN new ELSE adjustment[b]
  BY <1>1, <1>2 DEF TypeOK
<1>6. SessionsSound' /\ session' \in [Workers -> Session]
  <2>1. (run # NoRun => run' # NoRun) /\ (HasFigures => HasFigures')
    BY <1>2 DEF HasFigures
  <2>2. adjustment'[a] # NoAdjustment
        /\ \A b \in Adjustments \ {a} : adjustment'[b] = adjustment[b]
    BY <1>3, <1>5
  <2> HIDE DEF a
  <2> QED
    BY <1>1, <1>2, <1>3, <1>4, <2>1, <2>2, OtherRequestsKept
<1>7. TypeOK'
  <2>1. adjustment' \in [Adjustments -> {NoAdjustment} \cup Kind]
    BY <1>1, <1>2, <1>3 DEF TypeOK
  <2> QED
    BY <1>1, <1>2, <1>6, <2>1 DEF TypeOK
<1>8. FiguresInv'
  <2>1. /\ FiguresKept' /\ TotalsAgree' /\ SlipsAgree' /\ IncludedIsPaid'
        /\ FiguresConfirmed' /\ FiguresOfVersion'
    BY <1>1, <1>2 DEF FiguresInv, FiguresKept, TotalsAgree, SlipsAgree, IncludedIsPaid,
                      FiguresConfirmed, FiguresOfVersion, HasFigures
  <2>2. OnceApplied'
    BY <1>1, <1>2, <1>3, <1>5 DEF FiguresInv, OnceApplied, NoAdjustment
  <2> QED
    BY <2>1, <2>2 DEF FiguresInv
<1> QED
  BY <1>6, <1>7, <1>8 DEF CloseInv

(***************************************************************************)
(* Either decision writes the status of an adjustment that exists.         *)
(***************************************************************************)
LEMMA DecisionWrites ==
    ASSUME CloseInv, NEW w \in Workers, session[w].pc = "deciding", Become(w, Idle),
           NEW status \in {"applied", "rejected"},
           adjustment' = [adjustment EXCEPT ![session[w].adj].status = status],
           run # NoRun => run' # NoRun, HasFigures => HasFigures'
    PROVE  LET a == session[w].adj
           IN  /\ SessionsSound' /\ session' \in [Workers -> Session]
               /\ a \in Adjustments /\ run # NoRun /\ session[w].saw = "pending"
               /\ adjustment[a].emp \in Employees
               /\ adjustment'[a].status = status
               /\ \A b \in Adjustments \ {a} : adjustment'[b] = adjustment[b]
               /\ adjustment' \in [Adjustments -> {NoAdjustment} \cup
                                    [status : {"pending", "applied", "rejected"}, emp : Employees]]
<1> DEFINE a == session[w].adj
           Kind == [status : {"pending", "applied", "rejected"}, emp : Employees]
<1>1. TypeOK /\ SessionsSound
  BY DEF CloseInv
<1>2. /\ a \in Adjustments /\ run # NoRun /\ adjustment[a] \in Kind
      /\ session[w].saw = "pending"
  BY AdjustmentFacts
<1>3. adjustment \in [Adjustments -> {NoAdjustment} \cup Kind]
  BY <1>1 DEF TypeOK
<1>4. /\ adjustment'[a] = [adjustment[a] EXCEPT !.status = status]
      /\ \A b \in Adjustments \ {a} : adjustment'[b] = adjustment[b]
  BY <1>2, <1>3
<1>5. adjustment'[a] \in Kind /\ adjustment'[a].status = status
  BY <1>2, <1>4
<1>6. adjustment' \in [Adjustments -> {NoAdjustment} \cup Kind]
  BY <1>2, <1>3, <1>4, <1>5
<1>7. adjustment'[a] # NoAdjustment
  BY <1>5 DEF NoAdjustment
<1>8. \A v \in Workers \ {w} : session[v].pc = "requesting" => session[v].adj # a
  BY <1>1, <1>2 DEF SessionsSound, SessionSound, NoAdjustment
<1> HIDE DEF a
<1>9. SessionsSound' /\ session' \in [Workers -> Session]
  BY <1>1, <1>2, <1>4, <1>7, <1>8, OtherRequestsKept
<1> QED
  BY <1>2, <1>4, <1>5, <1>6, <1>9 DEF a

LEMMA RejectKeepsInv ==
    ASSUME CloseInv, NEW w \in Workers, RejectAdjustment(w)
    PROVE  CloseInv'
<1> DEFINE s == session[w]
           a == s.adj
<1>1. TypeOK /\ SessionsSound /\ FiguresInv
  BY DEF CloseInv
<1>2. /\ s.pc = "deciding" /\ Become(w, Idle)
      /\ adjustment' = [adjustment EXCEPT ![a].status = "rejected"]
      /\ raced' = IF adjustment[a].status # s.saw THEN raced \cup {"decide"} ELSE raced
      /\ UNCHANGED <<run, items, slip, settlement, leave, config, work, serial, confirmed>>
  BY DEF RejectAdjustment, Missed
<1>3. /\ SessionsSound' /\ session' \in [Workers -> Session]
      /\ a \in Adjustments /\ s.saw = "pending"
      /\ \A b \in Adjustments \ {a} : adjustment'[b] = adjustment[b]
      /\ adjustment' \in [Adjustments -> {NoAdjustment} \cup
                           [status : {"pending", "applied", "rejected"}, emp : Employees]]
  BY <1>2, DecisionWrites DEF HasFigures
<1>4. TypeOK'
  BY <1>1, <1>2, <1>3 DEF TypeOK
<1>5. FiguresInv'
  <2>1. /\ FiguresKept' /\ TotalsAgree' /\ SlipsAgree' /\ IncludedIsPaid'
        /\ FiguresConfirmed' /\ FiguresOfVersion'
    BY <1>1, <1>2 DEF FiguresInv, FiguresKept, TotalsAgree, SlipsAgree, IncludedIsPaid,
                      FiguresConfirmed, FiguresOfVersion, HasFigures
  <2>2. OnceApplied'
    BY <1>1, <1>2, <1>3 DEF FiguresInv, OnceApplied
  <2> QED
    BY <2>1, <2>2 DEF FiguresInv
<1> QED
  BY <1>3, <1>4, <1>5 DEF CloseInv

LEMMA ApplyKeepsInv ==
    ASSUME CloseInv, NEW w \in Workers, ApplyAdjustment(w)
    PROVE  CloseInv'
<1> DEFINE s == session[w]
           a == s.adj
           e == adjustment[a].emp
           row == [id |-> serial + 1, kind |-> "adjustment", adj |-> a, emp |-> e]
           Run == [status : RunStatus, cleared : BOOLEAN, version : Version, net : SUBSET Row]
<1>1. TypeOK /\ SessionsSound /\ FiguresInv
  BY DEF CloseInv
<1>2. /\ s.pc = "deciding" /\ serial < MaxRows /\ Become(w, Idle)
      /\ items' = items \cup {row}
      /\ run' = [run EXCEPT !.net = @ \cup {row}]
      /\ slip' = [slip EXCEPT ![e] = IF @ # {} THEN @ \cup {row} ELSE @]
      /\ adjustment' = [adjustment EXCEPT ![a].status = "applied"]
      /\ serial' = serial + 1
      /\ raced' = IF adjustment[a].status # s.saw THEN raced \cup {"decide"} ELSE raced
      /\ UNCHANGED <<settlement, leave, config, work, confirmed>>
  BY DEF ApplyAdjustment, Missed
<1>3. run # NoRun
  BY <1>1, <1>2 DEF SessionsSound, SessionSound
<1> HIDE DEF row
<1>4. /\ \E net \in {run.net \cup {row}} : run' = [run EXCEPT !.net = net]
      /\ run \in Run
  BY <1>1, <1>2, <1>3 DEF TypeOK
<1>5. /\ run' # NoRun /\ run'.status = run.status /\ run'.version = run.version
      /\ run'.cleared = run.cleared /\ run'.net = run.net \cup {row}
  BY <1>4 DEF NoRun
<1>6. HasFigures => HasFigures'
  BY <1>2 DEF HasFigures, Calculated
<1>7. /\ SessionsSound' /\ session' \in [Workers -> Session]
      /\ a \in Adjustments /\ s.saw = "pending" /\ e \in Employees
      /\ adjustment'[a].status = "applied"
      /\ \A b \in Adjustments \ {a} : adjustment'[b] = adjustment[b]
      /\ adjustment' \in [Adjustments -> {NoAdjustment} \cup
                           [status : {"pending", "applied", "rejected"}, emp : Employees]]
  BY <1>2, <1>5, <1>6, DecisionWrites
<1>8. /\ row \in Row /\ row.kind = "adjustment" /\ row.adj = a /\ row.emp = e
      /\ serial + 1 \in 0 .. MaxRows
  BY <1>1, <1>2, <1>7, BoundsAssumption DEF row, Row, RowId, TypeOK
<1> HIDE DEF e
<1>9. \A f \in Employees : slip'[f] = IF f = e /\ slip[f] # {} THEN slip[f] \cup {row}
                                      ELSE slip[f]
  BY <1>1, <1>2, <1>7 DEF TypeOK
<1>10. TypeOK'
  <2>1. run' \in Run
    BY <1>4, <1>8
  <2>2. slip' \in [Employees -> SUBSET Row]
    BY <1>1, <1>2, <1>8 DEF TypeOK
  <2>3. items' \in SUBSET Row /\ serial' \in 0 .. MaxRows
        /\ raced' \in SUBSET {"recalculate", "settle", "confirm", "lock", "release", "decide"}
    BY <1>1, <1>2, <1>8 DEF TypeOK
  <2> QED
    BY <1>1, <1>2, <1>7, <2>1, <2>2, <2>3 DEF TypeOK
<1>11. FiguresInv'
  <2>1. Calculated(items') = Calculated(items)
    BY <1>2, <1>8 DEF Calculated
  <2>2. FiguresKept' /\ TotalsAgree'
    BY <1>1, <1>2, <1>3, <1>5, <1>6 DEF FiguresInv, FiguresKept, TotalsAgree
  <2>3. FiguresConfirmed' /\ FiguresOfVersion' /\ IncludedIsPaid'
    BY <1>1, <1>2, <1>3, <1>5, <2>1
       DEF FiguresInv, FiguresConfirmed, FiguresOfVersion, IncludedIsPaid
  <2>4. SlipsAgree'
    <3> SUFFICES ASSUME run'.status = "released", "release" \notin raced', NEW f \in Employees
                 PROVE  slip'[f] = ItemsOf(items', f)
      BY DEF SlipsAgree
    <3>1. slip[f] = ItemsOf(items, f) /\ HasFigures
      BY <1>1, <1>2, <1>5 DEF FiguresInv, FiguresKept, SlipsAgree
    <3>2. slip[f] # {}
      BY <3>1 DEF HasFigures, Calculated, ItemsOf
    <3>3. ItemsOf(items', f) = IF f = e THEN ItemsOf(items, f) \cup {row} ELSE ItemsOf(items, f)
      BY <1>2, <1>8 DEF ItemsOf
    <3> QED
      BY <1>9, <3>1, <3>2, <3>3
  <2>5. OnceApplied'
    <3> SUFFICES ASSUME "decide" \notin raced', NEW b \in Adjustments
                 PROVE  /\ \A r1, r2 \in Applied(items', b) : r1 = r2
                        /\ Applied(items', b) # {} => adjustment'[b].status = "applied"
      BY DEF OnceApplied
    <3>1. "decide" \notin raced /\ adjustment[a].status = "pending"
      BY <1>2, <1>7
    <3>2. CASE b = a
      <4>1. Applied(items, a) = {}
        BY <1>1, <1>7, <3>1 DEF FiguresInv, OnceApplied
      <4> QED
        BY <1>2, <1>7, <3>2, <4>1 DEF Applied
    <3>3. CASE b # a
      <4>1. Applied(items', b) = Applied(items, b)
        BY <1>2, <1>8, <3>3 DEF Applied
      <4> QED
        BY <1>1, <1>7, <3>1, <3>3, <4>1 DEF FiguresInv, OnceApplied
    <3> QED
      BY <3>2, <3>3
  <2> QED
    BY <2>2, <2>3, <2>4, <2>5 DEF FiguresInv
<1> QED
  BY <1>7, <1>10, <1>11 DEF CloseInv

-----------------------------------------------------------------------------
(* What happens around the close, and the step *)

LEMMA PublishKeepsInv ==
    ASSUME CloseInv, NEW approved \in BOOLEAN, NEW recalc \in BOOLEAN,
           Publish(approved, recalc)
    PROVE  CloseInv'
<1>1. TypeOK /\ SessionsSound /\ FiguresInv
  BY DEF CloseInv
<1>2. config \in Config /\ config.version \in Nat /\ config.version + 1 <= MaxVersion
  BY <1>1, BoundsAssumption DEF Publish, TypeOK, Config, Version
<1>3. config' \in Config
  <2>1. config.version + 1 \in Version /\ config.marked \in Version
    BY <1>2, BoundsAssumption DEF Config, Version
  <2> QED
    BY <2>1 DEF Publish, Config
<1>4. UNCHANGED <<run, items, slip, adjustment, settlement, leave, work,
                  session, serial, confirmed, raced>>
  BY DEF Publish
<1>5. TypeOK' /\ SessionsSound'
  BY <1>1, <1>3, <1>4 DEF TypeOK, SessionsSound, SessionSound, HasFigures
<1>6. FiguresInv'
  BY <1>1, <1>4 DEF FiguresInv, FiguresKept, TotalsAgree, SlipsAgree, OnceApplied,
                    FiguresConfirmed, FiguresOfVersion, IncludedIsPaid, HasFigures
<1> QED
  BY <1>5, <1>6 DEF CloseInv

LEMMA StutterKeepsInv ==
    ASSUME CloseInv,
           UNCHANGED <<run, items, slip, adjustment, settlement, leave, config,
                       session, serial, confirmed, raced>>,
           work' \in BOOLEAN
    PROVE  CloseInv'
<1>1. TypeOK' /\ SessionsSound'
  BY DEF CloseInv, TypeOK, SessionsSound, SessionSound, HasFigures
<1>2. FiguresInv'
  BY DEF CloseInv, FiguresInv, FiguresKept, TotalsAgree, SlipsAgree, OnceApplied,
         FiguresConfirmed, FiguresOfVersion, IncludedIsPaid, HasFigures
<1> QED
  BY <1>1, <1>2 DEF CloseInv

LEMMA StepInv == CloseInv /\ [Next]_vars => CloseInv'
<1> SUFFICES ASSUME CloseInv, [Next]_vars PROVE CloseInv'
  OBVIOUS
<1>1. CASE UNCHANGED vars
  BY <1>1, StutterKeepsInv DEF vars, CloseInv, TypeOK
<1>2. ASSUME NEW w \in Workers, CloseRun(w) PROVE CloseInv'
  <2>1. CASE ReadBlockers(w) \/ CreateRun(w) \/ ResolveBlockers(w)
             \/ ReadBlockedRun(w) \/ BlockRun(w)
    BY <2>1, ReadsBlockers, CreatesRun, StatusChanges, ReadsBlockedRun
  <2>2. CASE ReadSalaries(w) \/ DeleteItems(w) \/ LockItems(w) \/ Recalculate(w)
    BY <2>2, ReadsSalaries, DeletesItems, LocksItems, RecalculateKeepsInv
  <2>3. CASE ReadForConfirm(w) \/ ConfirmRun(w)
    BY <2>3, ReadsForConfirm, ConfirmKeepsInv
  <2>4. CASE ReadForLock(w) \/ ReadSettlements(w) \/ LockRun(w)
    BY <2>4, ReadsForLock, ReadsSettlements, LockKeepsInv
  <2>5. CASE ReadForRelease(w) \/ ReleasePayslips(w)
    BY <2>5, ReadsForRelease, ReleaseKeepsInv
  <2> QED
    BY <1>2, <2>1, <2>2, <2>3, <2>4, <2>5 DEF CloseRun
<1>3. ASSUME NEW w \in Workers, Settle(w) PROVE CloseInv'
  BY <1>3, ReadsBalances, PrepareKeepsInv DEF Settle
<1>4. ASSUME NEW w \in Workers, Adjust(w) PROVE CloseInv'
  BY <1>4, ReadsForAdjustment, RequestKeepsInv, ReadsAdjustment, RejectKeepsInv,
     ApplyKeepsInv DEF Adjust
<1>5. ASSUME NEW w \in Workers, Surroundings(w) PROVE CloseInv'
  <2>1. CASE WorkChanges(w)
    <3>1. (~work) \in BOOLEAN
      OBVIOUS
    <3> QED
      BY <2>1, <3>1, StutterKeepsInv DEF WorkChanges
  <2>2. CASE \E approved, recalc \in BOOLEAN : Publish(approved, recalc)
    BY <2>2, PublishKeepsInv
  <2> QED
    BY <1>5, <2>1, <2>2 DEF Surroundings, EditRules, ReviewSources
<1>6. ASSUME NEW w \in Workers, Abort(w) PROVE CloseInv'
  BY <1>6, AbortStops
<1> QED
  BY <1>1, <1>2, <1>3, <1>4, <1>5, <1>6 DEF Next

LEMMA AlwaysCloseInv == Spec => []CloseInv
BY InitInv, StepInv, PTL DEF Spec

-----------------------------------------------------------------------------
(* Theorems *)

(***************************************************************************)
(* Every column keeps its type: in particular a settlement never leaves a  *)
(* negative balance, whatever it was overtaken by.                         *)
(***************************************************************************)
THEOREM CloseTypeCorrect == Spec => []TypeOK
<1>1. CloseInv => TypeOK
  BY DEF CloseInv
<1> QED
  BY <1>1, AlwaysCloseInv, PTL

(***************************************************************************)
(* The totals of a run are those of its items.                             *)
(***************************************************************************)
THEOREM TotalsAlwaysAgree == Spec => []TotalsAgree
<1>1. CloseInv => TotalsAgree
  BY DEF CloseInv, FiguresInv
<1> QED
  BY <1>1, AlwaysCloseInv, PTL

(***************************************************************************)
(* While a run is released every payslip is what its items say.            *)
(***************************************************************************)
THEOREM SlipsAlwaysAgree == Spec => []SlipsAgree
<1>1. CloseInv => SlipsAgree
  BY DEF CloseInv, FiguresInv
<1> QED
  BY <1>1, AlwaysCloseInv, PTL

(***************************************************************************)
(* An adjustment is paid at most once.                                     *)
(***************************************************************************)
THEOREM AlwaysAppliedOnce == Spec => []AppliedOnce
<1>1. OnceApplied => AppliedOnce
  <2> SUFFICES ASSUME OnceApplied, "decide" \notin raced, NEW a \in Adjustments
               PROVE  /\ Cardinality(Applied(items, a)) <= 1
                      /\ Applied(items, a) # {} => adjustment[a].status = "applied"
    BY DEF AppliedOnce
  <2>1. CASE Applied(items, a) = {}
    BY <2>1, FS_EmptySet
  <2>2. CASE Applied(items, a) # {}
    <3>1. PICK r \in Applied(items, a) : TRUE
      BY <2>2
    <3>2. Applied(items, a) = {r}
      BY <3>1 DEF OnceApplied
    <3>3. Cardinality({r}) = 1
      BY FS_Singleton
    <3> QED
      BY <3>2, <3>3 DEF OnceApplied
  <2> QED
    BY <2>1, <2>2
<1>2. CloseInv => OnceApplied
  BY DEF CloseInv, FiguresInv
<1> QED
  BY <1>1, <1>2, AlwaysCloseInv, PTL

(***************************************************************************)
(* What is locked is what HR confirmed.                                    *)
(***************************************************************************)
THEOREM AlwaysLockedAsConfirmed == Spec => []LockedAsConfirmed
<1>1. CloseInv => LockedAsConfirmed
  BY DEF CloseInv, FiguresInv, FiguresConfirmed, LockedAsConfirmed, Closed
<1> QED
  BY <1>1, AlwaysCloseInv, PTL

(***************************************************************************)
(* An included settlement is in the pay.                                   *)
(***************************************************************************)
THEOREM IncludedAlwaysPaid == Spec => []IncludedIsPaid
<1>1. CloseInv => IncludedIsPaid
  BY DEF CloseInv, FiguresInv
<1> QED
  BY <1>1, AlwaysCloseInv, PTL

\* No other step locks a run.
LEMMA OnlyLockLocks ==
    ASSUME CloseInv, [Next]_vars, run'.status = "locked", run.status # "locked"
    PROVE  \E w \in Workers : LockRun(w)
<1> DEFINE Runs == {NoRun} \cup [status : RunStatus, cleared : BOOLEAN, version : Version,
                                  net : SUBSET Row]
<1>1. TypeOK /\ SessionsSound
  BY DEF CloseInv
<1>2. run \in Runs
  BY <1>1 DEF TypeOK
<1>3. ASSUME NEW w \in Workers, CloseRun(w), ~LockRun(w) PROVE FALSE
  <2>1. CASE run' = run
    BY <2>1
  <2>2. CASE CreateRun(w)
    BY <1>2, <2>2 DEF CreateRun, OpenStatus, NoRun
  <2>3. CASE ResolveBlockers(w)
    BY <1>2, <2>3 DEF ResolveBlockers
  <2>4. CASE BlockRun(w) \/ ConfirmRun(w) \/ ReleasePayslips(w)
    BY <1>2, <2>4 DEF BlockRun, ConfirmRun, ReleasePayslips, NoRun
  <2>5. CASE Recalculate(w)
    <3>1. run # NoRun
      BY <1>1, <2>5 DEF Recalculate, SessionsSound, SessionSound
    <3>2. run'.status = "calculated"
      BY <1>2, <2>5, <3>1 DEF Recalculate
    <3> QED
      BY <3>2
  <2> QED
    BY <1>3, <2>1, <2>2, <2>3, <2>4, <2>5
       DEF CloseRun, ReadBlockers, ReadBlockedRun, ReadSalaries, DeleteItems, LockItems,
           ReadForConfirm, ReadForLock, ReadSettlements, ReadForRelease
<1>4. ASSUME NEW w \in Workers, Adjust(w) PROVE FALSE
  <2>1. CASE run' = run
    BY <2>1
  <2>2. CASE ApplyAdjustment(w)
    <3>1. PICK net : run' = [run EXCEPT !.net = net]
      BY <2>2 DEF ApplyAdjustment
    <3>2. run'.status = run.status
      BY <1>2, <3>1 DEF NoRun
    <3> QED
      BY <3>2
  <2> QED
    BY <1>4, <2>1, <2>2
       DEF Adjust, ReadForAdjustment, RequestAdjustment, ReadAdjustment, RejectAdjustment
<1>5. ASSUME NEW w \in Workers, Settle(w) \/ Surroundings(w) \/ Abort(w) PROVE FALSE
  BY <1>5 DEF Settle, ReadBalances, PrepareSettlements, Surroundings, EditRules,
              ReviewSources, Publish, WorkChanges, Abort
<1> QED
  BY <1>3, <1>4, <1>5 DEF Next, vars

(***************************************************************************)
(* A lock that missed nothing locks reviewed figures of the right version. *)
(***************************************************************************)
THEOREM AlwaysLockedUnderReview == Spec => LockedUnderReview
<1>1. ASSUME CloseInv, [Next]_vars, run'.status = "locked", run.status # "locked",
             "lock" \notin raced'
      PROVE  /\ config.approved
             /\ config.recalc => run.version = config.version
             /\ "recalculate" \notin raced =>
                   \A row \in Calculated(items) : row.version = run.version
  <2>1. PICK w \in Workers : LockRun(w)
    BY <1>1, OnlyLockLocks
  <2> DEFINE s == session[w]
  <2>2. run # NoRun /\ ~BlocksLock(s.version, s.rules)
    BY <1>1, <2>1 DEF CloseInv, SessionsSound, SessionSound, LockRun
  <2>3. run.version = s.version /\ config = s.rules
    BY <1>1, <2>1 DEF LockRun, Missed
  <2>4. FiguresOfVersion
    BY <1>1 DEF CloseInv, FiguresInv
  <2> QED
    BY <2>2, <2>3, <2>4 DEF BlocksLock, NeedsRecalculation, FiguresOfVersion
<1>2. CloseInv /\ [Next]_vars =>
        [run'.status = "locked" /\ run.status # "locked" /\ "lock" \notin raced' =>
            /\ config.approved
            /\ config.recalc => run.version = config.version
            /\ "recalculate" \notin raced =>
                  \A row \in Calculated(items) : row.version = run.version]_vars
  BY <1>1
<1> QED
  BY <1>2, AlwaysCloseInv, PTL DEF Spec, LockedUnderReview

-----------------------------------------------------------------------------
(***************************************************************************)
(* Calls that do not overlap where it matters.  For each reason why a call *)
(* may miss a change: while one call relies on what it has read, no other  *)
(* is about to write it.  Then nothing is ever missed for this reason, and *)
(* what the invariants above excuse does not happen.  Every other overlap  *)
(* remains allowed.  SeenInv(k) is inductive as long as that is so.        *)
(***************************************************************************)
Gaps == {"recalculate", "settle", "confirm", "lock", "release", "decide"}

\* The calls that rely on what they have read.
Relying(k) ==
    CASE k = "recalculate" -> {"deleting", "replacing"}
      [] k = "settle" -> {"calculating", "deleting", "replacing"}
      [] k = "confirm" -> {"confirming"}
      [] k = "lock" -> {"locking", "closing"}
      [] k = "release" -> {"releasing"}
      [] k = "decide" -> {"deciding"}

\* The calls whose next step would change it.
Spoiling(k) ==
    CASE k = "recalculate" -> {"replacing", "deciding"}
      [] k = "settle" -> {"preparing"}
      [] k \in {"confirm", "lock"} -> {"creating", "blocking", "replacing", "closing", "releasing"}
      [] k = "release" -> {"creating", "blocking", "replacing", "confirming", "deciding"}
      [] k = "decide" -> {"deciding"}

Undisturbed(k) ==
    \A v, w \in Workers :
        /\ session[v].pc \in Relying(k) /\ session[w].pc \in Spoiling(k)
        /\ k = "decide" => session[v].adj = session[w].adj
        => v = w

\* Blockers are resolved, and rules published, in one step: not beside such a call.
Spared(k) ==
    k \in {"confirm", "lock", "release"} /\ (\E v \in Workers : session[v].pc \in Relying(k)) =>
        /\ \A w \in Workers : ~ResolveBlockers(w)
        /\ k = "lock" => config' = config

\* What a call has read is still so.
SeenStands(k, s) ==
    s.pc \in Relying(k) =>
        /\ k = "recalculate" => s.doomed = items
        /\ k = "settle" => s.paid = ToPay
        /\ k = "confirm" => /\ run.status \in {"calculated", "confirmed"}
                            /\ Calculated(s.seen) = Calculated(items)
        /\ k = "lock" => /\ run.status = "confirmed" /\ s.from = "confirmed"
                         /\ s.version = run.version /\ s.rules = config
        /\ k = "release" => Closed(run.status) /\ s.seen = items
        /\ k = "decide" => adjustment[s.adj].status = s.saw

NothingMissed(k) == k \notin raced /\ \A v \in Workers : SeenStands(k, session[v])

SeenInv(k) == CloseInv /\ NothingMissed(k)

LEMMA SeenInit ==
    ASSUME NEW k \in Gaps, Init
    PROVE  SeenInv(k)
<1>1. "idle" \notin Relying(k)
  BY DEF Gaps, Relying
<1>2. \A v \in Workers : session[v].pc = "idle"
  BY DEF Init, Idle
<1>3. k \notin raced
  BY DEF Init
<1> QED
  BY <1>1, <1>2, <1>3, InitInv DEF SeenInv, NothingMissed, SeenStands

\* A step that changes nothing but one call.
LEMMA ReadStands ==
    ASSUME NEW k \in Gaps, SeenInv(k), NEW w \in Workers, NEW s, Become(w, s),
           SeenStands(k, s), UNCHANGED Figures
    PROVE  NothingMissed(k)'
<1>1. session'[w] = s /\ \A v \in Workers \ {w} : session'[v] = session[v]
  BY DEF SeenInv, CloseInv, TypeOK, Become
<1>2. \A v \in Workers : SeenStands(k, session'[v])
  BY <1>1 DEF SeenInv, NothingMissed
<1>3. \A v \in Workers : SeenStands(k, session[v])'
  BY <1>2 DEF SeenStands, Figures, ToPay
<1> QED
  BY <1>3 DEF SeenInv, NothingMissed, Figures

\* A call that relies on nothing yet, or any more.
LEMMA OthersRead ==
    ASSUME NEW k \in Gaps, SeenInv(k), NEW w \in Workers,
           \/ ReadBlockers(w) \/ ReadBlockedRun(w) \/ Abort(w)
           \/ \E reason \in Reasons : ReadBalances(w, reason)
           \/ \E a \in Adjustments, e \in Employees : ReadForAdjustment(w, a, e)
    PROVE  NothingMissed(k)'
<1>1. PICK s : /\ Become(w, s) /\ UNCHANGED Figures
               /\ s.pc \in {"creating", "blocking", "idle", "preparing", "requesting"}
  <2>1. CASE ReadBlockers(w)
    BY <2>1 DEF ReadBlockers, Figures
  <2>2. CASE ReadBlockedRun(w)
    BY <2>2 DEF ReadBlockedRun, Figures
  <2>3. CASE Abort(w)
    BY <2>3 DEF Abort, Figures, Idle
  <2>4. ASSUME NEW reason \in Reasons, ReadBalances(w, reason)
        PROVE  \E s : /\ Become(w, s) /\ UNCHANGED Figures /\ s.pc = "preparing"
    BY <2>4 DEF ReadBalances, Figures
  <2>5. ASSUME NEW a \in Adjustments, NEW e \in Employees, ReadForAdjustment(w, a, e)
        PROVE  \E s : /\ Become(w, s) /\ UNCHANGED Figures /\ s.pc = "requesting"
    BY <2>5 DEF ReadForAdjustment, Figures
  <2> QED
    BY <2>1, <2>2, <2>3, <2>4, <2>5
<1>2. s.pc \notin Relying(k)
  BY <1>1 DEF Gaps, Relying
<1> QED
  BY <1>1, <1>2, ReadStands DEF SeenStands

\* A call sees what is there when it reads.
LEMMA CallsRead ==
    ASSUME NEW k \in Gaps, SeenInv(k), NEW w \in Workers,
           \/ ReadSalaries(w) \/ ReadForConfirm(w) \/ ReadForLock(w) \/ ReadForRelease(w)
           \/ \E a \in Adjustments, action \in Actions : ReadAdjustment(w, a, action)
    PROVE  NothingMissed(k)'
<1>1. CASE ReadSalaries(w)
  <2> DEFINE s == [pc |-> "calculating", version |-> config.version, paid |-> ToPay]
  <2>1. Become(w, s) /\ UNCHANGED Figures /\ s.pc = "calculating" /\ s.paid = ToPay
    BY <1>1 DEF ReadSalaries, Figures
  <2> HIDE DEF s
  <2>2. SeenStands(k, s)
    BY <2>1 DEF SeenStands, Gaps, Relying
  <2> QED
    BY <2>1, <2>2, ReadStands
<1>2. CASE ReadForConfirm(w)
  <2> DEFINE s == [pc |-> "confirming", seen |-> items]
  <2>1. Become(w, s) /\ UNCHANGED Figures /\ s.pc = "confirming" /\ s.seen = items
    BY <1>2 DEF ReadForConfirm, Figures
  <2> HIDE DEF s
  <2>2. SeenStands(k, s)
    BY <1>2, <2>1 DEF ReadForConfirm, SeenStands, Gaps, Relying
  <2> QED
    BY <2>1, <2>2, ReadStands
<1>3. CASE ReadForLock(w)
  <2> DEFINE s == [pc |-> "locking", from |-> run.status, version |-> run.version,
                   rules |-> config]
  <2>1. /\ Become(w, s) /\ UNCHANGED Figures /\ s.pc = "locking"
        /\ s.from = run.status /\ s.version = run.version /\ s.rules = config
    BY <1>3 DEF ReadForLock, Figures
  <2> HIDE DEF s
  <2>2. SeenStands(k, s)
    BY <1>3, <2>1 DEF ReadForLock, SeenStands, Gaps, Relying
  <2> QED
    BY <2>1, <2>2, ReadStands
<1>4. CASE ReadForRelease(w)
  <2> DEFINE s == [pc |-> "releasing", seen |-> items]
  <2>1. Become(w, s) /\ UNCHANGED Figures /\ s.pc = "releasing" /\ s.seen = items
    BY <1>4 DEF ReadForRelease, Figures
  <2>2. Closed(run.status)
    BY <1>4 DEF ReadForRelease, CanReleasePayroll, Closed
  <2> HIDE DEF s
  <2>3. SeenStands(k, s)
    BY <2>1, <2>2 DEF SeenStands, Gaps, Relying
  <2> QED
    BY <2>1, <2>3, ReadStands
<1>5. ASSUME NEW a \in Adjustments, NEW action \in Actions, ReadAdjustment(w, a, action)
      PROVE  NothingMissed(k)'
  <2> DEFINE s == [pc |-> "deciding", adj |-> a, action |-> action,
                   saw |-> adjustment[a].status]
  <2>1. /\ Become(w, s) /\ UNCHANGED Figures /\ s.pc = "deciding"
        /\ s.adj = a /\ s.saw = adjustment[a].status
    BY <1>5 DEF ReadAdjustment, Figures
  <2> HIDE DEF s
  <2>2. SeenStands(k, s)
    BY <2>1 DEF SeenStands, Gaps, Relying
  <2> QED
    BY <2>1, <2>2, ReadStands
<1> QED
  BY <1>1, <1>2, <1>3, <1>4, <1>5

\* A call that goes on keeps what it has read.
LEMMA CallsGoOn ==
    ASSUME NEW k \in Gaps, SeenInv(k), NEW w \in Workers,
           DeleteItems(w) \/ LockItems(w) \/ ReadSettlements(w)
    PROVE  NothingMissed(k)'
<1> DEFINE old == session[w]
<1>0. TypeOK /\ SeenStands(k, old)
  BY DEF SeenInv, CloseInv, NothingMissed
<1>1. CASE DeleteItems(w)
  <2> DEFINE s == [pc |-> "deleting", version |-> old.version, paid |-> old.paid,
                   doomed |-> items]
  <2>1. /\ Become(w, s) /\ UNCHANGED Figures /\ s.pc = "deleting"
        /\ s.paid = old.paid /\ s.doomed = items /\ old.pc = "calculating"
    BY <1>1 DEF DeleteItems, Figures
  <2> HIDE DEF s, old
  <2>2. SeenStands(k, s)
    BY <1>0, <2>1 DEF SeenStands, Gaps, Relying
  <2> QED
    BY <2>1, <2>2, ReadStands
<1>2. CASE LockItems(w)
  <2> DEFINE s == [old EXCEPT !.pc = "replacing", !.doomed = old.doomed \cap items]
             Deleting == [pc : {"deleting", "replacing"}, version : Version,
                          paid : SUBSET Due, doomed : SUBSET Row]
  <2>1. old.pc = "deleting" /\ old \in Deleting
    BY <1>0, <1>2, SessionKinds DEF SessionTyped, TypeOK, LockItems
  <2>2. Become(w, s) /\ UNCHANGED Figures
    BY <1>2 DEF LockItems, Figures
  <2>3. s.pc = "replacing" /\ s.paid = old.paid /\ s.doomed = old.doomed \cap items
    BY <2>1
  <2> HIDE DEF s, old
  <2>4. SeenStands(k, s)
    BY <1>0, <2>1, <2>3 DEF SeenStands, Gaps, Relying
  <2> QED
    BY <2>2, <2>4, ReadStands
<1>3. CASE ReadSettlements(w)
  <2> DEFINE s == [pc |-> "closing", from |-> old.from, version |-> old.version,
                   rules |-> old.rules, seen |-> leave,
                   included |-> {d \in ToPay : settlement[<<d[1], d[2]>>].status = "included"}]
  <2>1. /\ Become(w, s) /\ UNCHANGED Figures /\ s.pc = "closing" /\ old.pc = "locking"
        /\ s.from = old.from /\ s.version = old.version /\ s.rules = old.rules
    BY <1>3 DEF ReadSettlements, Figures
  <2> HIDE DEF s, old
  <2>2. SeenStands(k, s)
    BY <1>0, <2>1 DEF SeenStands, Gaps, Relying
  <2> QED
    BY <2>1, <2>2, ReadStands
<1> QED
  BY <1>1, <1>2, <1>3

(***************************************************************************)
(* A step that writes.  What another call relies on is left alone by it,   *)
(* or else the writing call would disturb it.                              *)
(***************************************************************************)
Leaves(k) ==
    /\ k = "recalculate" => items' = items
    /\ k = "settle" => ToPay' = ToPay
    /\ k = "confirm" => /\ run.status \in {"calculated", "confirmed"} =>
                               run'.status \in {"calculated", "confirmed"}
                        /\ Calculated(items') = Calculated(items)
    /\ k = "lock" => /\ run.status = "confirmed" => run'.status = "confirmed"
                     /\ run'.version = run.version /\ config' = config
    /\ k = "release" => /\ Closed(run.status) => Closed(run'.status)
                        /\ items' = items

LEMMA WriteStands ==
    ASSUME NEW k \in Gaps, SeenInv(k), NEW w \in Workers, Become(w, Idle),
           k \notin raced', k # "decide",
           session[w].pc \notin Spoiling(k) => Leaves(k), Undisturbed(k)
    PROVE  NothingMissed(k)'
<1>1. session'[w] = Idle /\ \A v \in Workers \ {w} : session'[v] = session[v]
  BY DEF SeenInv, CloseInv, TypeOK, Become
<1>2. "idle" \notin Relying(k)
  BY DEF Gaps, Relying
<1>3. ASSUME NEW v \in Workers
      PROVE  SeenStands(k, session[v])'
  <2>1. CASE session'[v].pc \notin Relying(k)
    BY <2>1 DEF SeenStands
  <2>2. CASE session'[v].pc \in Relying(k)
    <3>1. v # w /\ session'[v] = session[v]
      BY <1>1, <1>2, <2>2 DEF Idle
    <3>2. session[w].pc \notin Spoiling(k)
      BY <2>2, <3>1 DEF Undisturbed
    <3>3. Leaves(k) /\ SeenStands(k, session[v])
      BY <3>2 DEF SeenInv, NothingMissed
    <3> QED
      BY <2>2, <3>1, <3>3 DEF SeenStands, Leaves
  <2> QED
    BY <2>1, <2>2
<1> QED
  BY <1>3 DEF NothingMissed

LEMMA DecisionStands ==
    ASSUME SeenInv("decide"), NEW w \in Workers, Become(w, Idle), "decide" \notin raced',
           \A v \in Workers \ {w} : session[v].pc = "deciding" =>
               adjustment'[session[v].adj].status = adjustment[session[v].adj].status
    PROVE  NothingMissed("decide")'
<1>1. session'[w] = Idle /\ \A v \in Workers \ {w} : session'[v] = session[v]
  BY DEF SeenInv, CloseInv, TypeOK, Become
<1>2. ASSUME NEW v \in Workers
      PROVE  SeenStands("decide", session[v])'
  BY <1>1 DEF SeenInv, NothingMissed, SeenStands, Relying, Idle
<1> QED
  BY <1>2 DEF NothingMissed

\* Where the decisions of adjustments are not touched.
LEMMA WriteLeavesAll ==
    ASSUME NEW k \in Gaps, SeenInv(k), NEW w \in Workers, Become(w, Idle),
           k \notin raced', adjustment' = adjustment,
           k # "decide" /\ session[w].pc \notin Spoiling(k) => Leaves(k), Undisturbed(k)
    PROVE  NothingMissed(k)'
BY WriteStands, DecisionStands

\* Calls of one step: the rest of the calls are as before.
LEMMA StepAlone ==
    ASSUME NEW k \in Gaps, SeenInv(k), UNCHANGED <<session, adjustment, raced>>,
           (\E v \in Workers : session[v].pc \in Relying(k)) => Leaves(k)
    PROVE  NothingMissed(k)'
<1>1. ASSUME NEW v \in Workers
      PROVE  SeenStands(k, session[v])'
  <2>1. CASE session[v].pc \notin Relying(k)
    BY <2>1 DEF SeenStands
  <2>2. CASE session[v].pc \in Relying(k)
    <3>1. Leaves(k) /\ SeenStands(k, session[v])
      BY <2>2 DEF SeenInv, NothingMissed
    <3> QED
      BY <2>2, <3>1 DEF SeenStands, Leaves
  <2> QED
    BY <2>1, <2>2
<1> QED
  BY <1>1 DEF SeenInv, NothingMissed

\* An upsert of the run, and a run that is blocked.
LEMMA OpeningStands ==
    ASSUME NEW k \in Gaps, SeenInv(k), Undisturbed(k), NEW w \in Workers,
           CreateRun(w) \/ BlockRun(w)
    PROVE  NothingMissed(k)'
<1>1. /\ Become(w, Idle) /\ session[w].pc \in {"creating", "blocking"}
      /\ UNCHANGED <<items, settlement, adjustment, raced>>
  BY DEF CreateRun, BlockRun
<1>2. k \notin raced'
  BY <1>1 DEF SeenInv, NothingMissed
<1>3. session[w].pc \notin Spoiling(k) => Leaves(k)
  BY <1>1 DEF Gaps, Spoiling, Leaves, ToPay
<1> QED
  BY <1>1, <1>2, <1>3, WriteLeavesAll

\* A calculation that replaces all items, and pays what is still to be paid.
LEMMA RecalculateStands ==
    ASSUME NEW k \in Gaps, SeenInv(k), Undisturbed(k), NEW w \in Workers, Recalculate(w)
    PROVE  NothingMissed(k)'
<1> DEFINE s == session[w]
<1>1. /\ s.pc = "replacing" /\ Become(w, Idle) /\ adjustment' = adjustment
      /\ settlement' = [j \in Employees \X Reasons |->
                          IF settlement[j].status = "draft"
                          THEN [settlement[j] EXCEPT !.status = "included"]
                          ELSE settlement[j]]
      /\ raced' = raced \cup (IF items # s.doomed THEN {"recalculate"} ELSE {})
                        \cup (IF ToPay # s.paid THEN {"settle"} ELSE {})
  BY DEF Recalculate
<1>2. k \notin raced'
  BY <1>1 DEF SeenInv, NothingMissed, SeenStands, Relying
<1>3. ToPay' = ToPay
  <2> DEFINE Kind == [status : {"draft", "included"}, units : Nat \ {0}]
  <2>1. \A j \in Employees \X Reasons : settlement[j] \in {NoSettlement} \cup Kind
    BY DEF SeenInv, CloseInv, TypeOK
  <2>2. ASSUME NEW j \in Employees \X Reasons
        PROVE  /\ settlement'[j] = NoSettlement <=> settlement[j] = NoSettlement
               /\ settlement'[j].units = settlement[j].units
    <3>1. CASE settlement[j].status = "draft"
      <4>1. settlement[j] \in Kind
        BY <2>1, <3>1 DEF NoSettlement
      <4>2. settlement'[j] = [settlement[j] EXCEPT !.status = "included"]
        BY <1>1, <3>1
      <4>3. settlement'[j].status = "included" /\ settlement'[j].units = settlement[j].units
        BY <4>1, <4>2
      <4> QED
        BY <3>1, <4>3 DEF NoSettlement
    <3>2. CASE settlement[j].status # "draft"
      BY <1>1, <3>2
    <3> QED
      BY <3>1, <3>2
  <2> QED
    BY <2>2 DEF ToPay
<1>4. s.pc \notin Spoiling(k) => k \in {"settle", "decide"}
  BY <1>1 DEF Gaps, Spoiling
<1>5. k # "decide" /\ session[w].pc \notin Spoiling(k) => Leaves(k)
  BY <1>3, <1>4 DEF Leaves
<1> QED
  BY <1>1, <1>2, <1>5, WriteLeavesAll

\* Each of them sets the status, and no other column that a call relies on.
LEMMA StatusStands ==
    ASSUME NEW k \in Gaps, SeenInv(k), Undisturbed(k), NEW w \in Workers,
           ConfirmRun(w) \/ LockRun(w) \/ ReleasePayslips(w)
    PROVE  NothingMissed(k)'
<1> DEFINE s == session[w]
           Run == [status : RunStatus, cleared : BOOLEAN, version : Version, net : SUBSET Row]
<1>0. SeenStands(k, s) /\ k \notin raced
  BY DEF SeenInv, NothingMissed
<1>1. /\ Become(w, Idle) /\ UNCHANGED <<items, settlement, adjustment, config>>
      /\ s.pc \in {"confirming", "closing", "releasing"}
  BY DEF ConfirmRun, LockRun, ReleasePayslips
<1>2. run \in Run
  BY <1>1 DEF SeenInv, CloseInv, SessionsSound, SessionSound, TypeOK
<1>3. PICK status \in {"confirmed", "locked", "released"} :
        /\ run' = [run EXCEPT !.status = status]
        /\ s.pc = "confirming" => status = "confirmed"
        /\ s.pc \in {"closing", "releasing"} => status \in {"locked", "released"}
  BY DEF ConfirmRun, LockRun, ReleasePayslips
<1>4. run'.status = status /\ run'.version = run.version
  BY <1>2, <1>3
<1>5. k \notin raced'
  <2>1. CASE ConfirmRun(w)
    BY <1>0, <2>1 DEF ConfirmRun, Missed, SeenStands, Relying
  <2>2. CASE LockRun(w)
    <3>1. raced' = IF \/ run.status # s.from
                      \/ run.version # s.version \/ config # s.rules
                   THEN raced \cup {"lock"} ELSE raced
      BY <2>2 DEF LockRun, Missed
    <3>2. s.pc = "closing"
      BY <2>2 DEF LockRun
    <3> QED
      BY <1>0, <3>1, <3>2 DEF SeenStands, Relying
  <2>3. CASE ReleasePayslips(w)
    BY <1>0, <2>3 DEF ReleasePayslips, Missed, SeenStands, Relying
  <2> QED
    BY <2>1, <2>2, <2>3
<1> HIDE DEF s
<1>6. s.pc \notin Spoiling(k) => Leaves(k)
  <2>1. CASE s.pc = "confirming"
    BY <1>1, <1>3, <1>4, <2>1 DEF Gaps, Spoiling, Leaves, ToPay
  <2>2. CASE s.pc \in {"closing", "releasing"}
    BY <1>1, <1>3, <1>4, <2>2 DEF Gaps, Spoiling, Leaves, ToPay, Closed
  <2> QED
    BY <1>1, <2>1, <2>2
<1> QED
  BY <1>1, <1>5, <1>6, WriteLeavesAll DEF s

LEMMA PrepareStands ==
    ASSUME NEW k \in Gaps, SeenInv(k), Undisturbed(k), NEW w \in Workers, PrepareSettlements(w)
    PROVE  NothingMissed(k)'
<1>1. /\ Become(w, Idle) /\ session[w].pc = "preparing"
      /\ UNCHANGED <<run, items, adjustment, config, raced>>
  BY DEF PrepareSettlements
<1>2. k \notin raced'
  BY <1>1 DEF SeenInv, NothingMissed
<1>3. session[w].pc \notin Spoiling(k) => Leaves(k)
  BY <1>1 DEF Gaps, Spoiling, Leaves
<1> QED
  BY <1>1, <1>2, <1>3, WriteLeavesAll

LEMMA RequestStands ==
    ASSUME NEW k \in Gaps, SeenInv(k), Undisturbed(k), NEW w \in Workers, RequestAdjustment(w)
    PROVE  NothingMissed(k)'
<1> DEFINE s == session[w]
<1>1. /\ Become(w, Idle) /\ s.pc = "requesting"
      /\ adjustment' = [adjustment EXCEPT ![s.adj] = [status |-> "pending", emp |-> s.emp]]
      /\ UNCHANGED <<run, items, settlement, config, raced>>
  BY DEF RequestAdjustment
<1>2. k \notin raced'
  BY <1>1 DEF SeenInv, NothingMissed
<1>3. CASE k # "decide"
  <2>1. Leaves(k)
    BY <1>1 DEF Leaves, ToPay
  <2> QED
    BY <1>1, <1>2, <1>3, <2>1, WriteStands
<1>4. CASE k = "decide"
  <2>1. ASSUME NEW v \in Workers \ {w}, session[v].pc = "deciding"
        PROVE  adjustment'[session[v].adj].status = adjustment[session[v].adj].status
    <3>1. adjustment[s.adj] = NoAdjustment /\ adjustment[session[v].adj] # NoAdjustment
      BY <1>1, <2>1 DEF SeenInv, CloseInv, SessionsSound, SessionSound
    <3>2. session[v].adj \in Adjustments
      BY <2>1, AdjustmentFacts DEF SeenInv
    <3> QED
      BY <1>1, <3>1, <3>2 DEF SeenInv, CloseInv, TypeOK
  <2> QED
    BY <1>1, <1>2, <1>4, <2>1, DecisionStands
<1> QED
  BY <1>3, <1>4

\* What both decisions of an adjustment do to the others in progress.
LEMMA DecideStands ==
    ASSUME NEW k \in Gaps, SeenInv(k), Undisturbed(k), NEW w \in Workers,
           session[w].pc = "deciding", Become(w, Idle), NEW status \in {"applied", "rejected"},
           adjustment' = [adjustment EXCEPT ![session[w].adj].status = status],
           Missed("decide", adjustment[session[w].adj].status # session[w].saw),
           k # "decide" /\ session[w].pc \notin Spoiling(k) => Leaves(k)
    PROVE  NothingMissed(k)'
<1>1. k \notin raced'
  BY DEF SeenInv, NothingMissed, SeenStands, Relying, Missed
<1>2. CASE k # "decide"
  BY <1>1, <1>2, WriteStands
<1>3. CASE k = "decide"
  <2>1. ASSUME NEW v \in Workers \ {w}, session[v].pc = "deciding"
        PROVE  adjustment'[session[v].adj].status = adjustment[session[v].adj].status
    <3>1. session[v].adj # session[w].adj
      BY <1>3, <2>1 DEF Undisturbed, Relying, Spoiling
    <3>2. session[v].adj \in Adjustments
      BY <2>1, AdjustmentFacts DEF SeenInv
    <3> QED
      BY <3>1, <3>2 DEF SeenInv, CloseInv, TypeOK
  <2> QED
    BY <1>1, <1>3, <2>1, DecisionStands
<1> QED
  BY <1>2, <1>3

LEMMA RejectStands ==
    ASSUME NEW k \in Gaps, SeenInv(k), Undisturbed(k), NEW w \in Workers, RejectAdjustment(w)
    PROVE  NothingMissed(k)'
<1>1. /\ Become(w, Idle) /\ session[w].pc = "deciding"
      /\ adjustment' = [adjustment EXCEPT ![session[w].adj].status = "rejected"]
      /\ Missed("decide", adjustment[session[w].adj].status # session[w].saw)
      /\ UNCHANGED <<run, items, settlement, config>>
  BY DEF RejectAdjustment
<1>2. Leaves(k)
  BY <1>1 DEF Leaves, ToPay
<1> QED
  BY <1>1, <1>2, DecideStands

LEMMA ApplyStands ==
    ASSUME NEW k \in Gaps, SeenInv(k), Undisturbed(k), NEW w \in Workers, ApplyAdjustment(w)
    PROVE  NothingMissed(k)'
<1> DEFINE s == session[w]
           row == [id |-> serial + 1, kind |-> "adjustment", adj |-> s.adj,
                   emp |-> adjustment[s.adj].emp]
           Run == [status : RunStatus, cleared : BOOLEAN, version : Version, net : SUBSET Row]
<1>1. /\ Become(w, Idle) /\ s.pc = "deciding"
      /\ adjustment' = [adjustment EXCEPT ![s.adj].status = "applied"]
      /\ Missed("decide", adjustment[s.adj].status # s.saw)
      /\ items' = items \cup {row} /\ run' = [run EXCEPT !.net = run.net \cup {row}]
      /\ UNCHANGED <<settlement, config>>
  BY DEF ApplyAdjustment
<1>2. row.kind = "adjustment"
  OBVIOUS
<1> HIDE DEF row
<1>3. run \in Run
  BY <1>1 DEF SeenInv, CloseInv, SessionsSound, SessionSound, TypeOK
<1>4. run'.status = run.status /\ run'.version = run.version
  BY <1>1, <1>3
<1>5. Calculated(items') = Calculated(items)
  BY <1>1, <1>2 DEF Calculated
<1>6. s.pc \notin Spoiling(k) => Leaves(k)
  <2>1. k \in {"recalculate", "release"} => s.pc \in Spoiling(k)
    BY <1>1 DEF Spoiling
  <2>2. k \in {"settle", "confirm", "lock", "decide"} => Leaves(k)
    BY <1>1, <1>4, <1>5 DEF Leaves, ToPay
  <2> QED
    BY <2>1, <2>2 DEF Gaps
<1> QED
  BY <1>1, <1>6, DecideStands

\* The calls of one step.
LEMMA SurroundingsStand ==
    ASSUME NEW k \in Gaps, SeenInv(k), Spared(k), NEW w \in Workers,
           ResolveBlockers(w) \/ Surroundings(w)
    PROVE  NothingMissed(k)'
<1> DEFINE Met == \E v \in Workers : session[v].pc \in Relying(k)
<1>1. CASE ResolveBlockers(w)
  <2>1. UNCHANGED <<items, settlement, session, adjustment, config, raced>>
    BY <1>1 DEF ResolveBlockers
  <2>2. Met => k \in {"recalculate", "settle", "decide"}
    BY <1>1 DEF Spared, Gaps
  <2>3. Met => Leaves(k)
    BY <2>1, <2>2 DEF Leaves, ToPay
  <2> QED
    BY <2>1, <2>3, StepAlone
<1>2. CASE Surroundings(w)
  <2>1. UNCHANGED <<run, items, settlement, session, adjustment, raced>>
    BY <1>2 DEF Surroundings, EditRules, ReviewSources, Publish, WorkChanges
  <2>2. Met /\ k = "lock" => config' = config
    BY DEF Spared
  <2>3. Met => Leaves(k)
    BY <2>1, <2>2 DEF Leaves, ToPay
  <2> QED
    BY <2>1, <2>3, StepAlone
<1> QED
  BY <1>1, <1>2

LEMMA SeenStep ==
    ASSUME NEW k \in Gaps, SeenInv(k), Undisturbed(k), [Next /\ Spared(k)]_vars
    PROVE  SeenInv(k)'
<1>1. CloseInv'
  BY StepInv DEF SeenInv
<1>2. ASSUME UNCHANGED vars
      PROVE  NothingMissed(k)'
  BY <1>2 DEF vars, SeenInv, NothingMissed, SeenStands, ToPay
<1>3. ASSUME NEW w \in Workers, CloseRun(w), Spared(k)
      PROVE  NothingMissed(k)'
  <2>1. CASE ReadBlockers(w) \/ ReadBlockedRun(w)
    BY <2>1, OthersRead
  <2>2. CASE ReadSalaries(w) \/ ReadForConfirm(w) \/ ReadForLock(w) \/ ReadForRelease(w)
    BY <2>2, CallsRead
  <2>3. CASE DeleteItems(w) \/ LockItems(w) \/ ReadSettlements(w)
    BY <2>3, CallsGoOn
  <2>4. CASE CreateRun(w) \/ BlockRun(w) \/ ResolveBlockers(w)
    BY <1>3, <2>4, OpeningStands, SurroundingsStand
  <2>5. CASE Recalculate(w) \/ ConfirmRun(w) \/ LockRun(w) \/ ReleasePayslips(w)
    BY <2>5, RecalculateStands, StatusStands
  <2> QED
    BY <1>3, <2>1, <2>2, <2>3, <2>4, <2>5 DEF CloseRun
<1>4. ASSUME NEW w \in Workers, Settle(w) \/ Adjust(w)
      PROVE  NothingMissed(k)'
  BY <1>4, OthersRead, CallsRead, PrepareStands, RequestStands, RejectStands, ApplyStands
     DEF Settle, Adjust
<1>5. ASSUME NEW w \in Workers, Surroundings(w) \/ Abort(w), Spared(k)
      PROVE  NothingMissed(k)'
  BY <1>5, SurroundingsStand, OthersRead
<1>6. NothingMissed(k)'
  BY <1>2, <1>3, <1>4, <1>5 DEF Next
<1> QED
  BY <1>1, <1>6 DEF SeenInv

(***************************************************************************)
(* No call misses a change for the reason k, in any number of closes, if   *)
(* the calls that could bring it about do not overlap.                     *)
(***************************************************************************)
THEOREM UndisturbedNeverMissed ==
    ASSUME NEW k \in Gaps
    PROVE  Spec /\ []Undisturbed(k) /\ [][Spared(k)]_vars => [](k \notin raced)
<1>1. Init => SeenInv(k)
  BY SeenInit
<1>2. SeenInv(k) /\ Undisturbed(k) /\ [Next /\ Spared(k)]_vars => SeenInv(k)'
  BY SeenStep
<1>3. SeenInv(k) => k \notin raced
  BY DEF SeenInv, NothingMissed
<1> QED
  BY <1>1, <1>2, <1>3, PTL DEF Spec

\* The same for each reason; the first three depend on no call of one step.
LEMMA SeenInduction ==
    ASSUME NEW k \in Gaps
    PROVE  /\ Init => SeenInv(k)
           /\ SeenInv(k) /\ Undisturbed(k) /\ [Next /\ Spared(k)]_vars => SeenInv(k)'
           /\ SeenInv(k) => k \notin raced
           /\ k \in {"recalculate", "settle", "decide"} => Spared(k)
BY SeenInit, SeenStep DEF SeenInv, NothingMissed, Spared

LEMMA CalculationMissesNothing ==
    Spec /\ []Undisturbed("recalculate") => []("recalculate" \notin raced)
<1>1. Init => SeenInv("recalculate")
  BY SeenInduction DEF Gaps
<1>2. SeenInv("recalculate") /\ Undisturbed("recalculate") /\ [Next /\ Spared("recalculate")]_vars => SeenInv("recalculate")'
  BY SeenInduction DEF Gaps
<1>3. SeenInv("recalculate") => "recalculate" \notin raced
  BY SeenInduction DEF Gaps
<1>4. Spared("recalculate")
  BY SeenInduction DEF Gaps
<1> QED
  BY <1>1, <1>2, <1>3, <1>4, PTL DEF Spec

LEMMA PaymentMissesNothing ==
    Spec /\ []Undisturbed("settle") => []("settle" \notin raced)
<1>1. Init => SeenInv("settle")
  BY SeenInduction DEF Gaps
<1>2. SeenInv("settle") /\ Undisturbed("settle") /\ [Next /\ Spared("settle")]_vars => SeenInv("settle")'
  BY SeenInduction DEF Gaps
<1>3. SeenInv("settle") => "settle" \notin raced
  BY SeenInduction DEF Gaps
<1>4. Spared("settle")
  BY SeenInduction DEF Gaps
<1> QED
  BY <1>1, <1>2, <1>3, <1>4, PTL DEF Spec

LEMMA DecisionMissesNothing ==
    Spec /\ []Undisturbed("decide") => []("decide" \notin raced)
<1>1. Init => SeenInv("decide")
  BY SeenInduction DEF Gaps
<1>2. SeenInv("decide") /\ Undisturbed("decide") /\ [Next /\ Spared("decide")]_vars => SeenInv("decide")'
  BY SeenInduction DEF Gaps
<1>3. SeenInv("decide") => "decide" \notin raced
  BY SeenInduction DEF Gaps
<1>4. Spared("decide")
  BY SeenInduction DEF Gaps
<1> QED
  BY <1>1, <1>2, <1>3, <1>4, PTL DEF Spec

LEMMA ConfirmationMissesNothing ==
    Spec /\ []Undisturbed("confirm") /\ [][Spared("confirm")]_vars => []("confirm" \notin raced)
<1>1. Init => SeenInv("confirm")
  BY SeenInduction DEF Gaps
<1>2. SeenInv("confirm") /\ Undisturbed("confirm") /\ [Next /\ Spared("confirm")]_vars => SeenInv("confirm")'
  BY SeenInduction DEF Gaps
<1>3. SeenInv("confirm") => "confirm" \notin raced
  BY SeenInduction DEF Gaps
<1> QED
  BY <1>1, <1>2, <1>3, PTL DEF Spec

LEMMA LockMissesNothing ==
    Spec /\ []Undisturbed("lock") /\ [][Spared("lock")]_vars => []("lock" \notin raced)
<1>1. Init => SeenInv("lock")
  BY SeenInduction DEF Gaps
<1>2. SeenInv("lock") /\ Undisturbed("lock") /\ [Next /\ Spared("lock")]_vars => SeenInv("lock")'
  BY SeenInduction DEF Gaps
<1>3. SeenInv("lock") => "lock" \notin raced
  BY SeenInduction DEF Gaps
<1> QED
  BY <1>1, <1>2, <1>3, PTL DEF Spec

LEMMA ReleaseMissesNothing ==
    Spec /\ []Undisturbed("release") /\ [][Spared("release")]_vars => []("release" \notin raced)
<1>1. Init => SeenInv("release")
  BY SeenInduction DEF Gaps
<1>2. SeenInv("release") /\ Undisturbed("release") /\ [Next /\ Spared("release")]_vars => SeenInv("release")'
  BY SeenInduction DEF Gaps
<1>3. SeenInv("release") => "release" \notin raced
  BY SeenInduction DEF Gaps
<1> QED
  BY <1>1, <1>2, <1>3, PTL DEF Spec

(***************************************************************************)
(* The totals of a run are those of its items, without excuse, if no       *)
(* calculation or decision commits between the deletion and the insertion  *)
(* of another calculation.                                                 *)
(***************************************************************************)
THEOREM UndisturbedTotals ==
    Spec /\ []Undisturbed("recalculate") => [](run # NoRun => run.net = items)
<1>1. TotalsAgree /\ "recalculate" \notin raced => (run # NoRun => run.net = items)
  BY DEF TotalsAgree
<1> QED
  BY <1>1, CalculationMissesNothing, TotalsAlwaysAgree, PTL

\* IncludedIsPaid, without its excuse.
PaidAsIncluded ==
    \A e \in Employees, reason \in Reasons :
        settlement[<<e, reason>>].status = "included" =>
            \A row \in Calculated(items) :
                <<e, reason, settlement[<<e, reason>>].units>> \in row.paid

(***************************************************************************)
(* An included settlement is in the pay with its units, without excuse, if *)
(* moreover no settlements are prepared while a calculation is under way:  *)
(* however often HR prepares drafts and recalculates.                      *)
(***************************************************************************)
THEOREM UndisturbedPaid ==
    Spec /\ []Undisturbed("recalculate") /\ []Undisturbed("settle") => []PaidAsIncluded
<1>1. IncludedIsPaid /\ "recalculate" \notin raced /\ "settle" \notin raced => PaidAsIncluded
  BY DEF IncludedIsPaid, PaidAsIncluded
<1> QED
  BY <1>1, CalculationMissesNothing, PaymentMissesNothing, IncludedAlwaysPaid, PTL

\* AppliedOnce, without its excuse.
OnceInItems ==
    \A a \in Adjustments :
        /\ Cardinality(Applied(items, a)) <= 1
        /\ Applied(items, a) # {} => adjustment[a].status = "applied"

(***************************************************************************)
(* An adjustment is paid at most once, without excuse, if no two decisions *)
(* of the same adjustment overlap.                                         *)
(***************************************************************************)
THEOREM UndisturbedOnce == Spec /\ []Undisturbed("decide") => []OnceInItems
<1>1. AppliedOnce /\ "decide" \notin raced => OnceInItems
  BY DEF AppliedOnce, OnceInItems
<1> QED
  BY <1>1, DecisionMissesNothing, AlwaysAppliedOnce, PTL

\* SlipsAgree, without its excuse.
SlipsAsItems == run.status = "released" => \A e \in Employees : slip[e] = ItemsOf(items, e)

(***************************************************************************)
(* Every payslip of a released run is what its items say, without excuse,  *)
(* if the run is not reopened or adjusted while it is being released.      *)
(***************************************************************************)
THEOREM UndisturbedSlips ==
    Spec /\ []Undisturbed("release") /\ [][Spared("release")]_vars => []SlipsAsItems
<1>1. SlipsAgree /\ "release" \notin raced => SlipsAsItems
  BY DEF SlipsAgree, SlipsAsItems
<1> QED
  BY <1>1, ReleaseMissesNothing, SlipsAlwaysAgree, PTL

(***************************************************************************)
(* What is locked or released is what HR confirmed, without excuse, if no  *)
(* other step of the close falls into a confirmation, lock or release.     *)
(***************************************************************************)
THEOREM UndisturbedLocked ==
    /\ Spec
    /\ []Undisturbed("confirm") /\ []Undisturbed("lock") /\ []Undisturbed("release")
    /\ [][Spared("confirm")]_vars /\ [][Spared("lock")]_vars /\ [][Spared("release")]_vars
    => [](Closed(run.status) => Calculated(items) = Calculated(confirmed))
<1>1. LockedAsConfirmed /\ "confirm" \notin raced /\ "lock" \notin raced /\ "release" \notin raced
        => (Closed(run.status) => Calculated(items) = Calculated(confirmed))
  BY DEF LockedAsConfirmed
<1> QED
  BY <1>1, ConfirmationMissesNothing, LockMissesNothing, ReleaseMissesNothing,
     AlwaysLockedAsConfirmed, PTL

\* A step locks the run only under reviewed rules and with figures made by them.
LocksReviewed ==
    run'.status = "locked" /\ run.status # "locked" =>
        /\ config.approved
        /\ config.recalc => run.version = config.version
        /\ \A row \in Calculated(items) : row.version = run.version

(***************************************************************************)
(* A run is locked only under reviewed rules that ask for no new           *)
(* calculation, and with figures all made by the version it names, without *)
(* excuse, if nothing falls into a lock or into a calculation.             *)
(***************************************************************************)
THEOREM UndisturbedReview ==
    /\ Spec /\ []Undisturbed("recalculate") /\ []Undisturbed("lock") /\ [][Spared("lock")]_vars
    => [][LocksReviewed]_vars
<1> DEFINE Reviewed ==
             run'.status = "locked" /\ run.status # "locked" /\ "lock" \notin raced' =>
                 /\ config.approved
                 /\ config.recalc => run.version = config.version
                 /\ "recalculate" \notin raced =>
                       \A row \in Calculated(items) : row.version = run.version
<1>1. Spec => [][Reviewed]_vars
  BY AlwaysLockedUnderReview DEF LockedUnderReview
<1>2. Reviewed /\ ("lock" \notin raced)' /\ "recalculate" \notin raced => LocksReviewed
  BY DEF LocksReviewed
<1> HIDE DEF Reviewed
<1> QED
  BY <1>1, <1>2, LockMissesNothing, CalculationMissesNothing, PTL

-----------------------------------------------------------------------------
(***************************************************************************)
(* The close as a whole.  The period a reader of the tables sees lives the *)
(* life of PayrollPeriod: a step that missed nothing, after no other did,  *)
(* is one of its actions or leaves it as it is.                            *)
(***************************************************************************)
period == <<RunState, Calculated(items), Adjusted(items), slip, Calculated(confirmed), adjustment>>

LEMMA PeriodStutters ==
    ASSUME UNCHANGED <<items, slip, confirmed, adjustment>>, run' = run
    PROVE  UNCHANGED period
BY DEF period, RunState, Calculated, Adjusted

\* A run that is there is a record, and its state is its status.
LEMMA RunIsThere ==
    ASSUME TypeOK, run # NoRun, NEW run2, run2 # run,
           \/ \E status \in RunStatus : run2 = [run EXCEPT !.status = status]
           \/ \E status \in RunStatus, cleared \in BOOLEAN :
                 run2 = [run EXCEPT !.status = status, !.cleared = cleared]
    PROVE  run2 # NoRun
<1>1. run \in [status : RunStatus, cleared : BOOLEAN, version : Version, net : SUBSET Row]
  BY DEF TypeOK
<1> QED
  BY <1>1 DEF NoRun

LEMMA OpensPeriod ==
    ASSUME CloseInv, NEW w \in Workers, CreateRun(w) \/ BlockRun(w) \/ ResolveBlockers(w)
    PROVE  Period!Open
<1> DEFINE Run == [status : RunStatus, cleared : BOOLEAN, version : Version, net : SUBSET Row]
<1>1. UNCHANGED <<items, slip, confirmed, adjustment>>
  BY DEF CreateRun, BlockRun, ResolveBlockers
<1>2. CASE CreateRun(w) /\ run = NoRun
  <2>1. run'.status \in {"draft", "blocked"} /\ run' # NoRun
    BY <1>2 DEF CreateRun, OpenStatus, NoRun
  <2> QED
    BY <1>1, <2>1 DEF Period!Open, RunState, Calculated, Adjusted
<1>3. CASE ~CreateRun(w) \/ run # NoRun
  <2>1. run \in Run
    BY <1>3 DEF CloseInv, TypeOK, SessionsSound, SessionSound, BlockRun, ResolveBlockers
  <2>2. run'.status \in {"draft", "blocked"} /\ run' # NoRun
    <3>1. CASE CreateRun(w)
      BY <1>3, <2>1, <3>1 DEF CreateRun, OpenStatus, NoRun
    <3>2. CASE BlockRun(w)
      BY <2>1, <3>2 DEF BlockRun, NoRun
    <3>3. CASE ResolveBlockers(w)
      BY <2>1, <3>3 DEF ResolveBlockers, NoRun
    <3> QED
      BY <3>1, <3>2, <3>3
  <2> QED
    BY <1>1, <2>2 DEF Period!Open, RunState, Calculated, Adjusted
<1> QED
  BY <1>2, <1>3

LEMMA CalculatesPeriod ==
    ASSUME CloseInv, NEW w \in Workers, Recalculate(w), raced' = {}
    PROVE  \E row \in Calculated(items)' : Period!Calculate(row)
<1> DEFINE s == session[w]
           row == [id |-> serial + 1, kind |-> "calculated",
                   version |-> s.version, paid |-> s.paid]
           Run == [status : RunStatus, cleared : BOOLEAN, version : Version, net : SUBSET Row]
<1>1. /\ items' = (items \ s.doomed) \cup {row} /\ items = s.doomed
      /\ run' = [run EXCEPT !.status = "calculated", !.version = s.version, !.net = {row}]
      /\ UNCHANGED <<slip, adjustment, confirmed>>
  BY DEF Recalculate
<1>2. row.kind = "calculated"
  OBVIOUS
<1> HIDE DEF row
<1>3. run \in Run /\ run # NoRun
  BY DEF Recalculate, CloseInv, SessionsSound, SessionSound, TypeOK
<1>4. run'.status = "calculated" /\ run' # NoRun
  BY <1>1, <1>3 DEF NoRun
<1>5. Calculated(items)' = {row} /\ Adjusted(items)' = {}
  BY <1>1, <1>2 DEF Calculated, Adjusted
<1>6. RunState # "none"
  BY <1>3 DEF RunState, RunStatus
<1> QED
  BY <1>1, <1>4, <1>5, <1>6 DEF Period!Calculate, RunState

\* The three steps that only set the status, of a run nobody has changed.
LEMMA StatusOfPeriod ==
    ASSUME CloseInv, NEW w \in Workers, raced' = {},
           ConfirmRun(w) \/ LockRun(w) \/ ReleasePayslips(w)
    PROVE  Period!Confirm \/ Period!Lock \/ Period!Release
<1> DEFINE s == session[w]
           Run == [status : RunStatus, cleared : BOOLEAN, version : Version, net : SUBSET Row]
<1>1. run \in Run /\ run # NoRun /\ HasFigures /\ SessionSound(s) /\ FiguresConfirmed
  BY DEF ConfirmRun, LockRun, ReleasePayslips, CloseInv, SessionsSound, SessionSound, TypeOK,
         FiguresInv
<1>2. CASE ConfirmRun(w)
  <2>1. /\ run' = [run EXCEPT !.status = "confirmed"] /\ confirmed' = s.seen
        /\ run.status \in {"calculated", "confirmed"}
        /\ Calculated(items) = Calculated(s.seen)
        /\ UNCHANGED <<items, slip, adjustment>>
    BY <1>2 DEF ConfirmRun, Missed
  <2>2. run'.status = "confirmed" /\ run' # NoRun
    BY <1>1, <2>1 DEF NoRun
  <2>3. Calculated(confirmed)' = Calculated(items)
    BY <2>1 DEF Calculated
  <2> QED
    BY <1>1, <2>1, <2>2, <2>3 DEF Period!Confirm, RunState, Calculated, Adjusted
<1>3. CASE LockRun(w)
  <2>1. /\ s.pc = "closing" /\ run' = [run EXCEPT !.status = "locked"]
        /\ UNCHANGED <<items, slip, adjustment, confirmed>>
    BY <1>3 DEF LockRun
  <2>2. raced' = IF \/ run.status # s.from
                    \/ run.version # s.version \/ config # s.rules
                 THEN raced \cup {"lock"} ELSE raced
    BY <1>3 DEF LockRun, Missed
  <2>3. run.status = s.from /\ raced = {}
    BY <2>2
  <2>4. run.status = "confirmed" /\ Calculated(items) = Calculated(confirmed)
    BY <1>1, <2>1, <2>3 DEF SessionSound, FiguresConfirmed
  <2>5. run'.status = "locked" /\ run' # NoRun
    BY <1>1, <2>1 DEF NoRun
  <2> QED
    BY <1>1, <2>1, <2>4, <2>5 DEF Period!Lock, RunState, Calculated, Adjusted
<1>4. CASE ReleasePayslips(w)
  <2>1. /\ run' = [run EXCEPT !.status = "released"]
        /\ slip' = [e \in Employees |->
                      IF ItemsOf(s.seen, e) # {} THEN ItemsOf(s.seen, e) ELSE slip[e]]
        /\ Closed(run.status) /\ items = s.seen /\ raced = {}
        /\ UNCHANGED <<items, adjustment, confirmed>>
    BY <1>4 DEF ReleasePayslips, Missed
  <2>2. run.status \in {"locked", "released"} /\ Calculated(items) = Calculated(confirmed)
    BY <1>1, <2>1 DEF Closed, FiguresConfirmed
  <2>3. run'.status = "released" /\ run' # NoRun
    BY <1>1, <2>1 DEF NoRun
  <2>4. ASSUME NEW e \in Employees
        PROVE  /\ ItemsOf(items, e) = Calculated(items) \cup {row \in Adjusted(items) : row.emp = e}
               /\ ItemsOf(items, e) # {}
    <3>1. \A row \in items : row.kind \in {"calculated", "adjustment"}
      BY DEF CloseInv, TypeOK, Row
    <3> QED
      BY <1>1, <3>1 DEF ItemsOf, Calculated, Adjusted, HasFigures
  <2>5. slip' = [e \in Employees |->
                   Calculated(items) \cup {row \in Adjusted(items) : row.emp = e}]
    BY <2>1, <2>4
  <2> QED
    BY <1>1, <2>1, <2>2, <2>3, <2>5 DEF Period!Release, RunState, Calculated, Adjusted
<1> QED
  BY <1>2, <1>3, <1>4

LEMMA DecidesInPeriod ==
    ASSUME CloseInv, NEW w \in Workers, raced' = {},
           RequestAdjustment(w) \/ RejectAdjustment(w) \/ ApplyAdjustment(w)
    PROVE  \E a \in Adjustments :
              \/ \E e \in Employees : Period!Request(a, e)
              \/ Period!Reject(a)
              \/ \E row \in Adjusted(items)' : Period!Apply(a, row)
<1> DEFINE s == session[w]
           a == s.adj
           Run == [status : RunStatus, cleared : BOOLEAN, version : Version, net : SUBSET Row]
<1>1. CASE RequestAdjustment(w)
  <2>1. /\ s.pc = "requesting"
        /\ adjustment' = [adjustment EXCEPT ![a] = [status |-> "pending", emp |-> s.emp]]
        /\ UNCHANGED <<run, items, slip, confirmed>>
    BY <1>1 DEF RequestAdjustment
  <2>2. a \in Adjustments /\ s.emp \in Employees /\ adjustment[a] = NoAdjustment
    BY <2>1, AdjustmentFacts
  <2>3. Period!Request(a, s.emp)
    BY <2>1, <2>2 DEF Period!Request, RunState, Calculated, Adjusted, NoAdjustment
  <2> QED
    BY <2>2, <2>3
<1>2. CASE RejectAdjustment(w)
  <2>1. /\ s.pc = "deciding"
        /\ adjustment' = [adjustment EXCEPT ![a].status = "rejected"]
        /\ adjustment[a].status = s.saw
        /\ UNCHANGED <<run, items, slip, confirmed>>
    BY <1>2 DEF RejectAdjustment, Missed
  <2>2. a \in Adjustments /\ s.saw = "pending"
    BY <2>1, AdjustmentFacts
  <2>3. Period!Reject(a)
    BY <2>1, <2>2 DEF Period!Reject, RunState, Calculated, Adjusted
  <2> QED
    BY <2>2, <2>3
<1>3. CASE ApplyAdjustment(w)
  <2> DEFINE e == adjustment[a].emp
             row == [id |-> serial + 1, kind |-> "adjustment", adj |-> a, emp |-> e]
  <2>1. /\ s.pc = "deciding"
        /\ adjustment' = [adjustment EXCEPT ![a].status = "applied"]
        /\ adjustment[a].status = s.saw
        /\ items' = items \cup {row} /\ run' = [run EXCEPT !.net = run.net \cup {row}]
        /\ slip' = [slip EXCEPT ![e] = IF slip[e] # {} THEN slip[e] \cup {row} ELSE slip[e]]
        /\ confirmed' = confirmed
    BY <1>3 DEF ApplyAdjustment, Missed
  <2>2. a \in Adjustments /\ s.saw = "pending"
    BY <2>1, AdjustmentFacts
  <2>3. row.kind = "adjustment" /\ row.adj = a /\ row.emp = e
    OBVIOUS
  <2> HIDE DEF row
  <2>4. run \in Run /\ run # NoRun
    BY <2>1 DEF CloseInv, SessionsSound, SessionSound, TypeOK
  <2>5. run'.status = run.status /\ run' # NoRun
    BY <2>1, <2>4 DEF NoRun
  <2>6. Calculated(items)' = Calculated(items) /\ Adjusted(items)' = Adjusted(items) \cup {row}
    BY <2>1, <2>3 DEF Calculated, Adjusted
  <2>7. slip' = [slip EXCEPT ![row.emp] = IF @ # {} THEN @ \cup {row} ELSE @]
    BY <2>1, <2>3
  <2>8. Period!Apply(a, row)
    BY <2>1, <2>2, <2>3, <2>4, <2>5, <2>6, <2>7 DEF Period!Apply, RunState, Calculated
  <2> QED
    BY <2>2, <2>6, <2>8
<1> QED
  BY <1>1, <1>2, <1>3

LEMMA PeriodStep ==
    ASSUME CloseInv, [Next]_vars, raced' = {}
    PROVE  [Period!Next]_period
<1>1. ASSUME UNCHANGED <<run, items, slip, confirmed, adjustment>>
      PROVE  UNCHANGED period
  BY <1>1, PeriodStutters
<1>2. CASE UNCHANGED vars
  BY <1>1, <1>2 DEF vars
<1>3. ASSUME NEW w \in Workers, CloseRun(w)
      PROVE  [Period!Next]_period
  <2>1. CASE CreateRun(w) \/ BlockRun(w) \/ ResolveBlockers(w)
    BY <2>1, OpensPeriod DEF Period!Next
  <2>2. CASE Recalculate(w)
    BY <2>2, CalculatesPeriod DEF Period!Next
  <2>3. CASE ConfirmRun(w) \/ LockRun(w) \/ ReleasePayslips(w)
    BY <2>3, StatusOfPeriod DEF Period!Next
  <2>4. CASE UNCHANGED <<run, items, slip, confirmed, adjustment>>
    BY <1>1, <2>4
  <2> QED
    BY <1>3, <2>1, <2>2, <2>3, <2>4
       DEF CloseRun, ReadBlockers, ReadBlockedRun, ReadSalaries, DeleteItems, LockItems,
           ReadForConfirm, ReadForLock, ReadSettlements, ReadForRelease
<1>4. ASSUME NEW w \in Workers, Adjust(w)
      PROVE  [Period!Next]_period
  <2>1. CASE RequestAdjustment(w) \/ RejectAdjustment(w) \/ ApplyAdjustment(w)
    BY <2>1, DecidesInPeriod DEF Period!Next
  <2>2. CASE UNCHANGED <<run, items, slip, confirmed, adjustment>>
    BY <1>1, <2>2
  <2> QED
    BY <1>4, <2>1, <2>2 DEF Adjust, ReadForAdjustment, ReadAdjustment
<1>5. ASSUME NEW w \in Workers, Settle(w) \/ Surroundings(w) \/ Abort(w)
      PROVE  UNCHANGED <<run, items, slip, confirmed, adjustment>>
  BY <1>5 DEF Settle, ReadBalances, PrepareSettlements, Surroundings, EditRules,
              ReviewSources, Publish, WorkChanges, Abort
<1> QED
  BY <1>1, <1>2, <1>3, <1>4, <1>5 DEF Next

LEMMA PeriodStarts == Init => Period!Init
BY DEF Init, Period!Init, RunState, Calculated, Adjusted, NoAdjustment

(***************************************************************************)
(* Until a call misses a change, every step of the close is a step of      *)
(* PayrollPeriod: only confirmed figures are locked, locked ones released, *)
(* and an adjustment is decided once, whatever overlaps.                   *)
(***************************************************************************)
THEOREM CloseStepsUntilMissed == Spec => PeriodUntilMissed
<1>1. CloseInv /\ [Next]_vars => [raced' = {} => [Period!Next]_(Period!period)]_vars
  BY PeriodStep DEF period, Period!period
<1> QED
  BY <1>1, PeriodStarts, AlwaysCloseInv, PTL DEF Spec, PeriodUntilMissed

\* No two calls of the close disturb each other, for any reason.
NoneDisturbed ==
    /\ Undisturbed("recalculate") /\ Undisturbed("settle") /\ Undisturbed("decide")
    /\ Undisturbed("confirm") /\ Undisturbed("lock") /\ Undisturbed("release")

AllSpared == Spared("confirm") /\ Spared("lock") /\ Spared("release")

(***************************************************************************)
(* The close implements PayrollPeriod if its calls overlap only where they *)
(* do not disturb each other, for any number of workers and closes.        *)
(***************************************************************************)
THEOREM UndisturbedImplementsPeriod ==
    Spec /\ []NoneDisturbed /\ [][AllSpared]_vars => Period!Spec
<1>2. [raced' = {} => [Period!Next]_(Period!period)]_vars /\ (raced = {})'
        => [Period!Next]_(Period!period)
  BY DEF Period!period, vars, RunState, Calculated, Adjusted
<1>3. CloseInv /\ "recalculate" \notin raced /\ "settle" \notin raced /\ "decide" \notin raced
        /\ "confirm" \notin raced /\ "lock" \notin raced /\ "release" \notin raced
      => raced = {}
  BY DEF CloseInv, TypeOK
<1>4. NoneDisturbed =>
        /\ Undisturbed("recalculate") /\ Undisturbed("settle") /\ Undisturbed("decide")
        /\ Undisturbed("confirm") /\ Undisturbed("lock") /\ Undisturbed("release")
  BY DEF NoneDisturbed
<1>5. AllSpared => Spared("confirm") /\ Spared("lock") /\ Spared("release")
  BY DEF AllSpared
<1> QED
  BY <1>2, <1>3, <1>4, <1>5, CloseStepsUntilMissed, AlwaysCloseInv,
     CalculationMissesNothing, PaymentMissesNothing, DecisionMissesNothing,
     ConfirmationMissesNothing, LockMissesNothing, ReleaseMissesNothing, PTL
     DEF Period!Spec, Spec, PeriodUntilMissed
=============================================================================
