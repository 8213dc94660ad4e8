------------------------- MODULE Attendance_proofs --------------------------
(***************************************************************************)
(* Proofs about Attendance, for any employees, days, requests, exceptions  *)
(* and workers.  The inductive invariant AttendanceInv says what a call in *)
(* progress may still rely on: the time it took is its own, the request it *)
(* decides exists, and what it has counted is right unless it is stale.    *)
(***************************************************************************)
EXTENDS Attendance, FiniteSetTheorems, TLAPS

Keys == Employees \X Days

ClockSound(s) ==
    s.pc = "clocking" =>
        /\ s.at <= time
        /\ \A k \in Keys : record[k] # NoRecord => s.at \notin {record[k].in, record[k].out}
\* The rows a call is about to write exist.
RowsSound(s) ==
    /\ s.pc = "deciding" => request[s.req] # NoRequest
    /\ s.pc = "resolving" => \A x \in s.todo : exception[x] # NoException
CountSound(s) ==
    s.pc = "counting" /\ ~s.stale /\ ~s.demo =>
        \A c \in Columns : s.seen[c] # Unread => s.seen[c] = CountsOf(s.emp)[c]

SessionsSound ==
    \A w \in Workers :
        ClockSound(session[w]) /\ RowsSound(session[w]) /\ CountSound(session[w])

\* No two clock calls have the same time.
TimesDiffer ==
    \A v, w \in Workers :
        v # w /\ session[v].pc = "clocking" /\ session[w].pc = "clocking" =>
            session[v].at # session[w].at

PunchesPast ==
    \A k \in Keys : record[k] # NoRecord =>
        \A p \in {record[k].in, record[k].out} \cap Time : p <= time

AttendanceInv ==
    /\ TypeOK /\ SessionsSound /\ TimesDiffer /\ PunchesPast
    /\ PunchesInOrder /\ CorrectionsApproved /\ SignoffDescribes

-----------------------------------------------------------------------------
(* Sessions and counts *)

(***************************************************************************)
(* The kinds of session are told apart by pc.                              *)
(***************************************************************************)
LEMMA SessionKinds ==
    ASSUME NEW s \in Session
    PROVE  /\ s.pc = "clocking" => s \in Clocking
           /\ s.pc = "deciding" => s \in Deciding
           /\ s.pc = "resolving" => s \in Resolving
           /\ s.pc = "counting" => s \in Counting
           /\ s.pc \in {"idle", "clocking", "deciding", "resolving", "counting"}
<1>1. CASE s = Idle
  BY <1>1 DEF Idle
<1>2. CASE s \in Clocking
  BY <1>2 DEF Clocking
<1>3. CASE s \in Deciding
  BY <1>3 DEF Deciding
<1>4. CASE s \in Resolving
  BY <1>4 DEF Resolving
<1>5. CASE s \in Counting
  BY <1>5 DEF Counting
<1> QED
  BY <1>1, <1>2, <1>3, <1>4, <1>5 DEF Session

(***************************************************************************)
(* Counts are natural numbers.                                             *)
(***************************************************************************)
LEMMA CountsType ==
    ASSUME NEW e \in Employees
    PROVE  CountsOf(e) \in Counts /\ \A c \in Columns : CountsOf(e)[c] \in Nat
<1> DEFINE filed == {x \in Exceptions : /\ exception[x] # NoException
                                        /\ exception[x].emp = e /\ exception[x].inPeriod}
           days == {d \in Days : record[<<e, d>>] # NoRecord}
           open == {x \in filed : exception[x].status = "pending"}
<1>1. IsFiniteSet(days)
  BY PeriodAssumption, FS_Subset, days \subseteq Days
<1>2. IsFiniteSet(filed)
  BY PeriodAssumption, FS_Subset, filed \subseteq Exceptions
<1>3. IsFiniteSet(open)
  BY <1>2, FS_Subset, open \subseteq filed
<1>4. Cardinality(days) \in Nat /\ Cardinality(filed) \in Nat /\ Cardinality(open) \in Nat
  BY <1>1, <1>2, <1>3, FS_CardinalityType
<1>5. CountsOf(e) = [records |-> Cardinality(days), exceptions |-> Cardinality(filed),
                     open |-> Cardinality(open)]
  BY DEF CountsOf
<1> HIDE DEF filed, days, open
<1> QED
  BY <1>4, <1>5 DEF Counts, Columns

LEMMA CountsKept ==
    ASSUME UNCHANGED <<record, exception>>, NEW e
    PROVE  CountsOf(e)' = CountsOf(e)
BY DEF CountsOf

(***************************************************************************)
(* An update leaves the other sessions as they were.                       *)
(***************************************************************************)
LEMMA BecomeFacts ==
    ASSUME TypeOK, NEW w \in Workers, NEW s \in Session, Become(w, s)
    PROVE  /\ session' \in [Workers -> Session]
           /\ session'[w] = s
           /\ \A v \in Workers \ {w} : session'[v] = session[v]
BY DEF TypeOK, Become

(***************************************************************************)
(* A call that reads, or stops, changes only its own session.              *)
(***************************************************************************)
LEMMA ReadKeepsInv ==
    ASSUME AttendanceInv, NEW w \in Workers, NEW s \in Session, Become(w, s),
           s.pc # "clocking", RowsSound(s), CountSound(s),
           UNCHANGED <<record, request, exception, signoff, over, time,
                       late, crossed, moved, fabricated>>
    PROVE  AttendanceInv'
<1>0. TypeOK /\ SessionsSound /\ TimesDiffer /\ PunchesPast
  BY DEF AttendanceInv
<1>1. /\ session' \in [Workers -> Session]
      /\ session'[w] = s
      /\ \A v \in Workers \ {w} : session'[v] = session[v]
  BY <1>0, BecomeFacts
<1>2. TypeOK'
  BY <1>0, <1>1 DEF TypeOK
<1>3. \A e : CountsOf(e)' = CountsOf(e)
  BY CountsKept
<1>4. SessionsSound'
  <2> SUFFICES ASSUME NEW v \in Workers
               PROVE  /\ ClockSound(session[v])' /\ RowsSound(session[v])'
                      /\ CountSound(session[v])'
    BY DEF SessionsSound
  <2>1. ClockSound(session'[v]) /\ RowsSound(session'[v]) /\ CountSound(session'[v])
    BY <1>0, <1>1 DEF SessionsSound, ClockSound
  <2>2. ClockSound(session[v])'
    BY <2>1 DEF ClockSound
  <2>3. RowsSound(session[v])'
    BY <2>1 DEF RowsSound
  <2>4. CountSound(session[v])'
    BY <2>1, <1>3 DEF CountSound
  <2> QED
    BY <2>2, <2>3, <2>4
<1>5. TimesDiffer' /\ PunchesPast'
  BY <1>0, <1>1 DEF TimesDiffer, PunchesPast
<1>6. PunchesInOrder' /\ CorrectionsApproved'
  BY DEF AttendanceInv, PunchesInOrder, CorrectionsApproved
<1>7. SignoffDescribes'
  BY <1>3 DEF AttendanceInv, SignoffDescribes
<1> QED
  BY <1>2, <1>4, <1>5, <1>6, <1>7 DEF AttendanceInv

(***************************************************************************)
(* A commit makes stale every call that has counted something else: what   *)
(* the others have counted is right, and so are the sign-offs not moved.   *)
(***************************************************************************)
LEMMA CommitFacts ==
    ASSUME AttendanceInv, NEW w \in Workers, NEW s \in Session, s.pc # "counting",
           Commit(w, s), UNCHANGED <<signoff, fabricated>>
    PROVE  /\ session' \in [Workers -> Session]
           /\ session'[w] = s
           /\ \A v \in Workers \ {w} :
                /\ session'[v].pc = session[v].pc
                /\ session[v].pc # "counting" => session'[v] = session[v]
           /\ \A v \in Workers : CountSound(session[v])'
           /\ moved' \subseteq Employees
           /\ SignoffDescribes'
<1> DEFINE changed == {e \in Employees : CountsOf(e)' # CountsOf(e)}
<1>0. TypeOK /\ SessionsSound /\ SignoffDescribes
  BY DEF AttendanceInv
<1>1. /\ moved' = moved \cup {e \in changed : signoff[e] # NoSignoff}
      /\ session' = [v \in Workers |->
              IF v = w THEN s
              ELSE IF session[v].pc = "counting" /\ session[v].emp \in changed
              THEN [session[v] EXCEPT !.stale = TRUE] ELSE session[v]]
  BY DEF Commit
<1>2. \A v \in Workers : session[v] \in Session
  BY <1>0 DEF TypeOK
<1>3. \A e \in Employees : e \notin changed => CountsOf(e)' = CountsOf(e)
  OBVIOUS
<1>4. changed \subseteq Employees
  OBVIOUS
<1> HIDE DEF changed
<1>5. ASSUME NEW v \in Workers \ {w}, session[v].pc = "counting", session[v].emp \in changed
      PROVE  /\ session'[v] \in Counting /\ session'[v].stale
  <2>1. session[v] \in Counting
    BY <1>2, <1>5, SessionKinds
  <2>2. session'[v] = [session[v] EXCEPT !.stale = TRUE]
    BY <1>1, <1>5
  <2> QED
    BY <2>1, <2>2 DEF Counting
<1>6. \A v \in Workers \ {w} :
          ~(session[v].pc = "counting" /\ session[v].emp \in changed) => session'[v] = session[v]
  BY <1>1
<1>7. session'[w] = s
  BY <1>1
<1>8. \A v \in Workers \ {w} :
          /\ session'[v] \in Session
          /\ session'[v].pc = session[v].pc
          /\ session[v].pc # "counting" => session'[v] = session[v]
  BY <1>2, <1>5, <1>6 DEF Session, Counting
<1>9. session' \in [Workers -> Session]
  BY <1>1, <1>7, <1>8
<1>10. ASSUME NEW v \in Workers
       PROVE  CountSound(session[v])'
  <2>1. CASE v = w
    BY <1>7, <2>1 DEF CountSound
  <2>2. CASE v # w /\ session[v].pc = "counting" /\ session[v].emp \notin changed
    <3>1. session'[v] = session[v] /\ CountSound(session[v])
      BY <1>0, <1>6, <2>2 DEF SessionsSound
    <3>2. session[v].emp \in Employees
      BY <1>2, <2>2, SessionKinds DEF Counting
    <3>3. \A e \in Employees : e = session[v].emp => CountsOf(e)' = CountsOf(e)
      BY <1>3, <2>2
    <3> QED
      BY <3>1, <3>2, <3>3 DEF CountSound
  <2>3. CASE v # w /\ session[v].pc = "counting" /\ session[v].emp \in changed
    BY <1>5, <2>3 DEF CountSound
  <2>4. CASE v # w /\ session[v].pc # "counting"
    BY <1>8, <2>4 DEF CountSound
  <2> QED
    BY <2>1, <2>2, <2>3, <2>4
<1>11. moved' \subseteq Employees
  BY <1>0, <1>1, <1>4 DEF TypeOK
<1>12. SignoffDescribes'
  <2> SUFFICES ASSUME NEW e \in Employees, signoff'[e] # NoSignoff,
                      e \notin moved' \cup fabricated'
               PROVE  CountsOf(e)' = [records |-> signoff'[e].records,
                                      exceptions |-> signoff'[e].exceptions, open |-> 0]
    BY DEF SignoffDescribes
  <2>1. e \notin changed /\ e \notin moved \cup fabricated /\ signoff[e] # NoSignoff
    BY <1>1
  <2> QED
    BY <1>0, <1>3, <2>1 DEF SignoffDescribes
<1> QED
  BY <1>7, <1>8, <1>9, <1>10, <1>11, <1>12

-----------------------------------------------------------------------------
(* The steps *)

LEMMA InitInv == Init => AttendanceInv
<1> SUFFICES ASSUME Init PROVE AttendanceInv
  OBVIOUS
<1>1. TypeOK
  <2>1. exception \in [Exceptions -> {NoException} \cup Exception]
    BY DEF Init, Exception
  <2>2. NoSignoff \in [records : Int, exceptions : Int] /\ 0 \in 0 .. MaxTime
    BY PeriodAssumption DEF NoSignoff
  <2> QED
    BY <2>1, <2>2 DEF Init, TypeOK, Session
<1>2. SessionsSound /\ TimesDiffer
  BY DEF Init, SessionsSound, TimesDiffer, ClockSound, RowsSound, CountSound, Idle
<1>3. PunchesPast /\ PunchesInOrder /\ CorrectionsApproved
  BY DEF Init, PunchesPast, PunchesInOrder, CorrectionsApproved, Keys
<1>4. SignoffDescribes
  BY DEF Init, SignoffDescribes
<1> QED
  BY <1>1, <1>2, <1>3, <1>4 DEF AttendanceInv

LEMMA IdleSound ==
    /\ Idle \in Session /\ Idle.pc \notin {"clocking", "counting"}
    /\ ClockSound(Idle) /\ RowsSound(Idle) /\ CountSound(Idle)
BY DEF Idle, Session, ClockSound, RowsSound, CountSound

LEMMA TakeTimeStep ==
    ASSUME AttendanceInv, NEW w \in Workers, NEW e \in Employees, NEW d \in Days,
           NEW direction \in {"in", "out"}, TakeTime(w, e, d, direction)
    PROVE  AttendanceInv'
<1> DEFINE s == [pc |-> "clocking", emp |-> e, day |-> d, direction |-> direction,
                 at |-> time + 1]
<1>0. TypeOK /\ SessionsSound /\ TimesDiffer /\ PunchesPast
  BY DEF AttendanceInv
<1>1. time \in Nat /\ time < MaxTime /\ time' = time + 1 /\ MaxTime \in Nat /\ time + 1 \in Time
  BY <1>0, PeriodAssumption DEF TakeTime, TypeOK, Time
<1>2. s \in Session
  BY <1>1 DEF Session, Clocking
<1>3. /\ session' \in [Workers -> Session]
      /\ session'[w] = s
      /\ \A v \in Workers \ {w} : session'[v] = session[v]
  BY <1>0, <1>2, BecomeFacts DEF TakeTime
<1>4. UNCHANGED <<record, request, exception, signoff, over, late, crossed, moved, fabricated>>
  BY DEF TakeTime
<1>5. TypeOK'
  BY <1>0, <1>1, <1>3, <1>4 DEF TypeOK
<1>6. \A x : CountsOf(x)' = CountsOf(x)
  BY <1>4, CountsKept
<1>7. \A v \in Workers \ {w} : session[v].pc = "clocking" =>
          session[v].at \in Time /\ session[v].at <= time
  <2> SUFFICES ASSUME NEW v \in Workers \ {w}, session[v].pc = "clocking"
               PROVE  session[v].at \in Time /\ session[v].at <= time
    OBVIOUS
  <2>1. session[v] \in Clocking
    BY <1>0, SessionKinds DEF TypeOK
  <2>2. session[v].at <= time
    BY <1>0 DEF SessionsSound, ClockSound
  <2> QED
    BY <2>1, <2>2 DEF Clocking
<1>8. \A k \in Keys : record[k] # NoRecord => time + 1 \notin {record[k].in, record[k].out}
  <2> SUFFICES ASSUME NEW k \in Keys, record[k] # NoRecord,
                      time + 1 \in {record[k].in, record[k].out}
               PROVE  FALSE
    OBVIOUS
  <2>1. time + 1 <= time
    BY <1>0, <1>1 DEF PunchesPast
  <2> QED
    BY <1>1, <2>1
<1>9. SessionsSound'
  <2> SUFFICES ASSUME NEW v \in Workers
               PROVE  /\ ClockSound(session[v])' /\ RowsSound(session[v])'
                      /\ CountSound(session[v])'
    BY DEF SessionsSound
  <2>1. ClockSound(session[v])'
    <3>1. CASE v = w
      BY <1>1, <1>3, <1>4, <1>8, <3>1 DEF ClockSound
    <3>2. CASE v # w
      <4>1. ClockSound(session[v])
        BY <1>0 DEF SessionsSound
      <4> QED
        BY <1>1, <1>3, <1>4, <1>7, <3>2, <4>1 DEF ClockSound, Time
    <3> QED
      BY <3>1, <3>2
  <2>2. RowsSound(session[v])'
    BY <1>0, <1>3, <1>4 DEF SessionsSound, RowsSound
  <2>3. CountSound(session[v])'
    BY <1>0, <1>3, <1>6 DEF SessionsSound, CountSound
  <2> QED
    BY <2>1, <2>2, <2>3
<1>10. TimesDiffer'
  <2> SUFFICES ASSUME NEW u \in Workers, NEW v \in Workers, u # v,
                      session'[u].pc = "clocking", session'[v].pc = "clocking"
               PROVE  session'[u].at # session'[v].at
    BY DEF TimesDiffer
  <2>1. CASE u # w /\ v # w
    BY <1>0, <1>3, <2>1 DEF TimesDiffer
  <2>2. CASE u = w
    BY <1>1, <1>3, <1>7, <2>2 DEF Time
  <2>3. CASE v = w
    BY <1>1, <1>3, <1>7, <2>3 DEF Time
  <2> QED
    BY <2>1, <2>2, <2>3
<1>11. PunchesPast'
  <2> SUFFICES ASSUME NEW k \in Keys, record[k] # NoRecord,
                      NEW p \in {record[k].in, record[k].out} \cap Time
               PROVE  p <= time + 1
    BY <1>1, <1>4 DEF PunchesPast
  <2>1. p <= time /\ p \in Nat
    BY <1>0 DEF PunchesPast, Time
  <2> QED
    BY <1>1, <2>1
<1>12. PunchesInOrder' /\ CorrectionsApproved'
  BY <1>4 DEF AttendanceInv, PunchesInOrder, CorrectionsApproved
<1>13. SignoffDescribes'
  BY <1>4, <1>6 DEF AttendanceInv, SignoffDescribes
<1> QED
  BY <1>5, <1>9, <1>10, <1>11, <1>12, <1>13 DEF AttendanceInv

(***************************************************************************)
(* Frames of a commit that ends its call: what is left to show is typing   *)
(* of the rows, and what clock calls and decisions in progress rely on.    *)
(***************************************************************************)
LEMMA CommitKeepsInv ==
    ASSUME AttendanceInv, NEW w \in Workers, NEW s \in Session,
           s.pc \notin {"counting", "clocking"},
           Commit(w, s), UNCHANGED <<signoff, fabricated, over, time>>,
           record' \in [Keys -> {NoRecord} \cup Record],
           request' \in [Requests -> {NoRequest} \cup Request],
           exception' \in [Exceptions -> {NoException} \cup Exception],
           late' \subseteq Keys, crossed' \subseteq Requests,
           \A r \in Requests : request[r] # NoRequest => request'[r] # NoRequest,
           \A x \in Exceptions : exception[x] # NoException => exception'[x] # NoException,
           RowsSound(s)',
           \A k \in Keys : record'[k] # NoRecord =>
               \A p \in {record'[k].in, record'[k].out} \cap Time :
                   \/ record[k] # NoRecord /\ p \in {record[k].in, record[k].out}
                   \/ session[w].pc = "clocking" /\ p = session[w].at,
           PunchesInOrder', CorrectionsApproved'
    PROVE  AttendanceInv'
<1>0. TypeOK /\ SessionsSound /\ TimesDiffer /\ PunchesPast
  BY DEF AttendanceInv
<1>1. /\ session' \in [Workers -> Session]
      /\ session'[w] = s
      /\ \A v \in Workers \ {w} :
           /\ session'[v].pc = session[v].pc
           /\ session[v].pc # "counting" => session'[v] = session[v]
      /\ \A v \in Workers : CountSound(session[v])'
      /\ moved' \subseteq Employees
      /\ SignoffDescribes'
  BY CommitFacts
<1>2. TypeOK'
  BY <1>0, <1>1 DEF TypeOK, Keys
<1>3. \A v \in Workers : session'[v].pc = "clocking" =>
          /\ v # w /\ session'[v] = session[v] /\ session[v].at \in Time
          /\ session[v].at <= time
          /\ \A k \in Keys : record[k] # NoRecord =>
                 session[v].at \notin {record[k].in, record[k].out}
  <2> SUFFICES ASSUME NEW v \in Workers, session'[v].pc = "clocking"
               PROVE  /\ v # w /\ session'[v] = session[v] /\ session[v].at \in Time
                      /\ session[v].at <= time
                      /\ \A k \in Keys : record[k] # NoRecord =>
                             session[v].at \notin {record[k].in, record[k].out}
    OBVIOUS
  <2>1. v # w /\ session'[v] = session[v]
    BY <1>1
  <2>2. session[v] \in Clocking
    BY <1>0, <2>1, SessionKinds DEF TypeOK
  <2> QED
    BY <1>0, <2>1, <2>2 DEF SessionsSound, ClockSound, Clocking
<1>4. \A v \in Workers : ClockSound(session[v])'
  <2> SUFFICES ASSUME NEW v \in Workers, session'[v].pc = "clocking",
                      NEW k \in Keys, record'[k] # NoRecord,
                      session'[v].at \in {record'[k].in, record'[k].out}
               PROVE  FALSE
    BY <1>3 DEF ClockSound
  <2>1. session[v].at \in {record'[k].in, record'[k].out} \cap Time
    BY <1>3
  <2>2. session[w].pc = "clocking" /\ session[v].at = session[w].at
    BY <1>3, <2>1
  <2> QED
    BY <1>0, <1>3, <2>2 DEF TimesDiffer
<1>5. \A v \in Workers : RowsSound(session[v])'
  <2> SUFFICES ASSUME NEW v \in Workers
               PROVE  RowsSound(session[v])'
    OBVIOUS
  <2>1. CASE v = w
    BY <1>1, <2>1 DEF RowsSound
  <2>2. CASE v # w /\ session[v].pc \in {"deciding", "resolving"}
    <3>1. session'[v] = session[v] /\ RowsSound(session[v])
      BY <1>0, <1>1, <2>2 DEF SessionsSound
    <3>2. /\ session[v].pc = "deciding" => session[v].req \in Requests
          /\ session[v].pc = "resolving" => session[v].todo \subseteq Exceptions
      BY <1>0, SessionKinds DEF TypeOK, Deciding, Resolving
    <3> QED
      BY <3>1, <3>2 DEF RowsSound
  <2>3. CASE v # w /\ session[v].pc \notin {"deciding", "resolving"}
    BY <1>1, <2>3 DEF RowsSound
  <2> QED
    BY <2>1, <2>2, <2>3
<1>6. TimesDiffer'
  BY <1>0, <1>3 DEF TimesDiffer
<1>7. PunchesPast'
  <2> SUFFICES ASSUME NEW k \in Keys, record'[k] # NoRecord,
                      NEW p \in {record'[k].in, record'[k].out} \cap Time
               PROVE  p <= time
    BY DEF PunchesPast
  <2>1. CASE record[k] # NoRecord /\ p \in {record[k].in, record[k].out}
    BY <1>0, <2>1 DEF PunchesPast
  <2>2. CASE session[w].pc = "clocking" /\ p = session[w].at
    BY <1>0, <2>2 DEF SessionsSound, ClockSound
  <2> QED
    BY <2>1, <2>2
<1> QED
  BY <1>1, <1>2, <1>4, <1>5, <1>6, <1>7 DEF AttendanceInv, SessionsSound

LEMMA ClockInStep ==
    ASSUME AttendanceInv, NEW w \in Workers, ClockIn(w)
    PROVE  AttendanceInv'
<1> DEFINE s == session[w]
           k == <<s.emp, s.day>>
           old == record[k]
           new == Clocked(old, s.direction, s.at)
           younger == old # NoRecord /\ \E p \in {old.in, old.out} \cap Time : p > s.at
<1>0. TypeOK /\ SessionsSound /\ PunchesInOrder /\ CorrectionsApproved
  BY DEF AttendanceInv
<1>1. /\ record' = [record EXCEPT ![k] = new]
      /\ late' = IF younger THEN late \cup {k} ELSE late
      /\ Commit(w, Idle)
      /\ s.pc = "clocking"
      /\ UNCHANGED <<request, exception, signoff, over, time, crossed, fabricated>>
  BY DEF ClockIn
<1>2. s \in Clocking
  BY <1>0, <1>1, SessionKinds DEF TypeOK
<1>3. k \in Keys /\ s.at \in Time /\ s.direction \in {"in", "out"}
  BY <1>2 DEF Clocking, Keys
<1>4. old \in {NoRecord} \cup Record
  BY <1>0, <1>3 DEF TypeOK, Keys
<1>5. old # NoRecord => /\ s.at \notin {old.in, old.out}
                        /\ old.in \in Punch /\ old.out \in Punch
  BY <1>0, <1>1, <1>3, <1>4 DEF SessionsSound, ClockSound, Record
<1>6. /\ new \in Record
      /\ new.in = s.at \/ new.out = s.at
      /\ new.in # s.at => (IF old = NoRecord THEN new.in = NoPunch ELSE new.in = old.in)
      /\ new.out # s.at => (IF old = NoRecord THEN new.out = NoPunch ELSE new.out = old.out)
      /\ new.status = "clocked_in" => new.in = s.at
      /\ new.status = "complete" => new.out = s.at
      /\ new.status \in {"clocked_in", "complete"}
      /\ new.in = s.at => new.out # s.at
  <2>1. NoPunch \in Punch /\ NoPunch # s.at /\ s.at \in Punch
    BY <1>3 DEF Punch, NoPunch, Time
  <2> QED
    BY <1>3, <1>4, <1>5, <2>1 DEF Clocked, Record
<1> HIDE DEF new, younger
<1>7. /\ record' \in [Keys -> {NoRecord} \cup Record]
      /\ record'[k] = new
      /\ \A j \in Keys : j # k => record'[j] = record[j]
  BY <1>0, <1>1, <1>3, <1>6 DEF TypeOK, Keys
<1>8. \A j \in Keys : record'[j] # NoRecord =>
          \A p \in {record'[j].in, record'[j].out} \cap Time :
              \/ record[j] # NoRecord /\ p \in {record[j].in, record[j].out}
              \/ s.pc = "clocking" /\ p = s.at
  <2>1. NoPunch \notin Time
    BY DEF NoPunch, Time
  <2> QED
    BY <1>1, <1>6, <1>7, <2>1
<1>9. PunchesInOrder'
  <2> SUFFICES ASSUME NEW e \in Employees, NEW d \in Days, <<e, d>> \notin late',
                      record'[<<e, d>>] # NoRecord,
                      record'[<<e, d>>].in \in Time, record'[<<e, d>>].out \in Time
               PROVE  LET punched == record'[<<e, d>>]
                      IN  /\ punched.status = "clocked_in" => punched.out < punched.in
                          /\ punched.status = "complete" => punched.in < punched.out
    BY DEF PunchesInOrder
  <2>0. <<e, d>> \in Keys
    BY DEF Keys
  <2>1. CASE <<e, d>> # k
    BY <1>0, <1>1, <1>7, <2>0, <2>1 DEF PunchesInOrder
  <2>2. CASE <<e, d>> = k
    <3>1. ~younger
      BY <1>1, <2>2
    <3>2. old # NoRecord => \A p \in {old.in, old.out} \cap Time : p < s.at
      BY <1>3, <1>5, <3>1 DEF younger, Time
    <3>3. new.in \in Time /\ new.out \in Time
      BY <1>7, <2>2
    <3>4. NoPunch \notin Time
      BY DEF NoPunch, Time
    <3>5. new.in # s.at => new.in < s.at
      BY <1>6, <3>2, <3>3, <3>4
    <3>6. new.out # s.at => new.out < s.at
      BY <1>6, <3>2, <3>3, <3>4
    <3> QED
      BY <1>6, <1>7, <2>2, <3>5, <3>6
  <2> QED
    BY <2>1, <2>2
<1>10. CorrectionsApproved'
  <2> SUFFICES ASSUME NEW e \in Employees, NEW d \in Days, NEW r \in Requests,
                      record'[<<e, d>>] # NoRecord, r \notin crossed,
                      r \in {record'[<<e, d>>].in, record'[<<e, d>>].out}
               PROVE  /\ record[<<e, d>>] # NoRecord
                      /\ record'[<<e, d>>].in = r => record[<<e, d>>].in = r
                      /\ record'[<<e, d>>].out = r => record[<<e, d>>].out = r
    BY <1>0, <1>1 DEF CorrectionsApproved
  <2>0. <<e, d>> \in Keys
    BY DEF Keys
  <2>1. r # s.at /\ r # NoPunch
    BY <1>3, PeriodAssumption DEF Time, NoPunch
  <2>2. CASE <<e, d>> # k
    BY <1>7, <2>0, <2>2
  <2>3. CASE <<e, d>> = k
    BY <1>6, <1>7, <2>1, <2>3
  <2> QED
    BY <2>2, <2>3
<1>11. late' \subseteq Keys /\ crossed' \subseteq Requests
  BY <1>0, <1>1, <1>3 DEF TypeOK, Keys
<1>12. /\ request' \in [Requests -> {NoRequest} \cup Request]
       /\ exception' \in [Exceptions -> {NoException} \cup Exception]
       /\ \A r \in Requests : request[r] # NoRequest => request'[r] # NoRequest
       /\ \A x \in Exceptions : exception[x] # NoException => exception'[x] # NoException
  BY <1>0, <1>1 DEF TypeOK
<1>13. Idle.pc \notin {"counting", "clocking"} /\ RowsSound(Idle)'
  BY DEF Idle, RowsSound
<1> HIDE DEF k, old
<1> QED
  BY <1>1, <1>7, <1>8, <1>9, <1>10, <1>11, <1>12, <1>13, IdleSound, CommitKeepsInv

LEMMA CreateRequestStep ==
    ASSUME AttendanceInv, NEW w \in Workers, NEW r \in Requests,
           NEW kind \in {"overtime", "punch_correction"}, NEW e \in Employees, NEW d \in Days,
           NEW in \in BOOLEAN, NEW out \in BOOLEAN, CreateRequest(w, r, kind, e, d, in, out)
    PROVE  AttendanceInv'
<1> DEFINE new == [status |-> "pending", kind |-> kind, emp |-> e, day |-> d,
                   in |-> in, out |-> out]
<1>0. TypeOK /\ SessionsSound /\ CorrectionsApproved
  BY DEF AttendanceInv
<1>1. /\ request[r] = NoRequest
      /\ request' = [request EXCEPT ![r] = new]
      /\ UNCHANGED <<record, exception, signoff, over, time, session,
                     late, crossed, moved, fabricated>>
  BY DEF CreateRequest
<1>2. new \in Request /\ new # NoRequest
  BY DEF Request, NoRequest
<1> HIDE DEF new
<1>3. /\ request' \in [Requests -> {NoRequest} \cup Request]
      /\ request'[r] = new
      /\ \A q \in Requests : q # r => request'[q] = request[q]
  BY <1>0, <1>1, <1>2 DEF TypeOK
<1>4. TypeOK'
  BY <1>0, <1>1, <1>3 DEF TypeOK
<1>5. \A x : CountsOf(x)' = CountsOf(x)
  BY <1>1, CountsKept
<1>6. SessionsSound'
  <2> SUFFICES ASSUME NEW v \in Workers
               PROVE  /\ ClockSound(session[v])' /\ RowsSound(session[v])'
                      /\ CountSound(session[v])'
    BY DEF SessionsSound
  <2>1. ClockSound(session[v])'
    BY <1>0, <1>1 DEF SessionsSound, ClockSound
  <2>2. RowsSound(session[v])'
    <3>1. session[v].pc = "deciding" => session[v] \in Deciding
      BY <1>0, SessionKinds DEF TypeOK
    <3> QED
      BY <1>0, <1>1, <1>2, <1>3, <3>1 DEF SessionsSound, RowsSound, Deciding
  <2>3. CountSound(session[v])'
    BY <1>0, <1>1, <1>5 DEF SessionsSound, CountSound
  <2> QED
    BY <2>1, <2>2, <2>3
<1>7. TimesDiffer' /\ PunchesPast' /\ PunchesInOrder'
  BY <1>1 DEF AttendanceInv, TimesDiffer, PunchesPast, PunchesInOrder
<1>8. CorrectionsApproved'
  <2> SUFFICES ASSUME NEW f \in Employees, NEW day \in Days, NEW q \in Requests,
                      record[<<f, day>>] # NoRecord,
                      q \in {record[<<f, day>>].in, record[<<f, day>>].out}, q \notin crossed
               PROVE  request'[q] = request[q]
    BY <1>0, <1>1 DEF CorrectionsApproved
  <2>1. request[q].status = "approved"
    BY <1>0 DEF CorrectionsApproved
  <2> QED
    BY <1>1, <1>3, <2>1 DEF NoRequest
<1>9. SignoffDescribes'
  BY <1>1, <1>5 DEF AttendanceInv, SignoffDescribes
<1> QED
  BY <1>4, <1>6, <1>7, <1>8, <1>9 DEF AttendanceInv

LEMMA DecideRequestStep ==
    ASSUME AttendanceInv, NEW w \in Workers, DecideRequest(w)
    PROVE  AttendanceInv'
<1> DEFINE s == session[w]
           r == s.req
           k == <<request[r].emp, request[r].day>>
           status == IF s.action = "approve" THEN "approved" ELSE "rejected"
           applied == Applies(r, s.action)
           new == Corrected(record[k], r)
<1>0. TypeOK /\ SessionsSound /\ PunchesInOrder /\ CorrectionsApproved
  BY DEF AttendanceInv
<1>1. /\ s.pc = "deciding"
      /\ request' = [request EXCEPT ![r].status = status]
      /\ record' = IF applied THEN [record EXCEPT ![k] = new] ELSE record
      /\ crossed' = IF request[r].status # "pending" THEN crossed \cup {r} ELSE crossed
      /\ Commit(w, Idle)
      /\ UNCHANGED <<exception, signoff, over, time, late, fabricated>>
  BY DEF DecideRequest
<1>2. s \in Deciding
  BY <1>0, <1>1, SessionKinds DEF TypeOK
<1>3. r \in Requests /\ s.action \in Actions /\ request[r] \in Request
  BY <1>0, <1>1, <1>2 DEF Deciding, SessionsSound, RowsSound, TypeOK
<1>4. k \in Keys
  BY <1>3 DEF Request, Keys
<1>5. /\ request' \in [Requests -> {NoRequest} \cup Request]
      /\ request'[r].status = status /\ request'[r] \in Request
      /\ request'[r].emp = request[r].emp /\ request'[r].day = request[r].day
      /\ request'[r].in = request[r].in /\ request'[r].out = request[r].out
      /\ \A q \in Requests : q # r => request'[q] = request[q]
  <2> DEFINE row == [request[r] EXCEPT !.status = status]
  <2>1. request' = [request EXCEPT ![r] = row]
    BY <1>1
  <2>2. /\ row \in Request /\ row.status = status
        /\ row.emp = request[r].emp /\ row.day = request[r].day
        /\ row.in = request[r].in /\ row.out = request[r].out
    BY <1>3 DEF Request
  <2> HIDE DEF row
  <2> QED
    BY <1>0, <1>3, <2>1, <2>2 DEF TypeOK
<1>6. \A q \in Requests : request[q] # NoRequest => request'[q] # NoRequest
  BY <1>5 DEF Request, NoRequest
<1>7. record[k] \in {NoRecord} \cup Record
  BY <1>0, <1>4 DEF TypeOK, Keys
<1>8. /\ new \in Record /\ new.status = "corrected"
      /\ \/ new.in = r /\ request[r].in
         \/ IF record[k] = NoRecord THEN new.in = NoPunch ELSE new.in = record[k].in
      /\ \/ new.out = r /\ request[r].out
         \/ IF record[k] = NoRecord THEN new.out = NoPunch ELSE new.out = record[k].out
  <2>1. NoPunch \in Punch /\ r \in Punch
    BY <1>3 DEF Punch
  <2> QED
    BY <1>3, <1>7, <2>1 DEF Corrected, Record, Request
<1>9. r \notin Time /\ NoPunch \notin Time /\ \A q \in Requests : q # NoPunch
  BY <1>3, PeriodAssumption DEF Time, NoPunch
<1> HIDE DEF new, applied, k
<1>10. /\ record' \in [Keys -> {NoRecord} \cup Record]
       /\ applied => record'[k] = new
       /\ \A j \in Keys : ~(applied /\ j = k) => record'[j] = record[j]
  <2>1. record \in [Keys -> {NoRecord} \cup Record]
    BY <1>0 DEF TypeOK, Keys
  <2>2. CASE applied
    BY <1>1, <1>4, <1>8, <2>1, <2>2
  <2>3. CASE ~applied
    BY <1>1, <2>1, <2>3
  <2> QED
    BY <2>2, <2>3
<1>11. \A j \in Keys : record'[j] # NoRecord =>
           \A p \in {record'[j].in, record'[j].out} \cap Time :
               \/ record[j] # NoRecord /\ p \in {record[j].in, record[j].out}
               \/ s.pc = "clocking" /\ p = s.at
  BY <1>8, <1>9, <1>10
<1>12. PunchesInOrder'
  <2> SUFFICES ASSUME NEW e \in Employees, NEW d \in Days, <<e, d>> \notin late,
                      record'[<<e, d>>] # NoRecord,
                      {record'[<<e, d>>].in, record'[<<e, d>>].out} \subseteq Time
               PROVE  LET punched == record'[<<e, d>>]
                      IN  /\ punched.status = "clocked_in" => punched.out < punched.in
                          /\ punched.status = "complete" => punched.in < punched.out
    BY <1>1 DEF PunchesInOrder
  <2>0. <<e, d>> \in Keys
    BY DEF Keys
  <2>1. CASE applied /\ <<e, d>> = k
    BY <1>8, <1>10, <2>1
  <2>2. CASE ~(applied /\ <<e, d>> = k)
    BY <1>0, <1>10, <2>0, <2>2 DEF PunchesInOrder
  <2> QED
    BY <2>1, <2>2
<1>13. CorrectionsApproved'
  <2> SUFFICES ASSUME NEW e \in Employees, NEW d \in Days, NEW q \in Requests,
                      record'[<<e, d>>] # NoRecord, q \notin crossed',
                      q \in {record'[<<e, d>>].in, record'[<<e, d>>].out}
               PROVE  /\ request'[q].status = "approved"
                      /\ request'[q].emp = e /\ request'[q].day = d
                      /\ record'[<<e, d>>].in = q => request'[q].in
                      /\ record'[<<e, d>>].out = q => request'[q].out
    BY DEF CorrectionsApproved
  <2>0. <<e, d>> \in Keys /\ q \notin crossed
    BY <1>1 DEF Keys
  <2>1. CASE q = r
    <3>1. request[r].status = "pending"
      BY <1>1, <2>1
    <3>2. record[<<e, d>>] # NoRecord => r \notin {record[<<e, d>>].in, record[<<e, d>>].out}
      BY <1>0, <1>3, <2>0, <2>1, <3>1 DEF CorrectionsApproved
    <3>3. applied /\ <<e, d>> = k
      BY <1>10, <2>0, <2>1, <3>2
    <3>4. status = "approved"
      BY <3>3 DEF applied, Applies
    <3>5. e = request[r].emp /\ d = request[r].day
      BY <3>3 DEF k
    <3>6. /\ new.in = r => request[r].in
          /\ new.out = r => request[r].out
      BY <1>8, <1>9, <1>3, <3>2, <3>3
    <3> QED
      BY <1>5, <1>10, <2>1, <3>3, <3>4, <3>5, <3>6
  <2>2. CASE q # r
    <3>1. /\ record[<<e, d>>] # NoRecord
          /\ record'[<<e, d>>].in = q => record[<<e, d>>].in = q
          /\ record'[<<e, d>>].out = q => record[<<e, d>>].out = q
      BY <1>8, <1>9, <1>10, <2>0, <2>2
    <3> QED
      BY <1>0, <1>5, <2>0, <2>2, <3>1 DEF CorrectionsApproved
  <2> QED
    BY <2>1, <2>2
<1>14. /\ late' \subseteq Keys /\ crossed' \subseteq Requests
       /\ exception' \in [Exceptions -> {NoException} \cup Exception]
       /\ \A x \in Exceptions : exception[x] # NoException => exception'[x] # NoException
  BY <1>0, <1>1, <1>3 DEF TypeOK, Keys
<1>15. Idle.pc \notin {"counting", "clocking"} /\ RowsSound(Idle)'
  BY DEF Idle, RowsSound
<1> QED
  BY <1>1, <1>5, <1>6, <1>10, <1>11, <1>12, <1>13, <1>14, <1>15, IdleSound, CommitKeepsInv

(***************************************************************************)
(* Filing or resolving exceptions leaves records and requests alone.       *)
(***************************************************************************)
LEMMA ExceptionsStep ==
    ASSUME AttendanceInv, NEW w \in Workers, NEW s \in {Idle} \cup Resolving, Commit(w, s),
           exception' \in [Exceptions -> {NoException} \cup Exception],
           \A x \in Exceptions : exception[x] # NoException => exception'[x] # NoException,
           RowsSound(s)',
           UNCHANGED <<record, request, signoff, over, time, late, crossed, fabricated>>
    PROVE  AttendanceInv'
<1>1. s \in Session /\ s.pc \notin {"counting", "clocking"}
  BY DEF Session, Resolving, Idle
<1>2. TypeOK /\ PunchesInOrder' /\ CorrectionsApproved'
  BY DEF AttendanceInv, PunchesInOrder, CorrectionsApproved
<1>3. /\ record' \in [Keys -> {NoRecord} \cup Record]
      /\ request' \in [Requests -> {NoRequest} \cup Request]
      /\ late' \subseteq Keys /\ crossed' \subseteq Requests
      /\ \A r \in Requests : request[r] # NoRequest => request'[r] # NoRequest
  BY <1>2 DEF TypeOK, Keys
<1> QED
  BY <1>1, <1>2, <1>3, CommitKeepsInv

LEMMA FileExceptionsStep ==
    ASSUME AttendanceInv, NEW w \in Workers, NEW X \in SUBSET Exceptions,
           NEW emp \in [X -> Employees], FileExceptions(w, X, emp)
    PROVE  AttendanceInv'
<1>1. TypeOK
  BY DEF AttendanceInv
<1>2. exception' \in [Exceptions -> {NoException} \cup Exception]
  BY <1>1 DEF FileExceptions, TypeOK, Exception
<1>3. \A x \in Exceptions : exception[x] # NoException => exception'[x] # NoException
  BY <1>1 DEF FileExceptions, TypeOK
<1>4. RowsSound(Idle)'
  BY DEF RowsSound, Idle
<1> QED
  BY <1>2, <1>3, <1>4, ExceptionsStep DEF FileExceptions

LEMMA ResolvedType ==
    ASSUME TypeOK, NEW x \in Exceptions, exception[x] # NoException, Resolved(x)
    PROVE  /\ exception' \in [Exceptions -> {NoException} \cup Exception]
           /\ \A y \in Exceptions : exception[y] # NoException => exception'[y] # NoException
<1> DEFINE row == [exception[x] EXCEPT !.status = "approved"]
<1>1. exception' = [exception EXCEPT ![x] = row]
  BY DEF Resolved
<1>2. exception[x] \in Exception
  BY DEF TypeOK
<1>3. row \in Exception /\ row # NoException
  BY <1>2 DEF Exception, NoException
<1> HIDE DEF row
<1> QED
  BY <1>1, <1>3 DEF TypeOK

LEMMA ResolveExceptionStep ==
    ASSUME AttendanceInv, NEW w \in Workers, NEW x \in Exceptions, ResolveException(w, x)
    PROVE  AttendanceInv'
<1>1. TypeOK
  BY DEF AttendanceInv
<1>2. /\ exception' \in [Exceptions -> {NoException} \cup Exception]
      /\ \A y \in Exceptions : exception[y] # NoException => exception'[y] # NoException
  BY <1>1, ResolvedType DEF ResolveException
<1>3. RowsSound(Idle)'
  BY DEF RowsSound, Idle
<1> QED
  BY <1>2, <1>3, ExceptionsStep DEF ResolveException

LEMMA ResolveNextStep ==
    ASSUME AttendanceInv, NEW w \in Workers, ResolveNext(w)
    PROVE  AttendanceInv'
<1>1. TypeOK /\ SessionsSound
  BY DEF AttendanceInv
<1>2. session[w] \in Resolving /\ session[w].pc = "resolving"
  BY <1>1, SessionKinds DEF TypeOK, ResolveNext
<1>3. \A y \in session[w].todo : y \in Exceptions /\ exception[y] # NoException
  BY <1>1, <1>2 DEF SessionsSound, RowsSound, Resolving
<1>4. PICK x \in session[w].todo :
        /\ Resolved(x)
        /\ UNCHANGED <<record, request, signoff, over, time, late, crossed, fabricated>>
        /\ Commit(w, [session[w] EXCEPT !.todo = @ \ {x}])
  BY DEF ResolveNext
<1>5. PICK s : s = [session[w] EXCEPT !.todo = session[w].todo \ {x}]
  OBVIOUS
<1>6. s \in Resolving /\ s.todo \subseteq session[w].todo
  BY <1>2, <1>5 DEF Resolving
<1>7. /\ exception' \in [Exceptions -> {NoException} \cup Exception]
      /\ \A y \in Exceptions : exception[y] # NoException => exception'[y] # NoException
  BY <1>1, <1>3, <1>4, ResolvedType
<1>8. Commit(w, s)
  BY <1>4, <1>5
<1>9. RowsSound(s)'
  BY <1>3, <1>6, <1>7 DEF RowsSound, Resolving
<1> QED
  BY <1>4, <1>6, <1>7, <1>8, <1>9, ExceptionsStep

(***************************************************************************)
(* The reads.                                                              *)
(***************************************************************************)
LEMMA ReadTaskStep ==
    ASSUME AttendanceInv, NEW w \in Workers, NEW r \in Requests, NEW action \in Actions,
           ReadTask(w, r, action)
    PROVE  AttendanceInv'
<1> DEFINE s == [pc |-> "deciding", req |-> r, action |-> action]
<1>1. s \in Session /\ s.pc # "clocking"
  BY DEF Session, Deciding
<1>2. RowsSound(s) /\ CountSound(s)
  BY DEF ReadTask, RowsSound, CountSound, NoRequest
<1> QED
  BY <1>1, <1>2, ReadKeepsInv DEF ReadTask

LEMMA ReadSafeStep ==
    ASSUME AttendanceInv, NEW w \in Workers, ReadSafe(w)
    PROVE  AttendanceInv'
<1> DEFINE s == [pc |-> "resolving",
          todo |-> {x \in Exceptions : exception[x].status = "pending" /\ exception[x].safe}]
<1>1. s \in Session /\ s.pc # "clocking"
  BY DEF Session, Resolving
<1>2. RowsSound(s) /\ CountSound(s)
  BY DEF RowsSound, CountSound, NoException
<1> QED
  BY <1>1, <1>2, ReadKeepsInv DEF ReadSafe

LEMMA StopStep ==
    ASSUME AttendanceInv, NEW w \in Workers, Become(w, Idle),
           UNCHANGED <<record, request, exception, signoff, over, time,
                       late, crossed, moved, fabricated>>
    PROVE  AttendanceInv'
BY IdleSound, ReadKeepsInv

LEMMA BeginSignoffStep ==
    ASSUME AttendanceInv, NEW w \in Workers, NEW e \in Employees, BeginSignoff(w, e)
    PROVE  AttendanceInv'
<1> DEFINE seen == [records |-> Unread, exceptions |-> Unread, open |-> Unread]
           s == [pc |-> "counting", emp |-> e, demo |-> FALSE, stale |-> FALSE, seen |-> seen]
<1>1. seen \in Counts /\ \A c \in Columns : seen[c] = Unread
  BY DEF Counts, Columns, Unread
<1> HIDE DEF seen
<1>2. s \in Session /\ s.pc # "clocking"
  BY <1>1 DEF Session, Counting
<1>3. RowsSound(s) /\ CountSound(s)
  BY <1>1 DEF RowsSound, CountSound
<1>4. Become(w, s)
  BY DEF BeginSignoff, seen
<1> QED
  BY <1>2, <1>3, <1>4, ReadKeepsInv DEF BeginSignoff

LEMMA CountNextStep ==
    ASSUME AttendanceInv, NEW w \in Workers, NEW column \in Columns, CountNext(w, column)
    PROVE  AttendanceInv'
<1> DEFINE old == session[w]
           seen == [old.seen EXCEPT ![column] = CountsOf(old.emp)[column]]
           s == [old EXCEPT !.seen = seen]
<1>1. TypeOK /\ SessionsSound
  BY DEF AttendanceInv
<1>2. old \in Counting /\ CountSound(old) /\ old.pc = "counting"
  BY <1>1, SessionKinds DEF TypeOK, SessionsSound, CountNext
<1>3. old.emp \in Employees /\ old.seen \in Counts
  BY <1>2 DEF Counting
<1>4. /\ seen \in Counts
      /\ seen[column] = CountsOf(old.emp)[column]
      /\ \A c \in Columns : c # column => seen[c] = old.seen[c]
  BY <1>3, CountsType DEF Counts
<1>5. Become(w, s)
  BY DEF CountNext
<1> HIDE DEF seen
<1>6. /\ s \in Counting /\ s.seen = seen /\ s.emp = old.emp /\ s.pc = "counting"
      /\ s.stale = old.stale /\ s.demo = old.demo
  BY <1>2, <1>4 DEF Counting
<1> HIDE DEF s
<1>7. RowsSound(s) /\ CountSound(s)
  BY <1>2, <1>4, <1>6 DEF RowsSound, CountSound
<1>8. s \in Session /\ s.pc # "clocking"
  BY <1>6 DEF Session
<1> QED
  BY <1>5, <1>7, <1>8, ReadKeepsInv DEF CountNext

LEMMA CountFailsStep ==
    ASSUME AttendanceInv, NEW w \in Workers, CountFails(w)
    PROVE  AttendanceInv'
<1> DEFINE old == session[w]
           demo == [records |-> 2, exceptions |-> 0, open |-> 0]
           s == [old EXCEPT !.demo = TRUE, !.seen = demo]
<1>1. TypeOK
  BY DEF AttendanceInv
<1>2. old \in Counting
  BY <1>1, SessionKinds DEF TypeOK, CountFails
<1>3. demo \in Counts
  BY DEF Counts, Columns
<1>4. Become(w, s)
  BY DEF CountFails
<1> HIDE DEF demo
<1>5. s \in Counting /\ s.demo /\ s.pc = "counting"
  BY <1>2, <1>3 DEF Counting
<1> HIDE DEF s
<1>6. RowsSound(s) /\ CountSound(s)
  BY <1>5 DEF RowsSound, CountSound
<1>7. s \in Session /\ s.pc # "clocking"
  BY <1>5 DEF Session
<1> QED
  BY <1>4, <1>6, <1>7, ReadKeepsInv DEF CountFails

LEMMA SignPeriodStep ==
    ASSUME AttendanceInv, NEW w \in Workers, SignPeriod(w)
    PROVE  AttendanceInv'
<1> DEFINE s == session[w]
           e == s.emp
           row == [records |-> s.seen.records, exceptions |-> s.seen.exceptions]
<1>0. TypeOK /\ SessionsSound /\ TimesDiffer /\ PunchesPast /\ SignoffDescribes
  BY DEF AttendanceInv
<1>1. /\ Counted(s) /\ s.seen.open = 0
      /\ signoff' = [signoff EXCEPT ![e] = row]
      /\ moved' = IF s.stale THEN moved \cup {e} ELSE moved \ {e}
      /\ fabricated' = IF s.demo THEN fabricated \cup {e} ELSE fabricated \ {e}
      /\ Become(w, Idle)
      /\ UNCHANGED <<record, request, exception, over, time, late, crossed>>
  BY DEF SignPeriod
<1>2. s \in Counting /\ s.pc = "counting" /\ CountSound(s)
  BY <1>0, <1>1, SessionKinds DEF TypeOK, SessionsSound, Counted
<1>3. e \in Employees /\ s.seen \in Counts
  BY <1>2 DEF Counting
<1>4. row \in [records : Int, exceptions : Int]
  BY <1>3 DEF Counts, Columns
<1>5. s.stale \/ s.demo \/ (\A c \in Columns : s.seen[c] = CountsOf(e)[c])
  BY <1>1, <1>2 DEF CountSound, Counted
<1>7. \A f : CountsOf(f)' = CountsOf(f)
  BY <1>1, CountsKept
<1>8. s.stale \/ s.demo \/
        CountsOf(e) = [records |-> row.records, exceptions |-> row.exceptions, open |-> 0]
  <2> SUFFICES ASSUME \A c \in Columns : s.seen[c] = CountsOf(e)[c]
               PROVE  CountsOf(e) = [records |-> row.records, exceptions |-> row.exceptions,
                                     open |-> 0]
    BY <1>5
  <2>1. CountsOf(e) \in Counts
    BY <1>3, CountsType
  <2>2. /\ CountsOf(e)["records"] = row.records
        /\ CountsOf(e)["exceptions"] = row.exceptions
        /\ CountsOf(e)["open"] = 0
    BY <1>1 DEF Columns
  <2>3. PICK counts : counts = CountsOf(e)
    OBVIOUS
  <2> QED
    BY <2>1, <2>2, <2>3 DEF Counts, Columns
<1> HIDE DEF row, e
<1>9. /\ session' \in [Workers -> Session]
      /\ session'[w] = Idle
      /\ \A v \in Workers \ {w} : session'[v] = session[v]
  BY <1>0, <1>1, BecomeFacts, IdleSound
<1>10. /\ signoff' \in [Employees -> [records : Int, exceptions : Int]]
       /\ signoff'[e] = row
       /\ \A f \in Employees : f # e => signoff'[f] = signoff[f]
  BY <1>0, <1>1, <1>3, <1>4 DEF TypeOK
<1>11. TypeOK'
  BY <1>0, <1>1, <1>3, <1>9, <1>10 DEF TypeOK
<1>12. SessionsSound'
  <2> SUFFICES ASSUME NEW v \in Workers
               PROVE  /\ ClockSound(session[v])' /\ RowsSound(session[v])'
                      /\ CountSound(session[v])'
    BY DEF SessionsSound
  <2>1. ClockSound(session'[v]) /\ RowsSound(session'[v]) /\ CountSound(session'[v])
    BY <1>0, <1>9, IdleSound DEF SessionsSound
  <2>2. ClockSound(session[v])'
    BY <1>1, <2>1 DEF ClockSound
  <2>3. RowsSound(session[v])'
    BY <1>1, <2>1 DEF RowsSound
  <2>4. CountSound(session[v])'
    BY <2>1, <1>7 DEF CountSound
  <2> QED
    BY <2>2, <2>3, <2>4
<1>13. TimesDiffer' /\ PunchesPast'
  BY <1>0, <1>1, <1>9 DEF TimesDiffer, PunchesPast, Idle
<1>14. PunchesInOrder' /\ CorrectionsApproved'
  BY <1>1 DEF AttendanceInv, PunchesInOrder, CorrectionsApproved
<1>15. SignoffDescribes'
  <2> SUFFICES ASSUME NEW f \in Employees, signoff'[f] # NoSignoff,
                      f \notin moved' \cup fabricated'
               PROVE  CountsOf(f) = [records |-> signoff'[f].records,
                                     exceptions |-> signoff'[f].exceptions, open |-> 0]
    BY <1>7 DEF SignoffDescribes
  <2>1. CASE f = e
    BY <1>1, <1>8, <1>10, <2>1
  <2>2. CASE f # e
    BY <1>0, <1>1, <1>10, <2>2 DEF SignoffDescribes
  <2> QED
    BY <2>1, <2>2
<1> QED
  BY <1>11, <1>12, <1>13, <1>14, <1>15 DEF AttendanceInv

LEMMA PeriodEndsStep == AttendanceInv /\ PeriodEnds => AttendanceInv'
<1> SUFFICES ASSUME AttendanceInv, PeriodEnds PROVE AttendanceInv'
  OBVIOUS
<1>1. UNCHANGED <<record, request, exception, signoff, time, session,
                  late, crossed, moved, fabricated>> /\ over' = TRUE
  BY DEF PeriodEnds
<1>2. \A f : CountsOf(f)' = CountsOf(f)
  BY <1>1, CountsKept
<1>3. TypeOK' /\ TimesDiffer' /\ PunchesPast' /\ PunchesInOrder' /\ CorrectionsApproved'
  BY <1>1 DEF AttendanceInv, TypeOK, TimesDiffer, PunchesPast, PunchesInOrder,
              CorrectionsApproved
<1>4. SessionsSound'
  BY <1>1, <1>2 DEF AttendanceInv, SessionsSound, ClockSound, RowsSound, CountSound
<1>5. SignoffDescribes'
  BY <1>1, <1>2 DEF AttendanceInv, SignoffDescribes
<1> QED
  BY <1>3, <1>4, <1>5 DEF AttendanceInv

(***************************************************************************)
(* Every step keeps the invariant.                                         *)
(***************************************************************************)
LEMMA NextKeepsInv == AttendanceInv /\ [Next]_vars => AttendanceInv'
<1> SUFFICES ASSUME AttendanceInv, [Next]_vars PROVE AttendanceInv'
  OBVIOUS
<1>1. ASSUME NEW w \in Workers, Clock(w)
      PROVE  AttendanceInv'
  BY <1>1, TakeTimeStep, ClockInStep DEF Clock
<1>2. ASSUME NEW w \in Workers, Decide(w)
      PROVE  AttendanceInv'
  BY <1>2, CreateRequestStep, ReadTaskStep, DecideRequestStep DEF Decide
<1>3. ASSUME NEW w \in Workers, Resolve(w)
      PROVE  AttendanceInv'
  <2>1. ASSUME EndResolve(w)
        PROVE  AttendanceInv'
    BY <2>1, StopStep DEF EndResolve
  <2> QED
    BY <1>3, <2>1, FileExceptionsStep, ResolveExceptionStep, ReadSafeStep, ResolveNextStep
       DEF Resolve
<1>4. ASSUME NEW w \in Workers, SignOff(w)
      PROVE  AttendanceInv'
  <2>1. ASSUME RefuseSignoff(w)
        PROVE  AttendanceInv'
    BY <2>1, StopStep DEF RefuseSignoff
  <2> QED
    BY <1>4, <2>1, BeginSignoffStep, CountNextStep, CountFailsStep, SignPeriodStep
       DEF SignOff
<1>5. ASSUME NEW w \in Workers, Abort(w)
      PROVE  AttendanceInv'
  BY <1>5, StopStep DEF Abort
<1>6. CASE UNCHANGED vars
  <2>1. UNCHANGED <<record, request, exception, signoff, over, time, session,
                    late, crossed, moved, fabricated>>
    BY <1>6 DEF vars
  <2>2. \A f : CountsOf(f)' = CountsOf(f)
    BY <2>1, CountsKept
  <2>3. TypeOK' /\ TimesDiffer' /\ PunchesPast' /\ PunchesInOrder' /\ CorrectionsApproved'
    BY <2>1 DEF AttendanceInv, TypeOK, TimesDiffer, PunchesPast, PunchesInOrder,
                CorrectionsApproved
  <2>4. SessionsSound'
    BY <2>1, <2>2 DEF AttendanceInv, SessionsSound, ClockSound, RowsSound, CountSound
  <2>5. SignoffDescribes'
    BY <2>1, <2>2 DEF AttendanceInv, SignoffDescribes
  <2> QED
    BY <2>3, <2>4, <2>5 DEF AttendanceInv
<1> QED
  BY <1>1, <1>2, <1>3, <1>4, <1>5, <1>6, PeriodEndsStep DEF Next

(***************************************************************************)
(* The inductive invariant holds in every reachable state.                 *)
(***************************************************************************)
LEMMA InvHolds == Spec => []AttendanceInv
<1> QED
  BY InitInv, NextKeepsInv, PTL DEF Spec

-----------------------------------------------------------------------------
(* Theorems *)

(***************************************************************************)
(* Every reachable state of an attendance period has its type: punches are *)
(* times or correction requests, and each call in progress is about rows   *)
(* and counts that can exist (service.ts, exceptions.ts, signoffs.ts).     *)
(***************************************************************************)
THEOREM AttendanceTypeCorrect == Spec => []TypeOK
<1>1. AttendanceInv => TypeOK
  BY DEF AttendanceInv
<1> QED
  BY <1>1, InvHolds, PTL

(***************************************************************************)
(* clockAttendance: on a day without an overtaken clock call, the status   *)
(* and the order of the two punches agree after any sequence of calls.     *)
(***************************************************************************)
THEOREM PunchesAlwaysInOrder == Spec => []PunchesInOrder
<1>1. AttendanceInv => PunchesInOrder
  BY DEF AttendanceInv
<1> QED
  BY <1>1, InvHolds, PTL

(***************************************************************************)
(* decideApproval: a punch that was not clocked comes from an approved     *)
(* correction of that employee and day, if its decisions did not overlap.  *)
(***************************************************************************)
THEOREM CorrectionsAlwaysApproved == Spec => []CorrectionsApproved
<1>1. AttendanceInv => CorrectionsApproved
  BY DEF AttendanceInv
<1> QED
  BY <1>1, InvHolds, PTL

(***************************************************************************)
(* signAttendancePeriod: a sign-off states the records and exceptions of   *)
(* the period, unless they changed since they were read, or the counts are *)
(* those of the demo.                                                      *)
(***************************************************************************)
THEOREM SignoffAlwaysDescribes == Spec => []SignoffDescribes
<1>1. AttendanceInv => SignoffDescribes
  BY DEF AttendanceInv
<1> QED
  BY <1>1, InvHolds, PTL

-----------------------------------------------------------------------------
(***************************************************************************)
(* Calls that do not overlap.  Clock calls and decisions are the ones that *)
(* write what they cannot know to be current; if no two of them are about  *)
(* the same day, or request, nothing has to be excused.                    *)
(***************************************************************************)
ClockingOn(s, k) == s.pc = "clocking" /\ <<s.emp, s.day>> = k
DecidingOn(s, r) == s.pc = "deciding" /\ s.req = r

\* A clock call in progress has the latest time of its day.
Latest(s, k) ==
    ClockingOn(s, k) /\ record[k] # NoRecord =>
        \A p \in {record[k].in, record[k].out} \cap Time : p < s.at

\* A call that clocks or decides has just begun, or goes on as it was.
LEMMA CallsBegin ==
    ASSUME AttendanceInv, [Next]_vars, NEW w \in Workers,
           session'[w].pc \in {"clocking", "deciding"}
    PROVE  \/ session'[w] = session[w]
           \/ \E e \in Employees, d \in Days, direction \in {"in", "out"} :
                  TakeTime(w, e, d, direction)
           \/ \E r \in Requests, action \in Actions : ReadTask(w, r, action)
<1>0. TypeOK
  BY DEF AttendanceInv
<1>1. ASSUME NEW v \in Workers, NEW s, Become(v, s), s.pc \notin {"clocking", "deciding"}
      PROVE  session'[w] = session[w]
  BY <1>0, <1>1 DEF Become, TypeOK
<1>2. ASSUME NEW v \in Workers, NEW s, Commit(v, s), s.pc \notin {"clocking", "deciding"}
      PROVE  session'[w] = session[w]
  <2>1. PICK changed : session' = [u \in Workers |->
              IF u = v THEN s
              ELSE IF session[u].pc = "counting" /\ session[u].emp \in changed
              THEN [session[u] EXCEPT !.stale = TRUE] ELSE session[u]]
    BY <1>2 DEF Commit
  <2>2. w # v
    BY <1>2, <2>1
  <2>3. session[w].pc # "counting"
    <3>1. SUFFICES ASSUME session[w].pc = "counting", session[w].emp \in changed
                   PROVE  FALSE
      BY <2>1, <2>2
    <3>2. session[w] \in Counting
      BY <1>0, <3>1, SessionKinds DEF TypeOK
    <3>3. session'[w] = [session[w] EXCEPT !.stale = TRUE]
      BY <2>1, <2>2, <3>1
    <3> QED
      BY <3>2, <3>3 DEF Counting
  <2> QED
    BY <2>1, <2>2, <2>3
<1>3. Idle.pc \notin {"clocking", "deciding"}
  BY DEF Idle
<1>4. ASSUME NEW v \in Workers, Clock(v) \/ Decide(v)
      PROVE  \/ session'[w] = session[w]
             \/ \E e \in Employees, d \in Days, direction \in {"in", "out"} :
                    TakeTime(w, e, d, direction)
             \/ \E r \in Requests, action \in Actions : ReadTask(w, r, action)
  <2>1. ASSUME NEW e \in Employees, NEW d \in Days, NEW direction \in {"in", "out"},
               TakeTime(v, e, d, direction), v # w
        PROVE  session'[w] = session[w]
    BY <1>0, <2>1 DEF TakeTime, Become, TypeOK
  <2>2. ASSUME NEW r \in Requests, NEW action \in Actions, ReadTask(v, r, action), v # w
        PROVE  session'[w] = session[w]
    BY <1>0, <2>2 DEF ReadTask, Become, TypeOK
  <2>3. ASSUME ClockIn(v) \/ DecideRequest(v)
        PROVE  session'[w] = session[w]
    BY <1>2, <1>3, <2>3 DEF ClockIn, DecideRequest
  <2>4. ASSUME NEW r, NEW kind, NEW e, NEW d, NEW in, NEW out, CreateRequest(v, r, kind, e, d, in, out)
        PROVE  session'[w] = session[w]
    BY <2>4 DEF CreateRequest
  <2> QED
    BY <1>4, <2>1, <2>2, <2>3, <2>4 DEF Clock, Decide
<1>5. ASSUME NEW v \in Workers, Resolve(v)
      PROVE  session'[w] = session[w]
  <2>1. ASSUME ResolveNext(v)
        PROVE  session'[w] = session[w]
    <3>1. session[v] \in Resolving
      BY <1>0, <2>1, SessionKinds DEF TypeOK, ResolveNext
    <3>2. PICK x, s : s = [session[v] EXCEPT !.todo = session[v].todo \ {x}] /\ Commit(v, s)
      BY <2>1 DEF ResolveNext
    <3>3. s.pc = "resolving"
      BY <3>1, <3>2 DEF Resolving
    <3> QED
      BY <1>2, <3>2, <3>3
  <2>2. ASSUME ReadSafe(v)
        PROVE  session'[w] = session[w]
    <3>1. PICK todo : Become(v, [pc |-> "resolving", todo |-> todo])
      BY <2>2 DEF ReadSafe
    <3> QED
      BY <1>1, <3>1
  <2> QED
    BY <1>1, <1>2, <1>3, <1>5, <2>1, <2>2
       DEF Resolve, FileExceptions, ResolveException, EndResolve
<1>6. ASSUME NEW v \in Workers, SignOff(v)
      PROVE  session'[w] = session[w]
  <2>1. ASSUME NEW column \in Columns, CountNext(v, column)
        PROVE  session'[w] = session[w]
    <3>1. session[v] \in Counting
      BY <1>0, <2>1, SessionKinds DEF TypeOK, CountNext
    <3>2. PICK s, seen : s = [session[v] EXCEPT !.seen = seen] /\ Become(v, s)
      BY <2>1 DEF CountNext
    <3>3. s.pc = "counting"
      BY <3>1, <3>2 DEF Counting
    <3> QED
      BY <1>1, <3>2, <3>3
  <2>2. ASSUME CountFails(v)
        PROVE  session'[w] = session[w]
    <3>1. session[v] \in Counting
      BY <1>0, <2>2, SessionKinds DEF TypeOK, CountFails
    <3>2. PICK s, seen : s = [session[v] EXCEPT !.demo = TRUE, !.seen = seen] /\ Become(v, s)
      BY <2>2 DEF CountFails
    <3>3. s.pc = "counting"
      BY <3>1, <3>2 DEF Counting
    <3> QED
      BY <1>1, <3>2, <3>3
  <2>3. ASSUME NEW e \in Employees, BeginSignoff(v, e)
        PROVE  session'[w] = session[w]
    <3>1. PICK seen : Become(v, [pc |-> "counting", emp |-> e, demo |-> FALSE, stale |-> FALSE,
                                 seen |-> seen])
      BY <2>3 DEF BeginSignoff
    <3> QED
      BY <1>1, <3>1
  <2> QED
    BY <1>1, <1>3, <1>6, <2>1, <2>2, <2>3 DEF SignOff, RefuseSignoff, SignPeriod
<1>7. ASSUME NEW v \in Workers, Abort(v)
      PROVE  session'[w] = session[w]
  BY <1>1, <1>3, <1>7 DEF Abort
<1>8. CASE PeriodEnds \/ UNCHANGED vars
  BY <1>8 DEF PeriodEnds, vars
<1> QED
  BY <1>4, <1>5, <1>6, <1>7, <1>8 DEF Next

\* What a step does to the punches of a day and to the decisions of a request.
LEMMA RowSteps ==
    ASSUME AttendanceInv, [Next]_vars
    PROVE  \/ record' = record /\ late' = late
              /\ UNCHANGED <<request, crossed>>
           \/ \E w \in Workers : ClockIn(w)
           \/ \E w \in Workers : DecideRequest(w)
           \/ /\ \E w \in Workers, r \in Requests, kind \in {"overtime", "punch_correction"},
                   e \in Employees, d \in Days, in, out \in BOOLEAN :
                       CreateRequest(w, r, kind, e, d, in, out)
<1>1. ASSUME NEW w \in Workers, Resolve(w) \/ SignOff(w) \/ Abort(w)
      PROVE  UNCHANGED <<record, late, request, crossed>>
  BY <1>1 DEF Resolve, FileExceptions, ResolveException, ReadSafe, ResolveNext, EndResolve,
     SignOff, BeginSignoff, CountNext, CountFails, RefuseSignoff, SignPeriod, Abort
<1>2. ASSUME NEW w \in Workers, Clock(w), ~ClockIn(w)
      PROVE  UNCHANGED <<record, late, request, crossed>>
  BY <1>2 DEF Clock, TakeTime
<1>3. ASSUME NEW w \in Workers, NEW r \in Requests, NEW action \in Actions, ReadTask(w, r, action)
      PROVE  UNCHANGED <<record, late, request, crossed>>
  BY <1>3 DEF ReadTask
<1>4. CASE PeriodEnds \/ UNCHANGED vars
  BY <1>4 DEF PeriodEnds, vars
<1> QED
  BY <1>1, <1>2, <1>3, <1>4 DEF Next, Decide

\* The row of a call that clocks in, and what it does to the punches of other days.
LEMMA ClockInFacts ==
    ASSUME AttendanceInv, NEW w \in Workers, ClockIn(w)
    PROVE  LET s == session[w]
           IN  /\ s.pc = "clocking" /\ <<s.emp, s.day>> \in Keys
               /\ session'[w] = Idle
               /\ \A k \in Keys : k # <<s.emp, s.day>> => record'[k] = record[k]
               /\ late' \subseteq late \cup {<<s.emp, s.day>>}
               /\ Latest(s, <<s.emp, s.day>>) => late' = late
               /\ UNCHANGED <<request, crossed>>
<1>1. TypeOK
  BY DEF AttendanceInv
<1>2. session[w] \in Clocking
  BY <1>1, SessionKinds DEF TypeOK, ClockIn
<1>3. <<session[w].emp, session[w].day>> \in Keys /\ session[w].at \in Time
  BY <1>2 DEF Clocking, Keys
<1>4. session'[w] = Idle
  BY CommitFacts, IdleSound DEF ClockIn, Idle
<1>5. \A k \in Keys : k # <<session[w].emp, session[w].day>> => record'[k] = record[k]
  BY <1>1 DEF ClockIn, TypeOK, Keys
<1>6. Latest(session[w], <<session[w].emp, session[w].day>>) => late' = late
  <2> SUFFICES ASSUME Latest(session[w], <<session[w].emp, session[w].day>>)
               PROVE  late' = late
    OBVIOUS
  <2>1. PICK k : k = <<session[w].emp, session[w].day>>
    OBVIOUS
  <2>2. record[k] # NoRecord => \A p \in {record[k].in, record[k].out} \cap Time : p < session[w].at
    BY <2>1 DEF Latest, ClockingOn, ClockIn
  <2>3. ~(record[k] # NoRecord /\ \E p \in {record[k].in, record[k].out} \cap Time : p > session[w].at)
    BY <1>3, <2>2 DEF Time
  <2> QED
    BY <2>1, <2>3 DEF ClockIn
<1> QED
  BY <1>3, <1>4, <1>5, <1>6 DEF ClockIn

\* A correction brings no time of its own.
LEMMA DecideFacts ==
    ASSUME AttendanceInv, NEW w \in Workers, DecideRequest(w)
    PROVE  LET r == session[w].req
           IN  /\ session[w].pc = "deciding" /\ r \in Requests /\ session'[w] = Idle
               /\ request[r] # NoRequest /\ request'[r].status \in {"approved", "rejected"}
               /\ \A q \in Requests : q # r => request'[q] = request[q]
               /\ crossed' = IF request[r].status # "pending" THEN crossed \cup {r} ELSE crossed
               /\ late' = late
               /\ \A k \in Keys : record'[k] # NoRecord =>
                      {record'[k].in, record'[k].out} \cap Time
                        \subseteq (IF record[k] = NoRecord THEN {} ELSE {record[k].in, record[k].out})
<1>1. TypeOK /\ SessionsSound
  BY DEF AttendanceInv
<1>2. session[w] \in Deciding /\ session[w].pc = "deciding"
  BY <1>1, SessionKinds DEF TypeOK, DecideRequest
<1>3. PICK r, action, status, k :
        /\ r = session[w].req /\ action = session[w].action
        /\ status = IF action = "approve" THEN "approved" ELSE "rejected"
        /\ k = <<request[r].emp, request[r].day>>
  OBVIOUS
<1>4. r \in Requests /\ request[r] \in Request /\ k \in Keys
  <2>1. r \in Requests /\ request[r] # NoRequest
    BY <1>1, <1>2, <1>3 DEF Deciding, SessionsSound, RowsSound
  <2>2. request[r] \in Request
    BY <1>1, <2>1 DEF TypeOK
  <2> QED
    BY <1>3, <2>1, <2>2 DEF Request, Keys
<1>5. /\ request' = [request EXCEPT ![r].status = status]
      /\ record' = IF Applies(r, action) THEN [record EXCEPT ![k] = Corrected(record[k], r)]
                   ELSE record
      /\ crossed' = IF request[r].status # "pending" THEN crossed \cup {r} ELSE crossed
      /\ late' = late
  BY <1>3 DEF DecideRequest
<1>6. session'[w] = Idle
  <2>1. Commit(w, Idle) /\ UNCHANGED <<signoff, fabricated>>
    BY DEF DecideRequest
  <2> QED
    BY <2>1, CommitFacts, IdleSound DEF Idle
<1>7. /\ request'[r].status = status /\ \A q \in Requests : q # r => request'[q] = request[q]
      /\ request[r] # NoRequest
  BY <1>1, <1>4, <1>5 DEF TypeOK, Request, NoRequest
<1>8. ASSUME NEW c \in Keys, record'[c] # NoRecord
      PROVE  {record'[c].in, record'[c].out} \cap Time
               \subseteq (IF record[c] = NoRecord THEN {} ELSE {record[c].in, record[c].out})
  <2>1. CASE record'[c] = record[c]
    BY <1>8, <2>1
  <2>2. CASE record'[c] # record[c]
    <3>1. record'[c] = Corrected(record[c], r)
      BY <1>1, <1>4, <1>5, <2>2 DEF TypeOK, Keys
    <3>2. r \notin Time /\ NoPunch \notin Time
      BY <1>4, PeriodAssumption DEF Time, NoPunch
    <3> QED
      BY <3>1, <3>2 DEF Corrected
  <2> QED
    BY <2>1, <2>2
<1> QED
  BY <1>2, <1>3, <1>4, <1>5, <1>6, <1>7, <1>8

OneClock(k) ==
    \A v, w \in Workers : ClockingOn(session[v], k) /\ ClockingOn(session[w], k) => v = w

ClockInv(k) == k \notin late /\ \A w \in Workers : Latest(session[w], k)

LEMMA ClockStep ==
    ASSUME AttendanceInv, NEW k \in Keys, ClockInv(k), OneClock(k), [Next]_vars
    PROVE  ClockInv(k)'
<1>0. TypeOK /\ PunchesPast
  BY DEF AttendanceInv
\* The rows stay, or get no new times, and no other call clocks in.
<1>1. ASSUME record'[k] # NoRecord =>
                 {record'[k].in, record'[k].out} \cap Time
                   \subseteq (IF record[k] = NoRecord THEN {} ELSE {record[k].in, record[k].out}),
             NEW w \in Workers
      PROVE  Latest(session[w], k)'
  <2> SUFFICES ASSUME ClockingOn(session'[w], k), record'[k] # NoRecord,
                      NEW p \in {record'[k].in, record'[k].out} \cap Time
               PROVE  p < session'[w].at
    BY DEF Latest, ClockingOn
  <2>1. record[k] # NoRecord /\ p \in {record[k].in, record[k].out} \cap Time
    BY <1>1
  <2>2. CASE session'[w] = session[w]
    BY <2>1, <2>2 DEF ClockInv, Latest
  <2>3. ASSUME NEW e \in Employees, NEW d \in Days, NEW direction \in {"in", "out"},
               TakeTime(w, e, d, direction)
        PROVE  p < session'[w].at
    <3>1. session'[w].at = time + 1
      BY <1>0, <2>3 DEF TakeTime, Become, TypeOK
    <3>2. p <= time /\ p \in Nat /\ time \in Nat
      BY <1>0, <2>1, PeriodAssumption DEF PunchesPast, Time, TypeOK
    <3> QED
      BY <3>1, <3>2
  <2>4. ASSUME NEW r \in Requests, NEW action \in Actions, ReadTask(w, r, action)
        PROVE  session'[w].pc = "deciding"
    BY <1>0, <2>4 DEF ReadTask, Become, TypeOK
  <2> QED
    BY <2>2, <2>3, <2>4, CallsBegin DEF ClockingOn
<1>2. ASSUME NEW w \in Workers, ClockIn(w)
      PROVE  ClockInv(k)'
  <2>1. PICK own : own = <<session[w].emp, session[w].day>>
    OBVIOUS
  <2>2. /\ session[w].pc = "clocking" /\ own \in Keys /\ session'[w] = Idle
        /\ own # k => record'[k] = record[k]
        /\ late' \subseteq late \cup {own}
        /\ Latest(session[w], own) => late' = late
    BY <1>2, <2>1, ClockInFacts
  <2>3. k \notin late'
    BY <2>2 DEF ClockInv
  <2>4. CASE own # k
    BY <1>1, <2>2, <2>3, <2>4 DEF ClockInv
  <2>5. CASE own = k
    <3>1. ASSUME NEW v \in Workers, ClockingOn(session'[v], k)
          PROVE  \E e \in Employees, d \in Days, direction \in {"in", "out"} :
                     TakeTime(v, e, d, direction)
      <4>1. v # w
        BY <2>2, <3>1 DEF ClockingOn, Idle
      <4>2. session'[v] # session[v]
        BY <2>1, <2>2, <2>5, <3>1, <4>1 DEF OneClock, ClockingOn
      <4>3. ASSUME NEW r \in Requests, NEW action \in Actions, ReadTask(v, r, action)
            PROVE  session'[v].pc = "deciding"
        BY <1>0, <4>3 DEF ReadTask, Become, TypeOK
      <4> QED
        BY <3>1, <4>2, <4>3, CallsBegin DEF ClockingOn
    <3>2. ASSUME NEW v \in Workers, ClockingOn(session'[v], k)
          PROVE  FALSE
      <4>1. PICK e \in Employees, d \in Days, direction \in {"in", "out"} :
                TakeTime(v, e, d, direction)
        BY <3>1, <3>2
      <4>2. session'[v].pc = "clocking" /\ session[v] = Idle
        BY <1>0, <4>1 DEF TakeTime, Become, TypeOK
      <4>3. session'[w] = session[w]
        BY <1>0, <2>2, <4>1, <4>2 DEF TakeTime, Become, TypeOK, Idle
      <4> QED
        BY <2>2, <4>3 DEF Idle
    <3> QED
      BY <2>3, <3>2 DEF ClockInv, Latest, ClockingOn
  <2> QED
    BY <2>4, <2>5
<1>3. ASSUME NEW w \in Workers, DecideRequest(w)
      PROVE  ClockInv(k)'
  BY <1>1, <1>3, DecideFacts DEF ClockInv
<1>4. ASSUME NEW w \in Workers, NEW r, NEW kind, NEW e, NEW d, NEW in, NEW out,
             CreateRequest(w, r, kind, e, d, in, out)
      PROVE  ClockInv(k)'
  <2>1. record' = record /\ late' = late
    BY <1>4 DEF CreateRequest
  <2> QED
    BY <1>1, <2>1 DEF ClockInv
<1>5. CASE record' = record /\ late' = late
  BY <1>1, <1>5 DEF ClockInv
<1> QED
  BY <1>2, <1>3, <1>4, <1>5, RowSteps

(***************************************************************************)
(* clockAttendance: if the clock calls of an employee and day do not       *)
(* overlap, their record is in order after any sequence of them and of     *)
(* corrections, whatever overlaps elsewhere.                               *)
(***************************************************************************)
THEOREM OneClockInOrder ==
    ASSUME NEW e \in Employees, NEW d \in Days
    PROVE  Spec /\ []OneClock(<<e, d>>) =>
             [](LET punched == record[<<e, d>>]
                IN  punched # NoRecord /\ {punched.in, punched.out} \subseteq Time =>
                      /\ punched.status = "clocked_in" => punched.out < punched.in
                      /\ punched.status = "complete" => punched.in < punched.out)
<1> DEFINE k == <<e, d>>
           InOrder == LET punched == record[k]
                      IN  punched # NoRecord /\ {punched.in, punched.out} \subseteq Time =>
                            /\ punched.status = "clocked_in" => punched.out < punched.in
                            /\ punched.status = "complete" => punched.in < punched.out
<1>1. k \in Keys
  BY DEF Keys
<1>2. Init => ClockInv(k)
  BY DEF Init, ClockInv, Latest, ClockingOn, Idle
<1>3. AttendanceInv /\ ClockInv(k) /\ OneClock(k) /\ [Next]_vars => ClockInv(k)'
  BY <1>1, ClockStep
<1>4. AttendanceInv /\ ClockInv(k) => InOrder
  BY DEF AttendanceInv, PunchesInOrder, ClockInv
<1> HIDE DEF InOrder
<1>5. Spec /\ []OneClock(k) => []InOrder
  BY <1>2, <1>3, <1>4, InvHolds, PTL DEF Spec
<1> QED
  BY <1>5 DEF InOrder

-----------------------------------------------------------------------------
OneDecision(r) ==
    \A v, w \in Workers : DecidingOn(session[v], r) /\ DecidingOn(session[w], r) => v = w

\* A call that decides a request decides a pending one.
DecisionInv(r) ==
    /\ r \notin crossed
    /\ \A w \in Workers : DecidingOn(session[w], r) => request[r].status = "pending"

DecidedForGood(r) ==
    request[r].status \in {"approved", "rejected"} => request'[r] = request[r]

LEMMA DecisionStep ==
    ASSUME AttendanceInv, NEW r \in Requests, DecisionInv(r), OneDecision(r), [Next]_vars
    PROVE  DecisionInv(r)' /\ DecidedForGood(r)
<1>0. TypeOK /\ SessionsSound
  BY DEF AttendanceInv
<1>1. ASSUME NEW w \in Workers, DecidingOn(session'[w], r), session'[w] # session[w]
      PROVE  request'[r].status = "pending" /\ \A v \in Workers : v # w => session'[v] = session[v]
  <2>1. ASSUME NEW e \in Employees, NEW d \in Days, NEW direction \in {"in", "out"},
               TakeTime(w, e, d, direction)
        PROVE  session'[w].pc = "clocking"
    BY <1>0, <2>1 DEF TakeTime, Become, TypeOK
  <2>2. PICK q \in Requests, action \in Actions : ReadTask(w, q, action)
    BY <1>1, <2>1, CallsBegin DEF DecidingOn
  <2>3. session'[w] = [pc |-> "deciding", req |-> q, action |-> action]
    BY <1>0, <2>2 DEF ReadTask, Become, TypeOK
  <2> QED
    BY <1>0, <1>1, <2>2, <2>3 DEF ReadTask, Become, DecidingOn, TypeOK
<1>2. ASSUME request'[r] = request[r], crossed' = crossed
      PROVE  DecisionInv(r)' /\ DecidedForGood(r)
  BY <1>1, <1>2 DEF DecisionInv, DecidedForGood, DecidingOn
<1>3. ASSUME NEW w \in Workers, DecideRequest(w)
      PROVE  DecisionInv(r)' /\ DecidedForGood(r)
  <2>1. PICK q : q = session[w].req
    OBVIOUS
  <2>2. /\ session[w].pc = "deciding" /\ q \in Requests /\ session'[w] = Idle
        /\ \A i \in Requests : i # q => request'[i] = request[i]
        /\ crossed' = IF request[q].status # "pending" THEN crossed \cup {q} ELSE crossed
    BY <1>3, <2>1, DecideFacts
  <2>3. ASSUME NEW v \in Workers, DecidingOn(session'[v], r)
        PROVE  session'[v] = session[v] /\ v # w
    <3>1. v # w
      BY <2>2, <2>3 DEF DecidingOn, Idle
    <3>2. session[w] # Idle
      BY <2>2 DEF Idle
    <3> QED
      BY <1>1, <2>2, <2>3, <3>1, <3>2
  <2>4. CASE q # r
    BY <2>2, <2>3, <2>4 DEF DecisionInv, DecidedForGood, DecidingOn
  <2>5. CASE q = r
    <3>1. request[r].status = "pending" /\ crossed' = crossed
      BY <2>1, <2>2, <2>5 DEF DecisionInv, DecidingOn
    <3>2. \A v \in Workers : ~DecidingOn(session'[v], r)
      BY <2>1, <2>2, <2>3, <2>5 DEF OneDecision, DecidingOn
    <3> QED
      BY <3>1, <3>2 DEF DecisionInv, DecidedForGood, DecidingOn
  <2> QED
    BY <2>4, <2>5
<1>4. ASSUME NEW w \in Workers, NEW q, NEW kind, NEW e, NEW d, NEW in, NEW out,
             CreateRequest(w, q, kind, e, d, in, out)
      PROVE  DecisionInv(r)' /\ DecidedForGood(r)
  <2>1. /\ request[q] = NoRequest /\ crossed' = crossed /\ session' = session
        /\ r # q => request'[r] = request[r]
    BY <1>0, <1>4 DEF CreateRequest, TypeOK
  <2>2. CASE r # q
    BY <1>2, <2>1, <2>2
  <2>3. CASE r = q
    <3>1. \A v \in Workers : ~DecidingOn(session[v], r)
      BY <2>1, <2>3 DEF DecisionInv, NoRequest
    <3> QED
      BY <2>1, <2>3, <3>1 DEF DecisionInv, DecidedForGood, DecidingOn, NoRequest
  <2> QED
    BY <2>2, <2>3
<1>5. ASSUME NEW w \in Workers, ClockIn(w)
      PROVE  DecisionInv(r)' /\ DecidedForGood(r)
  BY <1>2, <1>5, ClockInFacts
<1> QED
  BY <1>2, <1>3, <1>4, <1>5, RowSteps

(***************************************************************************)
(* decideApproval: a request whose decisions do not overlap is decided     *)
(* once, and then for good.                                                *)
(***************************************************************************)
THEOREM OneDecisionForGood ==
    ASSUME NEW r \in Requests
    PROVE  Spec /\ []OneDecision(r) => [][DecidedForGood(r)]_vars
<1>1. Init => DecisionInv(r)
  BY DEF Init, DecisionInv, DecidingOn, Idle
<1>2. AttendanceInv /\ DecisionInv(r) /\ OneDecision(r) /\ [Next]_vars => DecisionInv(r)'
  BY DecisionStep
<1>3. AttendanceInv /\ DecisionInv(r) /\ OneDecision(r) /\ [Next]_vars => [DecidedForGood(r)]_vars
  BY DecisionStep
<1> QED
  BY <1>1, <1>2, <1>3, InvHolds, PTL DEF Spec

(***************************************************************************)
(* Then a punch that stems from this request stands for its approval: the  *)
(* record shows no correction that was turned down.                        *)
(***************************************************************************)
THEOREM OneDecisionShows ==
    ASSUME NEW r \in Requests
    PROVE  Spec /\ []OneDecision(r) =>
             [](\A k \in Keys : record[k] # NoRecord /\ r \in {record[k].in, record[k].out} =>
                    request[r].status = "approved" /\ k = <<request[r].emp, request[r].day>>)
<1> DEFINE Shows == \A k \in Keys : record[k] # NoRecord /\ r \in {record[k].in, record[k].out} =>
                        request[r].status = "approved" /\ k = <<request[r].emp, request[r].day>>
<1>1. Init => DecisionInv(r)
  BY DEF Init, DecisionInv, DecidingOn, Idle
<1>2. AttendanceInv /\ DecisionInv(r) /\ OneDecision(r) /\ [Next]_vars => DecisionInv(r)'
  BY DecisionStep
<1>3. AttendanceInv /\ DecisionInv(r) => Shows
  BY DEF AttendanceInv, CorrectionsApproved, DecisionInv, Keys
<1> HIDE DEF Shows
<1>4. Spec /\ []OneDecision(r) => []Shows
  BY <1>1, <1>2, <1>3, InvHolds, PTL DEF Spec
<1> QED
  BY <1>4 DEF Shows
=============================================================================
