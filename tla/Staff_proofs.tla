---------------------------- MODULE Staff_proofs ----------------------------
(***************************************************************************)
(* Proofs about Staff, for any employees, posts and workers, and for any   *)
(* bound on connections, walks and events.                                 *)
(***************************************************************************)
EXTENDS Staff, FiniteSetTheorems, TLAPS

-----------------------------------------------------------------------------
(* Types.  BaseInv is inductive: calls are about people who are hired,     *)
(* managers are hired, and who is not hired has no manager.                *)

AboutHired(s) ==
    s # Idle => /\ s.emp \in Hired
                /\ s.pc \in {"checked", "walking"} => s.boss \in Hired \cup {NoOne}

CallsAboutHired == \A w \in Workers : AboutHired(session[w])

ManagersHired ==
    \A e \in Employees :
        /\ manager[e] \in Hired \cup {NoOne}
        /\ e \notin Hired => manager[e] = NoOne

BaseInv == TypeOK /\ CallsAboutHired /\ ManagersHired

\* What the type invariant says of a call in progress.
LEMMA SessionFacts ==
    ASSUME TypeOK, NEW w \in Workers
    PROVE  /\ session[w].pc = "idle" => session[w] = Idle
           /\ session[w].pc = "checked" => session[w] \in Checked
           /\ session[w].pc = "walking" => session[w] \in Walking
           /\ session[w].pc \in {"read", "updating", "recording"} => session[w] \in Recording
<1>1. session[w] \in Session
  BY DEF TypeOK
<1> QED
  BY <1>1 DEF Session, Idle, Checked, Walking, Recording

\* A row of a hired employee is a profile.
LEMMA HiredHasProfile ==
    ASSUME TypeOK, NEW e \in Employees
    PROVE  e \in Hired <=> profile[e] \in Profile
<1>1. NoProfile \notin Profile
  BY DEF NoProfile, Profile, Status
<1>2. profile[e] \in {NoProfile} \cup Profile
  BY DEF TypeOK
<1> QED
  BY <1>1, <1>2 DEF Hired

LEMMA BaseInit == Init => BaseInv
<1> SUFFICES ASSUME Init PROVE BaseInv
  OBVIOUS
<1>1. TypeOK
  <2>1. PICK post \in [Founders -> Posts] :
          profile = [e \in Employees |->
            IF e \in Founders THEN [post |-> post[e], status |-> "active"] ELSE NoProfile]
    BY DEF Init
  <2>2. profile \in [Employees -> {NoProfile} \cup Profile]
    BY <2>1 DEF Profile, Status
  <2>3. session \in [Workers -> Session]
    BY DEF Init, Session
  <2>4. manager \in [Employees -> Manager]
    BY DEF Init, Manager
  <2>5. events \in Seq(Event)
    BY DEF Init
  <2>6. task \in [1 .. MaxEvents -> [TaskTypes -> {"none"} \cup TaskStatus]]
    BY DEF Init
  <2> QED
    BY <2>2, <2>3, <2>4, <2>5, <2>6 DEF Init, TypeOK
<1>2. CallsAboutHired /\ ManagersHired
  BY DEF Init, CallsAboutHired, AboutHired, ManagersHired
<1> QED
  BY <1>1, <1>2 DEF BaseInv

\* A call that only moves on, or ends, and stays with its employee.
LEMMA MoveKeepsBase ==
    ASSUME BaseInv, NEW w \in Workers, NEW s \in Session, Become(w, s),
           AboutHired(s),
           UNCHANGED <<manager, profile, events, task, looped, overtaken>>
    PROVE  BaseInv'
<1>1. session' = [session EXCEPT ![w] = s]
  BY DEF Become
<1>2. TypeOK'
  BY <1>1 DEF BaseInv, TypeOK
<1>3. Hired' = Hired
  BY DEF Hired
<1>4. CallsAboutHired'
  BY <1>1, <1>3 DEF BaseInv, CallsAboutHired, AboutHired, TypeOK
<1>5. ManagersHired'
  BY <1>3 DEF BaseInv, ManagersHired
<1> QED
  BY <1>2, <1>4, <1>5 DEF BaseInv

\* The steps that only move a call on.
Moves(w) ==
    \/ \E e \in Employees, m \in Manager : CheckLine(w, e, m)
    \/ \E e \in Employees, m \in Manager, p \in Posts : BeginProfile(w, e, m, p)
    \/ \E e \in Employees, kind \in Kinds, p \in Posts \cup {Keep}, prepared \in SUBSET TaskTypes :
          ReadEmployee(w, e, kind, p, prepared)
    \/ BeginLine(w) \/ VisitManager(w) \/ RefuseLine(w)
    \/ BeginEvent(w) \/ LockEmployee(w) \/ TimeOut(w) \/ Abort(w)

Changes(w) ==
    \/ \E e \in Employees, m \in Manager, p \in Posts : Hire(w, e, m, p)
    \/ \E E \in SUBSET (Employees \ Hired), p \in Posts :
          \E boss \in [E -> Manager] : Import(w, E, boss, p)
    \/ \E i \in 1 .. MaxEvents, t \in TaskTypes, status \in TaskStatus : UpdateTask(w, i, t, status)
    \/ SaveLine(w) \/ CommitEvent(w)

LEMMA NextSplits == Next <=> \E w \in Workers : Moves(w) \/ Changes(w)
BY DEF Next, Begin, Proceed, Moves, Changes

LEMMA MovesBecome ==
    ASSUME BaseInv, NEW w \in Workers, Moves(w)
    PROVE  \E s \in Session :
              /\ Become(w, s)
              /\ AboutHired(s)
              /\ UNCHANGED <<manager, profile, events, task, looped, overtaken>>
<1> DEFINE Goal == \E s \in Session :
              /\ Become(w, s)
              /\ AboutHired(s)
              /\ UNCHANGED <<manager, profile, events, task, looped, overtaken>>
<1>0. TypeOK /\ Hired \subseteq Employees /\ Active \subseteq Hired /\ Idle \in Session
  BY DEF BaseInv, Hired, Active, Session
<1>1. ASSUME NEW e \in Employees, NEW m \in Manager, CheckLine(w, e, m)
      PROVE  Goal
  <2> DEFINE s == [pc |-> "checked", emp |-> e, boss |-> m]
  <2>1. s \in Session /\ AboutHired(s)
    BY <1>1 DEF CheckLine, Session, Checked, AboutHired
  <2>2. Become(w, s) /\ UNCHANGED <<manager, profile, events, task, looped, overtaken>>
    BY <1>1 DEF CheckLine
  <2> QED
    BY <2>1, <2>2
<1>2. ASSUME NEW e \in Employees, NEW m \in Manager, NEW p \in Posts \cup {Keep},
             StartWalk(w, e, m, p), e \in Hired, m \in Hired \cup {NoOne}
      PROVE  Goal
  <2> DEFINE s == [pc |-> "walking", emp |-> e, boss |-> m, post |-> p,
                   cursor |-> m, visited |-> {}, stale |-> FALSE]
  <2>1. s \in Session /\ AboutHired(s)
    BY <1>2 DEF Session, Walking, AboutHired
  <2>2. Become(w, s) /\ UNCHANGED <<manager, profile, events, task, looped, overtaken>>
    BY <1>2 DEF StartWalk
  <2> QED
    BY <2>1, <2>2
<1>3. ASSUME NEW e \in Employees, NEW m \in Manager, NEW p \in Posts, BeginProfile(w, e, m, p)
      PROVE  Goal
  BY <1>0, <1>2, <1>3 DEF BeginProfile
<1>4. ASSUME BeginLine(w)
      PROVE  Goal
  <2>1. session[w] \in Checked /\ session[w] # Idle
    BY <1>0, <1>4, SessionFacts DEF BeginLine, Idle
  <2>2. /\ session[w].emp \in Hired /\ session[w].emp \in Employees
        /\ session[w].boss \in Manager /\ session[w].boss \in Hired \cup {NoOne}
    BY <2>1 DEF BaseInv, CallsAboutHired, AboutHired, Checked
  <2>3. StartWalk(w, session[w].emp, session[w].boss, Keep)
    BY <1>4 DEF BeginLine
  <2> QED
    BY <1>2, <2>2, <2>3
<1>5. ASSUME NEW e \in Employees, NEW kind \in Kinds, NEW p \in Posts \cup {Keep},
             NEW prepared \in SUBSET TaskTypes, ReadEmployee(w, e, kind, p, prepared)
      PROVE  Goal
  <2> DEFINE s == [pc |-> "read", emp |-> e, kind |-> kind, post |-> p,
                   prepared |-> prepared, seen |-> profile[e]]
  <2>1. e \in Hired /\ profile[e] \in Profile
    BY <1>0, <1>5, HiredHasProfile DEF ReadEmployee
  <2>2. s \in Session /\ AboutHired(s)
    BY <2>1 DEF Session, Recording, AboutHired
  <2>3. Become(w, s) /\ UNCHANGED <<manager, profile, events, task, looped, overtaken>>
    BY <1>5 DEF ReadEmployee
  <2> QED
    BY <2>2, <2>3
<1>6. ASSUME VisitManager(w)
      PROVE  Goal
  <2> DEFINE s == session[w]
             n == [s EXCEPT !.visited = s.visited \cup {s.cursor}, !.cursor = manager[s.cursor]]
  <2>1. s \in Walking /\ s # Idle
    BY <1>0, <1>6, SessionFacts DEF VisitManager, Idle
  <2>2. AboutHired(s)
    BY DEF BaseInv, CallsAboutHired
  <2>3. s.cursor \in Employees
    BY <1>6, <2>1 DEF VisitManager, WalkOver, Walking, Manager
  <2>4. manager[s.cursor] \in Manager
    BY <1>0, <2>3 DEF TypeOK
  <2>5. n \in Walking /\ AboutHired(n)
    BY <2>1, <2>2, <2>3, <2>4 DEF Walking, AboutHired
  <2>6. Become(w, n) /\ UNCHANGED <<manager, profile, events, task, looped, overtaken>>
    BY <1>6 DEF VisitManager
  <2> QED
    BY <2>5, <2>6 DEF Session
<1>7. ASSUME Become(w, Idle), UNCHANGED <<manager, profile, events, task, looped, overtaken>>
      PROVE  Goal
  BY <1>0, <1>7 DEF AboutHired
<1>8. ASSUME NEW pc \in {"updating", "recording"}, Become(w, [session[w] EXCEPT !.pc = pc]),
             session[w].pc \in {"read", "updating"},
             UNCHANGED <<manager, profile, events, task, looped, overtaken>>
      PROVE  Goal
  <2>1. session[w] \in Recording /\ session[w] # Idle
    BY <1>0, <1>8, SessionFacts DEF Idle
  <2>2. session[w].emp \in Hired
    BY <2>1 DEF BaseInv, CallsAboutHired, AboutHired
  <2>3. [session[w] EXCEPT !.pc = pc] \in Recording
        /\ AboutHired([session[w] EXCEPT !.pc = pc])
    BY <2>1, <2>2 DEF Recording, AboutHired
  <2> QED
    BY <1>8, <2>3 DEF Session
<1>9. ASSUME BeginEvent(w) \/ LockEmployee(w)
      PROVE  Goal
  BY <1>8, <1>9 DEF BeginEvent, LockEmployee
<1>10. ASSUME RefuseLine(w) \/ TimeOut(w) \/ Abort(w)
       PROVE  Goal
  BY <1>7, <1>10 DEF RefuseLine, TimeOut, Abort
<1> QED
  BY <1>1, <1>3, <1>4, <1>5, <1>6, <1>9, <1>10 DEF Moves

\* What a profile change saves.
LEMMA SaveFacts ==
    ASSUME BaseInv, NEW w \in Workers, SaveLine(w)
    PROVE  LET s == session[w]
           IN  /\ s \in Walking /\ s.emp \in Hired /\ profile[s.emp] \in Profile
               /\ s.boss \in Hired \cup {NoOne}
               /\ manager' = [manager EXCEPT ![s.emp] = s.boss]
               /\ profile' \in [Employees -> {NoProfile} \cup Profile]
               /\ Hired' = Hired
               /\ \A e \in Employees : profile'[e].status = profile[e].status
               /\ \A e \in Employees : e # s.emp \/ s.post = Keep => profile'[e] = profile[e]
               /\ s.post # Keep => profile'[s.emp].post = s.post
<1> DEFINE s == session[w]
           row == [profile[s.emp] EXCEPT !.post = s.post]
<1>1. TypeOK /\ CallsAboutHired /\ s.pc = "walking"
  BY DEF BaseInv, SaveLine
<1>2. s \in Walking /\ s # Idle
  BY <1>1, SessionFacts DEF Idle
<1>3. s.emp \in Hired /\ s.boss \in Hired \cup {NoOne} /\ s.emp \in Employees
  BY <1>1, <1>2 DEF CallsAboutHired, AboutHired, Walking
<1>4. profile[s.emp] \in Profile
  BY <1>1, <1>3, HiredHasProfile
<1>5. s.post # Keep => row \in Profile /\ row.status = profile[s.emp].status /\ row.post = s.post
  BY <1>2, <1>4 DEF Profile, Walking
<1>6. /\ manager' = [manager EXCEPT ![s.emp] = s.boss]
      /\ profile' = IF s.post = Keep THEN profile ELSE [profile EXCEPT ![s.emp].post = s.post]
  BY DEF SaveLine
<1>7. s.post # Keep => profile' = [profile EXCEPT ![s.emp] = row]
  BY <1>1, <1>3, <1>6 DEF TypeOK
<1>8. NoProfile \notin Profile
  BY DEF NoProfile, Profile, Status
<1> HIDE DEF row, s
<1>9. /\ profile' \in [Employees -> {NoProfile} \cup Profile]
      /\ \A e \in Employees : profile'[e].status = profile[e].status
      /\ \A e \in Employees : e # s.emp \/ s.post = Keep => profile'[e] = profile[e]
      /\ s.post # Keep => profile'[s.emp].post = s.post
  BY <1>1, <1>3, <1>5, <1>6, <1>7 DEF TypeOK
<1>10. \A e \in Employees : profile'[e] = NoProfile <=> profile[e] = NoProfile
  BY <1>3, <1>4, <1>5, <1>6, <1>7, <1>8, <1>9, <1>1 DEF TypeOK
<1>11. Hired' = Hired
  BY <1>10 DEF Hired
<1> QED
  BY <1>2, <1>3, <1>4, <1>6, <1>9, <1>11 DEF s

\* What an event commits.
LEMMA CommitFacts ==
    ASSUME BaseInv, NEW w \in Workers, CommitEvent(w)
    PROVE  LET s == session[w]
               to == StatusAfter(s.kind, s.seen.status)
           IN  /\ s \in Recording /\ s.emp \in Hired /\ to \in Status
               /\ profile[s.emp] \in Profile
               /\ profile' = [profile EXCEPT ![s.emp] =
                     [post |-> PostAfter(s.post, s.seen.post), status |-> to]]
               /\ profile' \in [Employees -> {NoProfile} \cup Profile]
               /\ Hired' = Hired
               /\ [emp |-> s.emp, kind |-> s.kind, from |-> s.seen.status,
                   to |-> to, prepared |-> s.prepared] \in Event
<1> DEFINE s == session[w]
           to == StatusAfter(s.kind, s.seen.status)
           row == [post |-> PostAfter(s.post, s.seen.post), status |-> to]
<1>1. TypeOK /\ CallsAboutHired /\ s.pc = "recording"
  BY DEF BaseInv, CommitEvent
<1>2. s \in Recording /\ s # Idle
  BY <1>1, SessionFacts DEF Idle
<1>3. s.emp \in Hired /\ s.emp \in Employees
  BY <1>1, <1>2 DEF CallsAboutHired, AboutHired, Recording
<1>4. profile[s.emp] \in Profile
  BY <1>1, <1>3, HiredHasProfile
<1>5. s.seen.status \in Status /\ s.seen.post \in Posts /\ s.kind \in Kinds
      /\ s.prepared \in SUBSET TaskTypes /\ s.post \in Posts \cup {Keep}
  BY <1>2 DEF Recording, Profile
<1>6. to \in Status
  BY <1>5 DEF StatusAfter, Status
<1>7. row \in Profile
  BY <1>5, <1>6 DEF Profile, PostAfter
<1>8. profile' = [profile EXCEPT ![s.emp] = row]
  BY DEF CommitEvent
<1>9. NoProfile \notin Profile
  BY DEF NoProfile, Profile, Status
<1>10. [emp |-> s.emp, kind |-> s.kind, from |-> s.seen.status,
        to |-> to, prepared |-> s.prepared] \in Event
  BY <1>3, <1>5, <1>6 DEF Event
<1> HIDE DEF row
<1>11. profile' \in [Employees -> {NoProfile} \cup Profile]
  BY <1>1, <1>3, <1>7, <1>8 DEF TypeOK
<1>12. Hired' = Hired
  BY <1>1, <1>3, <1>4, <1>7, <1>8, <1>9 DEF TypeOK, Hired
<1> QED
  BY <1>2, <1>3, <1>4, <1>6, <1>8, <1>10, <1>11, <1>12 DEF row

\* Whom a form or a file adds.
LEMMA AddFacts ==
    ASSUME BaseInv, NEW w \in Workers, NEW E \in SUBSET (Employees \ Hired), NEW p \in Posts,
           NEW boss \in [E -> Manager], Import(w, E, boss, p)
    PROVE  /\ \A e \in Employees : manager'[e] = IF e \in E THEN boss[e] ELSE manager[e]
           /\ \A e \in E : boss[e] \in Hired \cup E \cup {NoOne}
           /\ \A e \in Employees : profile'[e] =
                 IF e \in E THEN [post |-> p, status |-> "active"] ELSE profile[e]
           /\ profile' \in [Employees -> {NoProfile} \cup Profile]
           /\ manager' \in [Employees -> Manager]
           /\ Hired' = Hired \cup E
<1>1. TypeOK /\ E \subseteq Employees
  BY DEF BaseInv
<1>2. [post |-> p, status |-> "active"] \in Profile
  BY DEF Profile, Status
<1>3. NoProfile \notin Profile
  BY DEF NoProfile, Profile, Status
<1>4. /\ \A e \in Employees : manager'[e] = IF e \in E THEN boss[e] ELSE manager[e]
      /\ \A e \in E : boss[e] \in Hired \cup E \cup {NoOne}
      /\ \A e \in Employees : profile'[e] =
            IF e \in E THEN [post |-> p, status |-> "active"] ELSE profile[e]
  BY <1>1 DEF Import
<1>5. manager' \in [Employees -> Manager]
  BY <1>1 DEF Import, TypeOK
<1>6. profile' \in [Employees -> {NoProfile} \cup Profile]
  BY <1>1, <1>2 DEF Import, TypeOK
<1>7. Hired' = Hired \cup E
  BY <1>1, <1>2, <1>3, <1>4 DEF Hired
<1> QED
  BY <1>4, <1>5, <1>6, <1>7

LEMMA HireFacts ==
    ASSUME BaseInv, NEW w \in Workers, NEW h \in Employees, NEW m \in Manager, NEW p \in Posts,
           Hire(w, h, m, p)
    PROVE  /\ h \notin Hired /\ m \in Hired \cup {NoOne} /\ m # h
           /\ manager' = [manager EXCEPT ![h] = m]
           /\ \A e \in Employees : e # h => profile'[e] = profile[e]
           /\ profile'[h].status = "active"
           /\ profile' \in [Employees -> {NoProfile} \cup Profile]
           /\ Hired' = Hired \cup {h}
<1>1. TypeOK
  BY DEF BaseInv
<1>2. [post |-> p, status |-> "active"] \in Profile
  BY DEF Profile, Status
<1>3. NoProfile \notin Profile
  BY DEF NoProfile, Profile, Status
<1>4. /\ manager' = [manager EXCEPT ![h] = m]
      /\ profile' = [profile EXCEPT ![h] = [post |-> p, status |-> "active"]]
  BY DEF Hire
<1>5. h \notin Hired /\ m \in Hired \cup {NoOne} /\ m # h
  BY NamesAssumption DEF Hire, Active
<1>6. profile' \in [Employees -> {NoProfile} \cup Profile]
  BY <1>1, <1>2, <1>4 DEF TypeOK
<1>7. Hired' = Hired \cup {h}
  BY <1>1, <1>2, <1>3, <1>4 DEF TypeOK, Hired
<1>8. /\ \A e \in Employees : e # h => profile'[e] = profile[e]
      /\ profile'[h].status = "active"
  BY <1>1, <1>4 DEF TypeOK
<1> QED
  BY <1>4, <1>5, <1>6, <1>7, <1>8

LEMMA BaseStep == BaseInv /\ [Next]_vars => BaseInv'
<1> SUFFICES ASSUME BaseInv, [Next]_vars PROVE BaseInv'
  OBVIOUS
<1>0. TypeOK /\ CallsAboutHired /\ ManagersHired
  BY DEF BaseInv
<1>1. ASSUME NEW w \in Workers, Moves(w)
      PROVE  BaseInv'
  BY <1>1, MovesBecome, MoveKeepsBase
<1>2. ASSUME NEW w \in Workers, NEW h \in Employees, NEW m \in Manager, NEW p \in Posts,
             Hire(w, h, m, p)
      PROVE  BaseInv'
  <2>1. /\ h \notin Hired /\ m \in Hired \cup {NoOne} /\ m # h
        /\ manager' = [manager EXCEPT ![h] = m]
        /\ profile' \in [Employees -> {NoProfile} \cup Profile]
        /\ Hired' = Hired \cup {h}
    BY <1>2, HireFacts
  <2>2. TypeOK'
    BY <1>0, <1>2, <2>1 DEF TypeOK, Hire
  <2>3. CallsAboutHired'
    BY <1>0, <1>2, <2>1 DEF CallsAboutHired, AboutHired, Hire
  <2>4. ManagersHired'
    BY <1>0, <2>1 DEF ManagersHired, TypeOK
  <2> QED
    BY <2>2, <2>3, <2>4 DEF BaseInv
<1>3. ASSUME NEW w \in Workers, NEW E \in SUBSET (Employees \ Hired), NEW p \in Posts,
             NEW boss \in [E -> Manager], Import(w, E, boss, p)
      PROVE  BaseInv'
  <2>1. /\ \A e \in Employees : manager'[e] = IF e \in E THEN boss[e] ELSE manager[e]
        /\ \A e \in E : boss[e] \in Hired \cup E \cup {NoOne}
        /\ \A e \in Employees : profile'[e] =
              IF e \in E THEN [post |-> p, status |-> "active"] ELSE profile[e]
        /\ profile' \in [Employees -> {NoProfile} \cup Profile]
        /\ manager' \in [Employees -> Manager]
        /\ Hired' = Hired \cup E
    BY <1>3, AddFacts, Zenon
  <2>2. looped' \in BOOLEAN
    BY <1>0, <1>3 DEF Import, TypeOK
  <2>3. TypeOK'
    BY <1>0, <1>3, <2>1, <2>2 DEF TypeOK, Import
  <2>4. CallsAboutHired'
    BY <1>0, <1>3, <2>1 DEF CallsAboutHired, AboutHired, Import
  <2>5. ManagersHired'
    BY <1>0, <2>1 DEF ManagersHired
  <2> QED
    BY <2>3, <2>4, <2>5 DEF BaseInv
<1>4. ASSUME NEW w \in Workers, NEW i \in 1 .. MaxEvents, NEW t \in TaskTypes,
             NEW status \in TaskStatus, UpdateTask(w, i, t, status)
      PROVE  BaseInv'
  <2>1. task' \in [1 .. MaxEvents -> [TaskTypes -> {"none"} \cup TaskStatus]]
    BY <1>0, <1>4 DEF TypeOK, UpdateTask
  <2>2. UNCHANGED <<manager, profile, events, session, looped, overtaken>>
    BY <1>4 DEF UpdateTask
  <2> QED
    BY <1>0, <2>1, <2>2 DEF BaseInv, TypeOK, CallsAboutHired, AboutHired, ManagersHired, Hired
<1>5. ASSUME NEW w \in Workers, SaveLine(w)
      PROVE  BaseInv'
  <2> DEFINE s == session[w]
  <2>1. /\ s \in Walking /\ s.emp \in Hired /\ s.boss \in Hired \cup {NoOne}
        /\ manager' = [manager EXCEPT ![s.emp] = s.boss]
        /\ profile' \in [Employees -> {NoProfile} \cup Profile]
        /\ Hired' = Hired
    BY <1>5, SaveFacts
  <2>2. \A v \in Workers :
          \/ session'[v] = Idle
          \/ session'[v] = session[v]
          \/ session[v].pc = "walking" /\ session'[v] = [session[v] EXCEPT !.stale = TRUE]
    BY <1>5 DEF SaveLine
  <2>3. \A v \in Workers : session'[v] \in Session /\ (AboutHired(session[v]) => AboutHired(session'[v]))
    <3> SUFFICES ASSUME NEW v \in Workers
                 PROVE  /\ session'[v] \in Session
                        /\ AboutHired(session[v]) => AboutHired(session'[v])
      OBVIOUS
    <3>1. CASE session'[v] = Idle \/ session'[v] = session[v]
      BY <1>0, <3>1 DEF TypeOK, Session, AboutHired
    <3>2. CASE session[v].pc = "walking" /\ session'[v] = [session[v] EXCEPT !.stale = TRUE]
      <4>1. session[v] \in Walking /\ session[v] # Idle
        BY <1>0, <3>2, SessionFacts DEF Idle
      <4>2. session'[v] \in Walking /\ session'[v].emp = session[v].emp
            /\ session'[v].boss = session[v].boss
        BY <3>2, <4>1 DEF Walking
      <4> QED
        BY <3>2, <4>1, <4>2 DEF AboutHired, Session
    <3> QED
      BY <2>2, <3>1, <3>2
  <2>4. session' \in [Workers -> Session]
    BY <1>5, <2>3 DEF SaveLine
  <2>5. manager' \in [Employees -> Manager] /\ s.stale \in BOOLEAN
    BY <1>0, <2>1 DEF TypeOK, Walking, Hired
  <2>6. /\ looped' = (looped \/ s.stale \/ s.cursor # NoOne)
        /\ UNCHANGED <<events, task, overtaken>>
    BY <1>5 DEF SaveLine
  <2>7. looped' \in BOOLEAN
    BY <1>0, <2>5, <2>6 DEF TypeOK
  <2>8. TypeOK'
    BY <1>0, <2>1, <2>4, <2>5, <2>6, <2>7 DEF TypeOK
  <2>9. CallsAboutHired'
    <3> SUFFICES ASSUME NEW v \in Workers
                 PROVE  AboutHired(session[v])'
      BY DEF CallsAboutHired
    <3>1. AboutHired(session'[v])
      BY <1>0, <2>3 DEF CallsAboutHired
    <3> QED
      BY <2>1, <3>1 DEF AboutHired
  <2>10. ManagersHired'
    BY <1>0, <2>1 DEF ManagersHired, TypeOK, Walking
  <2> QED
    BY <2>8, <2>9, <2>10 DEF BaseInv
<1>6. ASSUME NEW w \in Workers, CommitEvent(w)
      PROVE  BaseInv'
  <2> DEFINE s == session[w]
             event == [emp |-> s.emp, kind |-> s.kind, from |-> s.seen.status,
                       to |-> StatusAfter(s.kind, s.seen.status), prepared |-> s.prepared]
  <2>1. /\ s \in Recording /\ s.emp \in Hired /\ event \in Event
        /\ profile' \in [Employees -> {NoProfile} \cup Profile]
        /\ Hired' = Hired
    BY <1>6, CommitFacts
  <2>2. events' = Append(events, event)
    BY <1>6 DEF CommitEvent
  <2>3. events' \in Seq(Event)
    BY <1>0, <2>1, <2>2 DEF TypeOK
  <2>4. overtaken' \subseteq Employees
    BY <1>0, <1>6, <2>1 DEF CommitEvent, TypeOK, Hired
  <2>5. /\ session' = [session EXCEPT ![w] = Idle]
        /\ UNCHANGED <<manager, task, looped>>
    BY <1>6 DEF CommitEvent, Become
  <2>6. session' \in [Workers -> Session]
    BY <1>0, <2>5 DEF TypeOK, Session
  <2>7. TypeOK'
    BY <1>0, <2>1, <2>3, <2>4, <2>5, <2>6 DEF TypeOK
  <2>8. CallsAboutHired'
    BY <1>0, <2>1, <2>5 DEF CallsAboutHired, AboutHired, TypeOK
  <2>9. ManagersHired'
    BY <1>0, <2>1, <2>5 DEF ManagersHired
  <2> QED
    BY <2>7, <2>8, <2>9 DEF BaseInv
<1>7. CASE UNCHANGED vars
  BY <1>0, <1>7 DEF vars, BaseInv, TypeOK, CallsAboutHired, AboutHired, ManagersHired, Hired
<1> QED
  BY <1>1, <1>2, <1>3, <1>4, <1>5, <1>6, <1>7, NextSplits DEF Changes

(***************************************************************************)
(* Rows, events, tasks and calls have their types in every state.          *)
(***************************************************************************)
THEOREM StaffTypeCorrect == Spec => []TypeOK
<1>1. BaseInv => TypeOK
  BY DEF BaseInv
<1> QED
  BY <1>1, BaseInit, BaseStep, PTL DEF Spec

-----------------------------------------------------------------------------
(***************************************************************************)
(* Reporting lines.  What a walk has visited leads, by the managers as     *)
(* they still are, to the row it will visit next, and the employee was not *)
(* met: at the end of the walk the new manager's line is known to end      *)
(* without the employee.  LinesInv is inductive.                           *)
(***************************************************************************)
WalkSound(s) ==
    s.pc = "walking" =>
        /\ s.visited \subseteq Hired /\ s.cursor \in Hired \cup {NoOne}
        /\ s.emp \notin s.visited
        /\ ~s.stale => /\ s.boss \in s.visited \cup {s.cursor}
                       /\ \A v \in s.visited : manager[v] \in s.visited \cup {s.cursor}

WalksSound == \A w \in Workers : WalkSound(session[w])

LinesInv == BaseInv /\ WalksSound /\ NoReportingCycle

LEMMA LinesInit == Init => LinesInv
<1> SUFFICES ASSUME Init PROVE LinesInv
  OBVIOUS
<1>1. WalksSound
  BY DEF Init, WalksSound, WalkSound, Idle
<1>2. NoReportingCycle
  BY NamesAssumption DEF Init, NoReportingCycle, LoopFree
<1> QED
  BY <1>1, <1>2, BaseInit DEF LinesInv

LEMMA MovesKeepLines ==
    ASSUME LinesInv, NEW w \in Workers, Moves(w)
    PROVE  WalksSound' /\ NoReportingCycle'
<1>0. BaseInv /\ TypeOK
  BY DEF LinesInv, BaseInv
<1>1. PICK s \in Session :
        /\ Become(w, s) /\ AboutHired(s)
        /\ UNCHANGED <<manager, profile, events, task, looped, overtaken>>
  BY <1>0, MovesBecome
<1>2. session'[w] = s /\ \A v \in Workers : v # w => session'[v] = session[v]
  BY <1>0, <1>1 DEF Become, TypeOK
<1>3. Hired' = Hired /\ manager' = manager /\ looped' = looped
  BY <1>1 DEF Hired
<1>4. NoReportingCycle'
  BY <1>3 DEF LinesInv, NoReportingCycle, LoopFree
<1>5. WalkSound(s)
  <2>1. ASSUME NEW e \in Employees, NEW m \in Manager, NEW p \in Posts \cup {Keep},
               StartWalk(w, e, m, p), m \in Hired \cup {NoOne}
        PROVE  WalkSound(s)
    BY <1>0, <1>2, <2>1 DEF StartWalk, Become, TypeOK, WalkSound
  <2>2. ASSUME NEW e \in Employees, NEW m \in Manager, NEW p \in Posts, BeginProfile(w, e, m, p)
        PROVE  WalkSound(s)
    BY <2>1, <2>2 DEF BeginProfile, Active
  <2>3. ASSUME BeginLine(w)
        PROVE  WalkSound(s)
    <3>1. session[w] \in Checked /\ session[w] # Idle
      BY <1>0, <2>3, SessionFacts DEF BeginLine, Idle
    <3>2. session[w].emp \in Employees /\ session[w].boss \in Manager
          /\ session[w].boss \in Hired \cup {NoOne}
      BY <1>0, <3>1 DEF BaseInv, CallsAboutHired, AboutHired, Checked
    <3> QED
      BY <2>1, <2>3, <3>2 DEF BeginLine
  <2>4. ASSUME VisitManager(w)
        PROVE  WalkSound(s)
    <3> DEFINE old == session[w]
    <3>1. /\ old \in Walking /\ old.cursor # NoOne /\ old.cursor # old.emp
      BY <1>0, <2>4, SessionFacts DEF VisitManager, WalkOver
    <3>2. s = [old EXCEPT !.visited = old.visited \cup {old.cursor},
                          !.cursor = manager[old.cursor]]
      BY <1>0, <1>2, <2>4 DEF VisitManager, Become, TypeOK
    <3>3. /\ s.visited = old.visited \cup {old.cursor} /\ s.cursor = manager[old.cursor]
          /\ s.emp = old.emp /\ s.boss = old.boss /\ s.stale = old.stale
      BY <3>1, <3>2 DEF Walking
    <3>4. WalkSound(old) /\ old.pc = "walking"
      BY <2>4 DEF LinesInv, WalksSound, VisitManager
    <3>5. old.cursor \in Hired /\ old.cursor \in Employees
      BY <3>1, <3>4 DEF WalkSound, Hired
    <3>6. manager[old.cursor] \in Hired \cup {NoOne}
      BY <1>0, <3>5 DEF BaseInv, ManagersHired
    <3> HIDE DEF old
    <3> QED
      BY <3>1, <3>3, <3>4, <3>5, <3>6 DEF WalkSound
  <2>5. ASSUME s.pc # "walking"
        PROVE  WalkSound(s)
    BY <2>5 DEF WalkSound
  <2>6. ASSUME BeginEvent(w) \/ LockEmployee(w)
        PROVE  s.pc # "walking"
    <3>1. session[w] \in Recording
      BY <1>0, <2>6, SessionFacts DEF BeginEvent, LockEmployee
    <3> QED
      BY <1>0, <1>2, <2>6, <3>1 DEF BeginEvent, LockEmployee, Become, TypeOK, Recording
  <2>7. ASSUME \/ RefuseLine(w) \/ TimeOut(w) \/ Abort(w)
               \/ \E e \in Employees, m \in Manager : CheckLine(w, e, m)
               \/ \E e \in Employees, kind \in Kinds, p \in Posts \cup {Keep},
                     prepared \in SUBSET TaskTypes : ReadEmployee(w, e, kind, p, prepared)
        PROVE  s.pc # "walking"
    BY <1>0, <1>2, <2>7
       DEF RefuseLine, TimeOut, Abort, CheckLine, ReadEmployee, Become, TypeOK, Idle
  <2> QED
    BY <2>2, <2>3, <2>4, <2>5, <2>6, <2>7 DEF Moves
<1>6. WalksSound'
  <2> SUFFICES ASSUME NEW v \in Workers
               PROVE  WalkSound(session[v])'
    BY DEF WalksSound
  <2>1. CASE v = w
    BY <1>2, <1>3, <1>5, <2>1 DEF WalkSound
  <2>2. CASE v # w
    <3>1. WalkSound(session[v])
      BY DEF LinesInv, WalksSound
    <3> QED
      BY <1>2, <1>3, <2>2, <3>1 DEF WalkSound
  <2> QED
    BY <2>1, <2>2
<1> QED
  BY <1>4, <1>6

\* Who joins is on nobody's line yet.
LEMMA HireKeepsLines ==
    ASSUME LinesInv, NEW w \in Workers, NEW h \in Employees, NEW m \in Manager, NEW p \in Posts,
           Hire(w, h, m, p)
    PROVE  WalksSound' /\ NoReportingCycle'
<1>0. BaseInv /\ TypeOK /\ ManagersHired
  BY DEF LinesInv, BaseInv
<1>1. /\ h \notin Hired /\ m \in Hired \cup {NoOne} /\ m # h
      /\ manager' = [manager EXCEPT ![h] = m]
      /\ Hired' = Hired \cup {h}
  BY <1>0, HireFacts
<1>2. session' = session /\ looped' = looped
  BY DEF Hire
<1>3. \A e \in Employees : manager'[e] = IF e = h THEN m ELSE manager[e]
  BY <1>0, <1>1 DEF TypeOK
<1>4. WalksSound'
  <2> SUFFICES ASSUME NEW v \in Workers
               PROVE  WalkSound(session[v])'
    BY DEF WalksSound
  <2>1. WalkSound(session[v])
    BY DEF LinesInv, WalksSound
  <2>2. Hired \subseteq Employees
    BY DEF Hired
  <2> QED
    BY <1>1, <1>2, <1>3, <2>1, <2>2 DEF WalkSound
<1>5. NoReportingCycle'
  <2> SUFFICES ASSUME ~looped, NEW T \in SUBSET Employees, T # {}, \A e \in T : manager'[e] \in T
               PROVE  FALSE
    BY <1>2 DEF NoReportingCycle, LoopFree
  <2> DEFINE R == T \ {h}
  <2>1. R # {}
    <3>1. CASE h \in T
      BY <1>1, <1>3, <3>1
    <3>2. CASE h \notin T
      BY <3>2
    <3> QED
      BY <3>1, <3>2
  <2>2. \A e \in R : manager[e] \in R
    <3> SUFFICES ASSUME NEW e \in R PROVE manager[e] \in R
      OBVIOUS
    <3>1. manager[e] \in T /\ manager[e] \in Hired \cup {NoOne}
      BY <1>0, <1>3 DEF ManagersHired
    <3> QED
      BY <1>1, <3>1, NamesAssumption
  <2>3. LoopFree(Employees, manager)
    BY DEF LinesInv, NoReportingCycle
  <2> QED
    BY <2>1, <2>2, <2>3 DEF LoopFree
<1> QED
  BY <1>4, <1>5

\* A file without a cycle hangs new lines below the old ones.
LEMMA ImportKeepsLines ==
    ASSUME LinesInv, NEW w \in Workers, NEW E \in SUBSET (Employees \ Hired), NEW p \in Posts,
           NEW boss \in [E -> Manager], Import(w, E, boss, p)
    PROVE  WalksSound' /\ NoReportingCycle'
<1>0. BaseInv /\ TypeOK /\ ManagersHired
  BY DEF LinesInv, BaseInv
<1>1. /\ \A e \in Employees : manager'[e] = IF e \in E THEN boss[e] ELSE manager[e]
      /\ \A e \in E : boss[e] \in Hired \cup E \cup {NoOne}
      /\ \A e \in Employees : profile'[e] =
            IF e \in E THEN [post |-> p, status |-> "active"] ELSE profile[e]
      /\ profile' \in [Employees -> {NoProfile} \cup Profile]
      /\ manager' \in [Employees -> Manager]
      /\ Hired' = Hired \cup E
  BY <1>0, AddFacts, Zenon
<1>2. session' = session /\ looped' = (looped \/ ~LoopFree(E, boss))
  BY DEF Import
<1>3. WalksSound'
  <2> SUFFICES ASSUME NEW v \in Workers
               PROVE  WalkSound(session[v])'
    BY DEF WalksSound
  <2>1. WalkSound(session[v])
    BY DEF LinesInv, WalksSound
  <2>2. Hired \subseteq Employees
    BY DEF Hired
  <2> QED
    BY <1>1, <1>2, <2>1, <2>2 DEF WalkSound
<1>4. NoReportingCycle'
  <2> SUFFICES ASSUME ~looped, LoopFree(E, boss),
                      NEW T \in SUBSET Employees, T # {}, \A e \in T : manager'[e] \in T
               PROVE  FALSE
    BY <1>2 DEF NoReportingCycle, LoopFree
  <2> DEFINE new == T \cap E
             old == T \ E
  <2>1. old # {}
    <3>1. CASE new # {}
      <4>1. PICK e \in new : boss[e] \notin new
        BY <3>1 DEF LoopFree
      <4> QED
        BY <1>1, <4>1
    <3>2. CASE new = {}
      BY <3>2
    <3> QED
      BY <3>1, <3>2
  <2>2. \A e \in old : manager[e] \in old
    <3> SUFFICES ASSUME NEW e \in old PROVE manager[e] \in old
      OBVIOUS
    <3>1. manager[e] \in T /\ manager[e] \in Hired \cup {NoOne}
      BY <1>0, <1>1 DEF ManagersHired
    <3> QED
      BY <3>1, NamesAssumption
  <2>3. LoopFree(Employees, manager)
    BY DEF LinesInv, NoReportingCycle
  <2> QED
    BY <2>1, <2>2, <2>3 DEF LoopFree
<1> QED
  BY <1>3, <1>4

\* A line that nobody changed under the walk ends without the employee.
LEMMA SaveKeepsLines ==
    ASSUME LinesInv, NEW w \in Workers, SaveLine(w)
    PROVE  WalksSound' /\ NoReportingCycle'
<1> DEFINE s == session[w]
<1>0. BaseInv /\ TypeOK
  BY DEF LinesInv, BaseInv
<1>1. /\ s \in Walking /\ s.emp \in Hired
      /\ manager' = [manager EXCEPT ![s.emp] = s.boss]
      /\ Hired' = Hired
  BY <1>0, SaveFacts
<1>2. /\ looped' = (looped \/ s.stale \/ s.cursor # NoOne)
      /\ session' = [v \in Workers |->
            IF v = w THEN Idle
            ELSE IF session[v].pc = "walking" /\ s.emp \in session[v].visited
                      /\ s.boss # manager[s.emp]
            THEN [session[v] EXCEPT !.stale = TRUE] ELSE session[v]]
      /\ WalkSound(s) /\ s.pc = "walking"
  BY DEF SaveLine, LinesInv, WalksSound
<1>3. s.emp \in Employees /\ \A e \in Employees :
        manager'[e] = IF e = s.emp THEN s.boss ELSE manager[e]
  BY <1>0, <1>1 DEF TypeOK, Walking
<1>4. WalksSound'
  <2> SUFFICES ASSUME NEW v \in Workers
               PROVE  WalkSound(session[v])'
    BY DEF WalksSound
  <2>1. WalkSound(session[v])
    BY DEF LinesInv, WalksSound
  <2>2. Hired \subseteq Employees
    BY DEF Hired
  <2>3. CASE v = w
    BY <1>2, <2>3 DEF WalkSound, Idle
  <2>4. CASE v # w /\ session[v].pc = "walking" /\ s.emp \in session[v].visited
             /\ s.boss # manager[s.emp]
    <3>1. session[v] \in Walking
      BY <1>0, <2>4, SessionFacts
    <3>2. session'[v] = [session[v] EXCEPT !.stale = TRUE]
      BY <1>2, <2>4
    <3>3. /\ session'[v].stale = TRUE /\ session'[v].visited = session[v].visited
          /\ session'[v].cursor = session[v].cursor /\ session'[v].emp = session[v].emp
      BY <3>1, <3>2 DEF Walking
    <3> QED
      BY <1>1, <2>1, <2>4, <3>3 DEF WalkSound
  <2>5. CASE v # w /\ ~(/\ session[v].pc = "walking" /\ s.emp \in session[v].visited
                        /\ s.boss # manager[s.emp])
    <3>1. session'[v] = session[v]
      BY <1>2, <2>5
    <3>2. session[v].pc = "walking" => \A e \in session[v].visited : manager'[e] = manager[e]
      BY <1>3, <2>1, <2>2, <2>5 DEF WalkSound
    <3> QED
      BY <1>1, <2>1, <3>1, <3>2 DEF WalkSound
  <2> QED
    BY <2>3, <2>4, <2>5
<1>5. NoReportingCycle'
  <2> SUFFICES ASSUME ~looped, ~s.stale, s.cursor = NoOne,
                      NEW T \in SUBSET Employees, T # {}, \A e \in T : manager'[e] \in T
               PROVE  FALSE
    BY <1>2 DEF NoReportingCycle, LoopFree
  <2>1. LoopFree(Employees, manager)
    BY DEF LinesInv, NoReportingCycle
  <2>2. /\ s.boss \in s.visited \cup {NoOne} /\ s.emp \notin s.visited
        /\ \A v \in s.visited : manager[v] \in s.visited \cup {NoOne}
    BY <1>2 DEF WalkSound
  <2> HIDE DEF s
  <2>3. CASE s.emp \in T
    <3> DEFINE above == T \cap s.visited
    <3>1. above # {}
      BY <1>3, <2>2, <2>3, NamesAssumption
    <3>2. \A e \in above : manager[e] \in above
      BY <1>3, <2>2, NamesAssumption
    <3>3. above \in SUBSET Employees
      OBVIOUS
    <3> QED
      BY <2>1, <3>1, <3>2, <3>3 DEF LoopFree
  <2>4. CASE s.emp \notin T
    BY <1>3, <2>1, <2>4 DEF LoopFree
  <2> QED
    BY <2>3, <2>4
<1> QED
  BY <1>4, <1>5

LEMMA LinesStep == LinesInv /\ [Next]_vars => LinesInv'
<1> SUFFICES ASSUME LinesInv, [Next]_vars PROVE LinesInv'
  OBVIOUS
<1>1. BaseInv'
  BY BaseStep DEF LinesInv
<1>2. ASSUME UNCHANGED <<manager, profile, session, looped>>
      PROVE  WalksSound' /\ NoReportingCycle'
  BY <1>2 DEF LinesInv, WalksSound, WalkSound, NoReportingCycle, LoopFree, Hired
<1>3. ASSUME NEW w \in Workers, NEW i \in 1 .. MaxEvents, NEW t \in TaskTypes,
             NEW status \in TaskStatus, UpdateTask(w, i, t, status)
      PROVE  WalksSound' /\ NoReportingCycle'
  BY <1>2, <1>3 DEF UpdateTask
<1>4. ASSUME NEW w \in Workers, CommitEvent(w)
      PROVE  WalksSound' /\ NoReportingCycle'
  <2>1. Hired' = Hired
    BY <1>4, CommitFacts DEF LinesInv
  <2>2. /\ session' = [session EXCEPT ![w] = Idle]
        /\ manager' = manager /\ looped' = looped
    BY <1>4 DEF CommitEvent, Become
  <2>3. WalksSound'
    BY <2>1, <2>2 DEF LinesInv, BaseInv, TypeOK, WalksSound, WalkSound, Idle
  <2>4. NoReportingCycle'
    BY <2>2 DEF LinesInv, NoReportingCycle, LoopFree
  <2> QED
    BY <2>3, <2>4
<1>5. ASSUME UNCHANGED vars
      PROVE  WalksSound' /\ NoReportingCycle'
  BY <1>2, <1>5 DEF vars
<1>6. WalksSound' /\ NoReportingCycle'
  BY <1>3, <1>4, <1>5, MovesKeepLines, HireKeepsLines, ImportKeepsLines, SaveKeepsLines,
     NextSplits DEF Changes
<1> QED
  BY <1>1, <1>6 DEF LinesInv

(***************************************************************************)
(* No reporting cycle comes into being, whatever the number of employees   *)
(* and of changes at a time, unless a walk was overtaken or cut short or a *)
(* file had the cycle.                                                     *)
(***************************************************************************)
THEOREM LinesNeverLoop == Spec => []NoReportingCycle
<1>1. LinesInv => NoReportingCycle
  BY DEF LinesInv
<1> QED
  BY <1>1, LinesInit, LinesStep, PTL DEF Spec

-----------------------------------------------------------------------------
(***************************************************************************)
(* The timeline.  TimelineInv is inductive: an event on a row that has not *)
(* changed since it was read starts from where the timeline stands.        *)
(***************************************************************************)
EventsOnHired == \A i \in DOMAIN events : events[i].emp \in Hired

TimelineInv == BaseInv /\ EventsOnHired /\ TimelineTells

\* Appending an event changes nothing about what came before.
LEMMA StoryKept ==
    ASSUME TypeOK, NEW event \in Event, events' = Append(events, event)
    PROVE  \A e \in Employees, status \in Status, i \in 1 .. Len(events) + 1 :
              LedTo(e, i, status) => LedTo(e, i, status)'
<1> SUFFICES ASSUME NEW e \in Employees, NEW status \in Status, NEW i \in 1 .. Len(events) + 1,
                    LedTo(e, i, status)
             PROVE  LedTo(e, i, status)'
  OBVIOUS
<1>1. /\ Len(events) \in Nat /\ DOMAIN events = 1 .. Len(events)
      /\ DOMAIN events' = 1 .. Len(events) + 1
      /\ \A j \in 1 .. Len(events) : events'[j] = events[j]
  BY DEF TypeOK
<1>2. {j \in EventsOf(e)' : j < i} = {j \in EventsOf(e) : j < i}
  BY <1>1 DEF EventsOf
<1>3. \A j \in EventsOf(e) : events'[j] = events[j]
  BY <1>1 DEF EventsOf
<1> QED
  BY <1>2, <1>3 DEF LedTo

LEMMA TimelineInit == Init => TimelineInv
<1> SUFFICES ASSUME Init PROVE TimelineInv
  OBVIOUS
<1>1. DOMAIN events = {}
  BY DEF Init
<1>2. \A e \in Hired : profile[e].status = "active"
  BY DEF Init, Hired
<1> QED
  BY <1>1, <1>2, BaseInit DEF TimelineInv, EventsOnHired, TimelineTells, EventsOf, LedTo

\* Status and events stay, and whoever joins is active.
LEMMA OthersKeepTimeline ==
    ASSUME TimelineInv, UNCHANGED <<events, overtaken>>, Hired \subseteq Hired',
           \A e \in Hired' : profile'[e].status = IF e \in Hired THEN profile[e].status ELSE "active"
    PROVE  EventsOnHired' /\ TimelineTells'
<1>1. EventsOnHired'
  BY DEF TimelineInv, EventsOnHired
<1>2. \A e, i, status : LedTo(e, i, status)' <=> LedTo(e, i, status)
  BY DEF LedTo, EventsOf
<1>3. TimelineTells'
  <2> SUFFICES ASSUME NEW e \in Hired' \ overtaken
               PROVE  /\ LedTo(e, Len(events) + 1, profile[e].status)'
                      /\ \A i \in EventsOf(e) :
                           /\ LedTo(e, i, events[i].from)'
                           /\ events[i].from # "active" /\ events[i].to = "active"
                                => events[i].kind = "return"
    BY DEF TimelineTells, EventsOf
  <2>1. CASE e \in Hired
    <3>1. /\ LedTo(e, Len(events) + 1, profile[e].status)
          /\ \A i \in EventsOf(e) :
               /\ LedTo(e, i, events[i].from)
               /\ events[i].from # "active" /\ events[i].to = "active"
                    => events[i].kind = "return"
      BY <2>1 DEF TimelineInv, TimelineTells
    <3>2. profile'[e].status = profile[e].status /\ events' = events
      BY <2>1
    <3>3. LedTo(e, Len(events) + 1, profile[e].status)'
      <4>1. PICK m, status : m = Len(events) + 1 /\ status = profile[e].status
        OBVIOUS
      <4>2. LedTo(e, m, status)'
        BY <1>2, <3>1, <4>1
      <4> QED
        BY <3>2, <4>1, <4>2
    <3>4. \A i \in EventsOf(e) : LedTo(e, i, events[i].from)'
      <4> SUFFICES ASSUME NEW i \in EventsOf(e)
                   PROVE  LedTo(e, i, events[i].from)'
        OBVIOUS
      <4>1. PICK status : status = events[i].from
        OBVIOUS
      <4>2. LedTo(e, i, status)'
        BY <1>2, <3>1, <4>1
      <4> QED
        BY <3>2, <4>1, <4>2
    <3> QED
      BY <3>1, <3>3, <3>4
  <2>2. CASE e \notin Hired
    <3>1. EventsOf(e) = {}
      BY <2>2 DEF TimelineInv, EventsOnHired, EventsOf
    <3>2. EventsOf(e)' = {}
      BY <3>1 DEF EventsOf
    <3>3. {j \in EventsOf(e)' : j < Len(events') + 1} = {} /\ profile'[e].status = "active"
      BY <2>2, <3>2
    <3>4. LedTo(e, Len(events) + 1, profile[e].status)'
      BY <3>3 DEF LedTo
    <3> QED
      BY <3>1, <3>4
  <2> QED
    BY <2>1, <2>2
<1> QED
  BY <1>1, <1>3

LEMMA CommitKeepsTimeline ==
    ASSUME TimelineInv, NEW w \in Workers, CommitEvent(w)
    PROVE  EventsOnHired' /\ TimelineTells'
<1> DEFINE s == session[w]
           to == StatusAfter(s.kind, s.seen.status)
           event == [emp |-> s.emp, kind |-> s.kind, from |-> s.seen.status,
                     to |-> to, prepared |-> s.prepared]
           n == Len(events)
<1>0. BaseInv /\ TypeOK
  BY DEF TimelineInv, BaseInv
<1>1. /\ s \in Recording /\ s.emp \in Hired /\ to \in Status /\ event \in Event
      /\ profile[s.emp] \in Profile
      /\ profile' = [profile EXCEPT ![s.emp] =
            [post |-> PostAfter(s.post, s.seen.post), status |-> to]]
      /\ Hired' = Hired
  BY <1>0, CommitFacts
<1>2. /\ events' = Append(events, event)
      /\ overtaken' = IF s.seen # profile[s.emp] THEN overtaken \cup {s.emp} ELSE overtaken
  BY DEF CommitEvent
<1>3. /\ n \in Nat /\ DOMAIN events = 1 .. n /\ DOMAIN events' = 1 .. n + 1
      /\ Len(events') = n + 1
      /\ \A j \in 1 .. n : events'[j] = events[j]
      /\ events'[n + 1] = event
      /\ \A j \in 1 .. n : events[j] \in Event
  BY <1>0, <1>1, <1>2 DEF TypeOK
<1>4. /\ event.emp = s.emp /\ event.kind = s.kind /\ event.from = s.seen.status
      /\ event.to = to
  OBVIOUS
<1>5. s.emp \notin overtaken' => s.seen = profile[s.emp] /\ s.emp \notin overtaken
  BY <1>2
<1>6. to = "active" /\ s.seen.status # "active" => s.kind = "return"
  BY DEF StatusAfter
<1>7. overtaken \subseteq overtaken' /\ s.emp \in Employees /\ Hired \subseteq Employees
  BY <1>1, <1>2 DEF Hired
<1> HIDE DEF s, to, event, n
<1>8. EventsOnHired'
  BY <1>1, <1>3, <1>4 DEF TimelineInv, EventsOnHired
<1>9. TimelineTells'
  <2> SUFFICES ASSUME NEW e \in Hired \ overtaken'
               PROVE  /\ LedTo(e, Len(events) + 1, profile[e].status)'
                      /\ \A i \in EventsOf(e)' :
                           /\ LedTo(e, i, events[i].from)'
                           /\ events'[i].from # "active" /\ events'[i].to = "active"
                                => events'[i].kind = "return"
    BY <1>1 DEF TimelineTells
  <2>1. /\ e \in Employees /\ profile[e] \in Profile /\ profile[e].status \in Status
        /\ LedTo(e, n + 1, profile[e].status)
        /\ \A i \in EventsOf(e) :
             /\ LedTo(e, i, events[i].from)
             /\ events[i].from # "active" /\ events[i].to = "active" => events[i].kind = "return"
    <3>1. e \in Employees /\ e \in Hired \ overtaken
      BY <1>7
    <3>2. profile[e] \in Profile /\ profile[e].status \in Status
      BY <1>0, <3>1, HiredHasProfile DEF Profile
    <3> QED
      BY <3>1, <3>2 DEF TimelineInv, TimelineTells, n
  <2>2. \A i \in EventsOf(e) :
          /\ i \in 1 .. n /\ events'[i] = events[i] /\ events[i].from \in Status
    BY <1>3 DEF EventsOf, Event
  <2>3. \A status \in Status, i \in 1 .. n + 1 : LedTo(e, i, status) => LedTo(e, i, status)'
    BY <1>0, <1>1, <1>2, <2>1, StoryKept DEF n
  <2>4. \A i \in EventsOf(e) :
          /\ LedTo(e, i, events[i].from)'
          /\ events'[i].from # "active" /\ events'[i].to = "active" => events'[i].kind = "return"
    <3> SUFFICES ASSUME NEW i \in EventsOf(e)
                 PROVE  /\ LedTo(e, i, events[i].from)'
                        /\ events'[i].from # "active" /\ events'[i].to = "active"
                             => events'[i].kind = "return"
      OBVIOUS
    <3>1. /\ events'[i] = events[i] /\ events[i].from \in Status /\ i \in 1 .. n + 1
          /\ LedTo(e, i, events[i].from)
      BY <1>3, <2>1, <2>2
    <3>2. PICK status \in Status : status = events[i].from
      BY <3>1
    <3>3. LedTo(e, i, status)'
      BY <2>3, <3>1, <3>2
    <3>4. LedTo(e, i, events[i].from)'
      BY <3>1, <3>2, <3>3
    <3> QED
      BY <2>1, <3>1, <3>4
  <2>5. CASE e = s.emp
    <3>1. EventsOf(e)' = EventsOf(e) \cup {n + 1}
      BY <1>3, <1>4, <2>5 DEF EventsOf
    <3>2. {j \in EventsOf(e)' : j < n + 2} = EventsOf(e) \cup {n + 1}
      BY <1>3, <2>2, <3>1
    <3>3. \A k \in EventsOf(e) \cup {n + 1} : k <= n + 1
      BY <1>3, <2>2
    <3>4. profile'[e].status = to /\ events'[n + 1] = event /\ event.to = to
          /\ event.from = profile[e].status
      BY <1>0, <1>1, <1>3, <1>4, <1>5, <2>1, <2>5 DEF TypeOK
    <3>5. PICK status \in Status, was \in Status : status = to /\ was = profile[e].status
      BY <1>1, <2>1
    <3>6. PICK m \in Nat : m = n + 1
      BY <1>3
    <3>7. LedTo(e, m + 1, status)'
      <4>1. {j \in EventsOf(e)' : j < m + 1} = EventsOf(e) \cup {m}
        BY <1>3, <3>2, <3>6
      <4>2. m \in EventsOf(e) \cup {m} /\ events'[m].to = status
            /\ \A k \in EventsOf(e) \cup {m} : k <= m
        BY <3>3, <3>4, <3>5, <3>6
      <4> QED
        BY <4>1, <4>2 DEF LedTo
    <3>8. LedTo(e, Len(events) + 1, profile[e].status)'
      BY <1>3, <3>4, <3>5, <3>6, <3>7
    <3>9. LedTo(e, m, was)'
      BY <1>3, <2>1, <2>3, <3>5, <3>6
    <3>10. LedTo(e, m, events[m].from)'
      BY <3>4, <3>5, <3>6, <3>9
    <3>11. events'[m].from # "active" /\ events'[m].to = "active" => events'[m].kind = "return"
      BY <1>4, <1>6, <3>4, <3>6
    <3> QED
      BY <2>4, <3>1, <3>6, <3>8, <3>10, <3>11
  <2>6. CASE e # s.emp
    <3>1. EventsOf(e)' = EventsOf(e)
      BY <1>3, <1>4, <2>6 DEF EventsOf
    <3>2. profile'[e] = profile[e]
      BY <1>0, <1>1, <2>1, <2>6 DEF TypeOK
    <3>3. PICK was \in Status : was = profile[e].status
      BY <2>1
    <3>4. PICK m \in Nat : m = n + 1
      BY <1>3
    <3>5. LedTo(e, m, was)'
      BY <1>3, <2>1, <2>3, <3>3, <3>4
    <3>6. {j \in EventsOf(e)' : j < m + 1} = {j \in EventsOf(e)' : j < m}
      BY <1>3, <2>2, <3>1, <3>4
    <3>7. LedTo(e, m + 1, was)'
      BY <3>5, <3>6 DEF LedTo
    <3>8. LedTo(e, Len(events) + 1, profile[e].status)'
      BY <1>3, <3>2, <3>3, <3>4, <3>7
    <3> QED
      BY <2>4, <3>1, <3>8
  <2> QED
    BY <2>5, <2>6
<1> QED
  BY <1>8, <1>9

LEMMA TimelineStep == TimelineInv /\ [Next]_vars => TimelineInv'
<1> SUFFICES ASSUME TimelineInv, [Next]_vars PROVE TimelineInv'
  OBVIOUS
<1>0. BaseInv /\ TypeOK
  BY DEF TimelineInv, BaseInv
<1>1. BaseInv'
  BY <1>0, BaseStep
<1>2. ASSUME UNCHANGED <<profile, events, overtaken>>
      PROVE  EventsOnHired' /\ TimelineTells'
  <2>1. Hired' = Hired
    BY <1>2 DEF Hired
  <2> QED
    BY <1>2, <2>1, OthersKeepTimeline
<1>3. ASSUME NEW w \in Workers, Moves(w)
      PROVE  EventsOnHired' /\ TimelineTells'
  BY <1>0, <1>2, <1>3, MovesBecome
<1>4. ASSUME NEW w \in Workers, NEW h \in Employees, NEW m \in Manager, NEW p \in Posts,
             Hire(w, h, m, p)
      PROVE  EventsOnHired' /\ TimelineTells'
  <2>1. /\ h \notin Hired /\ Hired' = Hired \cup {h}
        /\ \A e \in Employees : e # h => profile'[e] = profile[e]
        /\ profile'[h].status = "active"
    BY <1>0, <1>4, HireFacts
  <2>2. UNCHANGED <<events, overtaken>> /\ Hired \subseteq Employees
    BY <1>4 DEF Hire, Hired
  <2> QED
    BY <2>1, <2>2, OthersKeepTimeline
<1>5. ASSUME NEW w \in Workers, NEW E \in SUBSET (Employees \ Hired), NEW p \in Posts,
             NEW boss \in [E -> Manager], Import(w, E, boss, p)
      PROVE  EventsOnHired' /\ TimelineTells'
  <2>1. /\ \A e \in Employees : manager'[e] = IF e \in E THEN boss[e] ELSE manager[e]
        /\ \A e \in E : boss[e] \in Hired \cup E \cup {NoOne}
        /\ \A e \in Employees : profile'[e] =
              IF e \in E THEN [post |-> p, status |-> "active"] ELSE profile[e]
        /\ profile' \in [Employees -> {NoProfile} \cup Profile]
        /\ manager' \in [Employees -> Manager]
        /\ Hired' = Hired \cup E
    BY <1>0, <1>5, AddFacts, Zenon
  <2>2. UNCHANGED <<events, overtaken>> /\ Hired \subseteq Employees
    BY <1>5 DEF Import, Hired
  <2> QED
    BY <2>1, <2>2, OthersKeepTimeline
<1>6. ASSUME NEW w \in Workers, NEW i \in 1 .. MaxEvents, NEW t \in TaskTypes,
             NEW status \in TaskStatus, UpdateTask(w, i, t, status)
      PROVE  EventsOnHired' /\ TimelineTells'
  BY <1>2, <1>6 DEF UpdateTask
<1>7. ASSUME NEW w \in Workers, SaveLine(w)
      PROVE  EventsOnHired' /\ TimelineTells'
  <2>1. Hired' = Hired /\ \A e \in Employees : profile'[e].status = profile[e].status
    BY <1>0, <1>7, SaveFacts
  <2>2. UNCHANGED <<events, overtaken>> /\ Hired \subseteq Employees
    BY <1>7 DEF SaveLine, Hired
  <2> QED
    BY <2>1, <2>2, OthersKeepTimeline
<1>8. ASSUME UNCHANGED vars
      PROVE  EventsOnHired' /\ TimelineTells'
  BY <1>2, <1>8 DEF vars
<1>9. EventsOnHired' /\ TimelineTells'
  BY <1>3, <1>4, <1>5, <1>6, <1>7, <1>8, CommitKeepsTimeline, NextSplits DEF Changes
<1> QED
  BY <1>1, <1>9 DEF TimelineInv

(***************************************************************************)
(* Events and status of an employee tell one story, whatever overlaps,     *)
(* until an event is built from a row that has changed.                    *)
(***************************************************************************)
THEOREM TimelinesAlwaysTell == Spec => []TimelineTells
<1>1. TimelineInv => TimelineTells
  BY DEF TimelineInv
<1> QED
  BY <1>1, TimelineInit, TimelineStep, PTL DEF Spec

-----------------------------------------------------------------------------
(***************************************************************************)
(* Department and title change only to what was asked for.                 *)
(***************************************************************************)
THEOREM PostsOnlyAsAsked == Spec => PostAsAsked
<1> DEFINE Asked == \A e \in Hired \ overtaken' : profile'[e].post # profile[e].post =>
              \E w \in Workers :
                  /\ session[w].pc \in {"walking", "recording"} /\ session'[w] = Idle
                  /\ session[w].emp = e /\ session[w].post = profile'[e].post
<1>1. ASSUME BaseInv, [Next]_vars
      PROVE  Asked
  <2>0. TypeOK /\ Hired \subseteq Employees
    BY <1>1 DEF BaseInv, Hired
  <2>1. ASSUME profile' = profile
        PROVE  Asked
    BY <2>1
  <2>2. ASSUME NEW w \in Workers, NEW h \in Employees, NEW m \in Manager, NEW p \in Posts,
               Hire(w, h, m, p)
        PROVE  Asked
    BY <1>1, <2>0, <2>2, HireFacts
  <2>3. ASSUME NEW w \in Workers, NEW E \in SUBSET (Employees \ Hired), NEW p \in Posts,
               NEW boss \in [E -> Manager], Import(w, E, boss, p)
        PROVE  Asked
    <3>1. \A e \in Hired : profile'[e] = profile[e]
      BY <2>0, <2>3 DEF Import
    <3> QED
      BY <3>1
  <2>4. ASSUME NEW w \in Workers, SaveLine(w)
        PROVE  Asked
    <3>1. /\ \A e \in Employees : e # session[w].emp \/ session[w].post = Keep
                                  => profile'[e] = profile[e]
          /\ session[w].post # Keep => profile'[session[w].emp].post = session[w].post
      BY <1>1, <2>4, SaveFacts
    <3>2. session[w].pc = "walking" /\ session'[w] = Idle
      BY <2>4 DEF SaveLine
    <3> QED
      BY <2>0, <3>1, <3>2
  <2>5. ASSUME NEW w \in Workers, CommitEvent(w)
        PROVE  Asked
    <3> DEFINE s == session[w]
    <3>1. /\ s.emp \in Hired
          /\ profile' = [profile EXCEPT ![s.emp] =
                [post |-> PostAfter(s.post, s.seen.post),
                 status |-> StatusAfter(s.kind, s.seen.status)]]
      BY <1>1, <2>5, CommitFacts
    <3>2. /\ s.pc = "recording" /\ session'[w] = Idle
          /\ overtaken' = IF s.seen # profile[s.emp] THEN overtaken \cup {s.emp} ELSE overtaken
      BY <2>0, <2>5 DEF CommitEvent, Become, TypeOK
    <3>3. s.emp \notin overtaken' => s.seen = profile[s.emp]
      BY <3>2
    <3>4. /\ \A e \in Employees : e # s.emp => profile'[e] = profile[e]
          /\ profile'[s.emp].post = PostAfter(s.post, s.seen.post)
      BY <2>0, <3>1 DEF TypeOK
    <3> HIDE DEF s
    <3>5. s.emp \notin overtaken' /\ profile'[s.emp].post # profile[s.emp].post
            => profile'[s.emp].post = s.post
      BY <3>3, <3>4 DEF PostAfter
    <3> QED
      BY <2>0, <3>2, <3>4, <3>5 DEF s
  <2>6. ASSUME NEW w \in Workers, Moves(w)
        PROVE  Asked
    BY <1>1, <2>1, <2>6, MovesBecome
  <2>7. ASSUME NEW w \in Workers, NEW i \in 1 .. MaxEvents, NEW t \in TaskTypes,
               NEW status \in TaskStatus, UpdateTask(w, i, t, status)
        PROVE  Asked
    BY <2>1, <2>7 DEF UpdateTask
  <2>8. ASSUME UNCHANGED vars
        PROVE  Asked
    BY <2>1, <2>8 DEF vars
  <2> HIDE DEF Asked
  <2> QED
    BY <1>1, <2>2, <2>3, <2>4, <2>5, <2>6, <2>7, <2>8, NextSplits DEF Changes
<1>2. BaseInv /\ [Next]_vars => [Asked]_vars
  BY <1>1
<1> QED
  BY <1>2, BaseInit, BaseStep, PTL DEF Spec, PostAsAsked

-----------------------------------------------------------------------------
(***************************************************************************)
(* Offboarding tasks.  Only tasks of terminations are ever settled, so the *)
(* number of settled tasks says enough.                                    *)
(***************************************************************************)
TasksOfTerminations ==
    \A i \in 1 .. MaxEvents, t \in TaskTypes :
        task[i][t] = "settled" => i \in DOMAIN events /\ events[i].kind = "termination"

TaskInv == BaseInv /\ TasksOfTerminations

LEMMA TaskInit == Init => TaskInv
BY BaseInit DEF Init, TaskInv, TasksOfTerminations

LEMMA TaskStep == TaskInv /\ [Next]_vars => TaskInv'
<1> SUFFICES ASSUME TaskInv, [Next]_vars PROVE TaskInv'
  OBVIOUS
<1>0. BaseInv /\ TypeOK
  BY DEF TaskInv, BaseInv
<1>1. BaseInv'
  BY <1>0, BaseStep
<1>2. ASSUME UNCHANGED <<task, events>>
      PROVE  TasksOfTerminations'
  BY <1>2 DEF TaskInv, TasksOfTerminations
<1>3. ASSUME NEW w \in Workers, CommitEvent(w)
      PROVE  TasksOfTerminations'
  <2> DEFINE s == session[w]
             event == [emp |-> s.emp, kind |-> s.kind, from |-> s.seen.status,
                       to |-> StatusAfter(s.kind, s.seen.status), prepared |-> s.prepared]
  <2>1. events' = Append(events, event) /\ task' = task
    BY <1>3 DEF CommitEvent
  <2> HIDE DEF event
  <2>2. \A i \in DOMAIN events : i \in DOMAIN events' /\ events'[i] = events[i]
    BY <1>0, <2>1 DEF TypeOK
  <2> QED
    BY <2>1, <2>2 DEF TaskInv, TasksOfTerminations
<1>4. ASSUME NEW w \in Workers, NEW i \in 1 .. MaxEvents, NEW t \in TaskTypes,
             NEW status \in TaskStatus, UpdateTask(w, i, t, status)
      PROVE  TasksOfTerminations'
  <2>1. /\ i \in DOMAIN events /\ events[i].kind = "termination" /\ events' = events
        /\ task' = [task EXCEPT ![i][t] = status]
    BY <1>4 DEF UpdateTask
  <2>2. \A k \in 1 .. MaxEvents, u \in TaskTypes : k # i => task'[k][u] = task[k][u]
    BY <1>0, <2>1 DEF TypeOK
  <2> QED
    BY <2>1, <2>2 DEF TaskInv, TasksOfTerminations
<1>5. ASSUME NEW w \in Workers, Moves(w)
      PROVE  TasksOfTerminations'
  BY <1>0, <1>2, <1>5, MovesBecome
<1>6. ASSUME NEW w \in Workers, NEW h \in Employees, NEW m \in Manager, NEW p \in Posts,
             Hire(w, h, m, p)
      PROVE  TasksOfTerminations'
  BY <1>2, <1>6 DEF Hire
<1>7. ASSUME NEW w \in Workers, NEW E \in SUBSET (Employees \ Hired), NEW p \in Posts,
             NEW boss \in [E -> Manager], Import(w, E, boss, p)
      PROVE  TasksOfTerminations'
  BY <1>2, <1>7 DEF Import
<1>8. ASSUME NEW w \in Workers, SaveLine(w)
      PROVE  TasksOfTerminations'
  BY <1>2, <1>8 DEF SaveLine
<1>9. ASSUME UNCHANGED vars
      PROVE  TasksOfTerminations'
  BY <1>2, <1>9 DEF vars
<1>10. TasksOfTerminations'
  BY <1>3, <1>4, <1>5, <1>6, <1>7, <1>8, <1>9, NextSplits DEF Changes
<1> QED
  BY <1>1, <1>10 DEF TaskInv

(***************************************************************************)
(* The count of the verification is enough: as many settled tasks as there *)
(* are terminations and task types are the tasks of the terminations.      *)
(***************************************************************************)
THEOREM VerificationCounts == Spec => []VerifiedMeansSettled
<1>1. TaskInv => VerifiedMeansSettled
  <2> SUFFICES ASSUME TaskInv,
                      Cardinality(SavedSettled) >= Cardinality(Terminations) * Cardinality(TaskTypes)
               PROVE  Terminations \X TaskTypes \subseteq SavedSettled
    BY DEF VerifiedMeansSettled
  <2>1. SavedSettled \subseteq Terminations \X TaskTypes
    BY DEF TaskInv, TasksOfTerminations, SavedSettled, Terminations
  <2>2. IsFiniteSet(Terminations)
    <3>1. Len(events) \in Nat /\ DOMAIN events = 1 .. Len(events)
      BY DEF TaskInv, BaseInv, TypeOK
    <3>2. IsFiniteSet(1 .. Len(events))
      BY <3>1, FS_Interval
    <3> QED
      BY <3>1, <3>2, FS_Subset DEF Terminations
  <2>3. /\ IsFiniteSet(Terminations \X TaskTypes)
        /\ Cardinality(Terminations \X TaskTypes) = Cardinality(Terminations) * Cardinality(TaskTypes)
    BY <2>2, FS_Product, StaffAssumption
  <2>4. /\ Cardinality(SavedSettled) <= Cardinality(Terminations \X TaskTypes)
        /\ Cardinality(SavedSettled) = Cardinality(Terminations \X TaskTypes)
             => SavedSettled = Terminations \X TaskTypes
        /\ IsFiniteSet(SavedSettled)
    BY <2>1, <2>3, FS_Subset
  <2>5. Cardinality(SavedSettled) \in Nat /\ Cardinality(Terminations \X TaskTypes) \in Nat
    BY <2>3, <2>4, FS_CardinalityType
  <2>6. Cardinality(SavedSettled) >= Cardinality(Terminations \X TaskTypes)
    BY <2>3
  <2>7. SavedSettled = Terminations \X TaskTypes
    BY <2>4, <2>5, <2>6
  <2> QED
    BY <2>7
<1> QED
  BY <1>1, TaskInit, TaskStep, PTL DEF Spec

-----------------------------------------------------------------------------
(***************************************************************************)
(* One change of an employee at a time.  An event is built from the row    *)
(* that is still there when it is committed, if no other call that writes  *)
(* this row is in progress between the two; calls about other employees,   *)
(* changes of the manager alone and offboarding tasks may overlap with it. *)
(* FreshInv is inductive as long as that is so.                            *)
(***************************************************************************)
Recorder(s, e) == s.pc \in {"read", "updating", "recording"} /\ s.emp = e
RowWriter(s, e) ==
    \/ Recorder(s, e)
    \/ s.pc = "walking" /\ s.emp = e /\ s.post # Keep

OneChange(e) ==
    \A w, v \in Workers : Recorder(session[w], e) /\ RowWriter(session[v], e) => v = w

SeesRow(s, e) == Recorder(s, e) => s.seen = profile[e]

FreshInv(e) == BaseInv /\ e \notin overtaken /\ \A w \in Workers : SeesRow(session[w], e)

LEMMA FreshInit ==
    ASSUME NEW e \in Employees, Init
    PROVE  FreshInv(e)
BY BaseInit DEF Init, FreshInv, SeesRow, Recorder, Idle

\* A step that leaves the row of e alone, and whoever goes on keeps what was read.
LEMMA RowLeftAlone ==
    ASSUME NEW e \in Employees, FreshInv(e), profile'[e] = profile[e], e \notin overtaken',
           \A w \in Workers : \/ session'[w] = session[w]
                              \/ SeesRow(session[w], e)'
    PROVE  e \notin overtaken' /\ \A w \in Workers : SeesRow(session[w], e)'
BY DEF FreshInv, SeesRow, Recorder

LEMMA MovesKeepFresh ==
    ASSUME NEW e \in Employees, FreshInv(e), NEW w \in Workers, Moves(w)
    PROVE  e \notin overtaken' /\ \A v \in Workers : SeesRow(session[v], e)'
<1>0. BaseInv /\ TypeOK
  BY DEF FreshInv, BaseInv
<1>1. PICK s \in Session :
        /\ Become(w, s)
        /\ UNCHANGED <<manager, profile, events, task, looped, overtaken>>
  BY <1>0, MovesBecome
<1>2. session'[w] = s /\ \A v \in Workers : v # w => session'[v] = session[v]
  BY <1>0, <1>1 DEF Become, TypeOK
<1>3. profile' = profile /\ e \notin overtaken'
  BY <1>1 DEF FreshInv
<1>4. SeesRow(s, e)
  <2>1. ASSUME NEW h \in Employees, NEW kind \in Kinds, NEW p \in Posts \cup {Keep},
               NEW prepared \in SUBSET TaskTypes, ReadEmployee(w, h, kind, p, prepared)
        PROVE  SeesRow(s, e)
    <3>1. s.emp = h /\ s.seen = profile[h]
      BY <1>0, <1>2, <2>1 DEF ReadEmployee, Become, TypeOK
    <3> QED
      BY <3>1 DEF SeesRow, Recorder
  <2>2. ASSUME BeginEvent(w) \/ LockEmployee(w)
        PROVE  SeesRow(s, e)
    <3>1. session[w] \in Recording /\ session[w].pc \in {"read", "updating", "recording"}
      BY <1>0, <2>2, SessionFacts DEF BeginEvent, LockEmployee
    <3>2. s.emp = session[w].emp /\ s.seen = session[w].seen
      BY <1>0, <1>2, <2>2, <3>1 DEF BeginEvent, LockEmployee, Become, TypeOK, Recording
    <3>3. SeesRow(session[w], e)
      BY DEF FreshInv
    <3> QED
      BY <3>1, <3>2, <3>3 DEF SeesRow, Recorder
  <2>3. ASSUME NEW h \in Employees, NEW m \in Manager, NEW p \in Posts \cup {Keep},
               StartWalk(w, h, m, p)
        PROVE  SeesRow(s, e)
    BY <1>0, <1>2, <2>3 DEF StartWalk, Become, TypeOK, SeesRow, Recorder
  <2>4. ASSUME BeginLine(w)
        PROVE  SeesRow(s, e)
    <3>1. session[w] \in Checked
      BY <1>0, <2>4, SessionFacts DEF BeginLine
    <3> QED
      BY <2>3, <2>4, <3>1 DEF BeginLine, Checked
  <2>5. ASSUME VisitManager(w)
        PROVE  SeesRow(s, e)
    <3>1. session[w] \in Walking
      BY <1>0, <2>5, SessionFacts DEF VisitManager
    <3>2. s.pc = "walking"
      BY <1>0, <1>2, <2>5, <3>1 DEF VisitManager, Become, TypeOK, Walking
    <3> QED
      BY <3>2 DEF SeesRow, Recorder
  <2>6. ASSUME \/ RefuseLine(w) \/ TimeOut(w) \/ Abort(w)
               \/ \E h \in Employees, m \in Manager : CheckLine(w, h, m)
        PROVE  SeesRow(s, e)
    BY <1>0, <1>2, <2>6
       DEF RefuseLine, TimeOut, Abort, CheckLine, Become, TypeOK, Idle, SeesRow, Recorder
  <2> QED
    BY <2>1, <2>2, <2>3, <2>4, <2>5, <2>6 DEF Moves, BeginProfile
<1> QED
  BY <1>2, <1>3, <1>4 DEF FreshInv, SeesRow, Recorder

LEMMA ChangesKeepFresh ==
    ASSUME NEW e \in Employees, FreshInv(e), OneChange(e), NEW w \in Workers, Changes(w)
    PROVE  e \notin overtaken' /\ \A v \in Workers : SeesRow(session[v], e)'
<1>0. BaseInv /\ TypeOK /\ e \notin overtaken
  BY DEF FreshInv, BaseInv
<1>1. ASSUME e \notin Hired, NEW v \in Workers
      PROVE  ~Recorder(session[v], e)
  <2>1. session[v] # Idle => session[v].emp \in Hired
    BY DEF FreshInv, BaseInv, CallsAboutHired, AboutHired
  <2> QED
    BY <1>1, <2>1 DEF Recorder, Idle
<1>2. ASSUME NEW h \in Employees, NEW m \in Manager, NEW p \in Posts, Hire(w, h, m, p)
      PROVE  e \notin overtaken' /\ \A v \in Workers : SeesRow(session[v], e)'
  <2>1. h \notin Hired /\ \A o \in Employees : o # h => profile'[o] = profile[o]
    BY <1>0, <1>2, HireFacts
  <2>2. UNCHANGED <<session, overtaken>>
    BY <1>2 DEF Hire
  <2>3. CASE e = h
    BY <1>0, <1>1, <2>1, <2>2, <2>3 DEF SeesRow, Recorder
  <2>4. CASE e # h
    BY <1>0, <2>1, <2>2, <2>4, RowLeftAlone
  <2> QED
    BY <2>3, <2>4
<1>3. ASSUME NEW E \in SUBSET (Employees \ Hired), NEW p \in Posts,
             NEW boss \in [E -> Manager], Import(w, E, boss, p)
      PROVE  e \notin overtaken' /\ \A v \in Workers : SeesRow(session[v], e)'
  <2>1. e \notin E => profile'[e] = profile[e]
    BY <1>3 DEF Import
  <2>2. UNCHANGED <<session, overtaken>>
    BY <1>3 DEF Import
  <2>3. CASE e \in E
    BY <1>0, <1>1, <2>2, <2>3 DEF SeesRow, Recorder
  <2>4. CASE e \notin E
    BY <1>0, <2>1, <2>2, <2>4, RowLeftAlone
  <2> QED
    BY <2>3, <2>4
<1>4. ASSUME NEW i \in 1 .. MaxEvents, NEW t \in TaskTypes, NEW status \in TaskStatus,
             UpdateTask(w, i, t, status)
      PROVE  e \notin overtaken' /\ \A v \in Workers : SeesRow(session[v], e)'
  BY <1>0, <1>4, RowLeftAlone DEF UpdateTask
<1>5. ASSUME SaveLine(w)
      PROVE  e \notin overtaken' /\ \A v \in Workers : SeesRow(session[v], e)'
  <2> DEFINE s == session[w]
  <2>1. /\ s \in Walking /\ s.emp \in Employees
        /\ \A o \in Employees : o # s.emp \/ s.post = Keep => profile'[o] = profile[o]
    BY <1>0, <1>5, SaveFacts DEF Walking
  <2>2. /\ overtaken' = overtaken /\ s.pc = "walking"
        /\ session' = [v \in Workers |->
              IF v = w THEN Idle
              ELSE IF session[v].pc = "walking" /\ s.emp \in session[v].visited
                        /\ s.boss # manager[s.emp]
              THEN [session[v] EXCEPT !.stale = TRUE] ELSE session[v]]
    BY <1>5 DEF SaveLine
  <2>3. ASSUME NEW v \in Workers
        PROVE  \/ session'[v] = session[v]
               \/ session'[v].pc \in {"idle", "walking"} /\ session[v].pc = "walking"
    <3>1. CASE v # w /\ session[v].pc = "walking"
      <4>1. session[v] \in Walking
        BY <1>0, <3>1, SessionFacts
      <4>2. session'[v] = [session[v] EXCEPT !.stale = TRUE] \/ session'[v] = session[v]
        BY <2>2, <3>1
      <4> QED
        BY <3>1, <4>1, <4>2 DEF Walking
    <3>2. CASE v = w
      BY <2>2, <3>2 DEF Idle
    <3>3. CASE v # w /\ session[v].pc # "walking"
      BY <2>2, <3>3
    <3> QED
      BY <3>1, <3>2, <3>3
  <2>4. CASE s.emp = e /\ s.post # Keep
    <3>1. RowWriter(s, e)
      BY <2>2, <2>4 DEF RowWriter
    <3>2. ASSUME NEW v \in Workers
          PROVE  ~Recorder(session[v], e)
      BY <2>2, <3>1 DEF OneChange, Recorder
    <3>3. ASSUME NEW v \in Workers
          PROVE  ~Recorder(session'[v], e)
      BY <2>3, <3>2 DEF Recorder
    <3> QED
      BY <1>0, <2>2, <3>3 DEF SeesRow, Recorder
  <2>5. CASE s.emp # e \/ s.post = Keep
    <3>1. profile'[e] = profile[e]
      BY <2>1, <2>5
    <3>2. \A v \in Workers : session'[v] = session[v] \/ SeesRow(session[v], e)'
      BY <2>3 DEF SeesRow, Recorder
    <3> QED
      BY <1>0, <2>2, <3>1, <3>2, RowLeftAlone
  <2> QED
    BY <2>4, <2>5
<1>6. ASSUME CommitEvent(w)
      PROVE  e \notin overtaken' /\ \A v \in Workers : SeesRow(session[v], e)'
  <2> DEFINE s == session[w]
  <2>1. /\ s \in Recording /\ s.emp \in Employees /\ s.pc = "recording"
        /\ \A o \in Employees : o # s.emp => profile'[o] = profile[o]
    BY <1>0, <1>6, CommitFacts DEF CommitEvent, Recording, TypeOK
  <2>2. /\ overtaken' = IF s.seen # profile[s.emp] THEN overtaken \cup {s.emp} ELSE overtaken
        /\ session' = [session EXCEPT ![w] = Idle]
    BY <1>6 DEF CommitEvent, Become
  <2>3. session'[w] = Idle /\ \A v \in Workers : v # w => session'[v] = session[v]
    BY <1>0, <2>2 DEF TypeOK
  <2>4. SeesRow(s, e)
    BY DEF FreshInv
  <2>5. e \notin overtaken'
    BY <1>0, <2>1, <2>2, <2>4 DEF SeesRow, Recorder
  <2>6. CASE s.emp = e
    <3>1. RowWriter(s, e)
      BY <2>1, <2>6 DEF RowWriter, Recorder
    <3>2. ASSUME NEW v \in Workers
          PROVE  ~Recorder(session'[v], e)
      BY <2>3, <3>1 DEF OneChange, Recorder, Idle
    <3> QED
      BY <2>5, <3>2 DEF SeesRow, Recorder
  <2>7. CASE s.emp # e
    <3>1. SeesRow(session[w], e)'
      BY <2>3 DEF SeesRow, Recorder, Idle
    <3> QED
      BY <2>1, <2>3, <2>5, <2>7, <3>1, RowLeftAlone
  <2> QED
    BY <2>6, <2>7
<1> QED
  BY <1>2, <1>3, <1>4, <1>5, <1>6 DEF Changes

LEMMA FreshStep ==
    ASSUME NEW e \in Employees, FreshInv(e), OneChange(e), [Next]_vars
    PROVE  FreshInv(e)'
<1>1. BaseInv'
  BY BaseStep DEF FreshInv
<1>2. ASSUME UNCHANGED vars
      PROVE  e \notin overtaken' /\ \A v \in Workers : SeesRow(session[v], e)'
  BY <1>2 DEF vars, FreshInv, SeesRow, Recorder
<1>3. e \notin overtaken' /\ \A v \in Workers : SeesRow(session[v], e)'
  BY <1>2, MovesKeepFresh, ChangesKeepFresh, NextSplits
<1> QED
  BY <1>1, <1>3 DEF FreshInv

(***************************************************************************)
(* No event of an employee is ever built from a row that had changed, if   *)
(* no two changes of that employee overlap, whatever else does.            *)
(***************************************************************************)
THEOREM OneChangeNeverOvertaken ==
    ASSUME NEW e \in Employees
    PROVE  Spec /\ []OneChange(e) => [](e \notin overtaken)
<1>1. Init => FreshInv(e)
  BY FreshInit
<1>2. FreshInv(e) /\ OneChange(e) /\ [Next]_vars => FreshInv(e)'
  BY FreshStep
<1>3. FreshInv(e) => e \notin overtaken
  BY DEF FreshInv
<1> QED
  BY <1>1, <1>2, <1>3, PTL DEF Spec

\* The story the timeline of e tells, without excuse.
StoryOf(e) ==
    e \in Hired =>
        /\ LedTo(e, Len(events) + 1, profile[e].status)
        /\ \A i \in EventsOf(e) :
             /\ LedTo(e, i, events[i].from)
             /\ events[i].from # "active" /\ events[i].to = "active" => events[i].kind = "return"

(***************************************************************************)
(* The timeline of an employee whose changes do not overlap tells the      *)
(* story of the status, from the day of hire on.                           *)
(***************************************************************************)
THEOREM OneChangeStoryTold ==
    ASSUME NEW e \in Employees
    PROVE  Spec /\ []OneChange(e) => []StoryOf(e)
<1>1. TimelineTells /\ e \notin overtaken => StoryOf(e)
  BY DEF TimelineTells, StoryOf
<1> QED
  BY <1>1, TimelinesAlwaysTell, OneChangeNeverOvertaken, PTL

\* A step changes the post of e only to what a call about e has asked for.
PostAskedFor(e) ==
    (e \in Hired /\ profile'[e].post # profile[e].post) =>
        \E w \in Workers :
            /\ session[w].pc \in {"walking", "recording"} /\ session'[w] = Idle
            /\ session[w].emp = e /\ session[w].post = profile'[e].post

AllPostsAskedFor ==
    \A e \in Hired \ overtaken' : profile'[e].post # profile[e].post =>
          \E w \in Workers :
              /\ session[w].pc \in {"walking", "recording"} /\ session'[w] = Idle
              /\ session[w].emp = e /\ session[w].post = profile'[e].post

(***************************************************************************)
(* Department and title of an employee whose changes do not overlap become *)
(* only what a call asked for.                                             *)
(***************************************************************************)
THEOREM OneChangePostAsAsked ==
    ASSUME NEW e \in Employees
    PROVE  Spec /\ []OneChange(e) => [][PostAskedFor(e)]_vars
<1>1. Spec => [][AllPostsAskedFor]_vars
  BY PostsOnlyAsAsked DEF PostAsAsked, AllPostsAskedFor
<1>2. Spec /\ []OneChange(e) => [](e \notin overtaken)
  BY OneChangeNeverOvertaken
<1>3. AllPostsAskedFor /\ (e \notin overtaken)' => PostAskedFor(e)
  BY DEF AllPostsAskedFor, PostAskedFor
<1> QED
  BY <1>1, <1>2, <1>3, PTL

-----------------------------------------------------------------------------
(***************************************************************************)
(* One change of a manager at a time, in an organization no larger than    *)
(* the walk of the profile form is long, and files without a cycle: then   *)
(* the lines have no cycle, without excuse.  Checks of the settings page,  *)
(* events, hires and tasks may overlap with the walk.                      *)
(***************************************************************************)
OneWalk ==
    \A w, v \in Workers : session[w].pc = "walking" /\ session[v].pc = "walking" => v = w

SoundFiles ==
    \A w \in Workers, E \in SUBSET (Employees \ Hired), p \in Posts :
        \A boss \in [E -> Manager] : Import(w, E, boss, p) => LoopFree(E, boss)

FreshWalk(s) == s.pc = "walking" => ~s.stale

UnloopedInv == LinesInv /\ ~looped /\ \A w \in Workers : FreshWalk(session[w])

LEMMA UnloopedInit == Init => UnloopedInv
BY LinesInit DEF Init, UnloopedInv, FreshWalk, Idle

LEMMA MovesKeepUnlooped ==
    ASSUME UnloopedInv, NEW w \in Workers, Moves(w)
    PROVE  ~looped' /\ \A v \in Workers : FreshWalk(session[v])'
<1>0. BaseInv /\ TypeOK
  BY DEF UnloopedInv, LinesInv, BaseInv
<1>1. PICK s \in Session :
        /\ Become(w, s)
        /\ UNCHANGED <<manager, profile, events, task, looped, overtaken>>
  BY <1>0, MovesBecome
<1>2. session'[w] = s /\ \A v \in Workers : v # w => session'[v] = session[v]
  BY <1>0, <1>1 DEF Become, TypeOK
<1>3. FreshWalk(s)
  <2>1. ASSUME NEW h \in Employees, NEW m \in Manager, NEW p \in Posts \cup {Keep},
               StartWalk(w, h, m, p)
        PROVE  FreshWalk(s)
    BY <1>0, <1>2, <2>1 DEF StartWalk, Become, TypeOK, FreshWalk
  <2>2. ASSUME BeginLine(w)
        PROVE  FreshWalk(s)
    <3>1. session[w] \in Checked
      BY <1>0, <2>2, SessionFacts DEF BeginLine
    <3> QED
      BY <2>1, <2>2, <3>1 DEF BeginLine, Checked
  <2>3. ASSUME VisitManager(w)
        PROVE  FreshWalk(s)
    <3>1. session[w] \in Walking /\ session[w].pc = "walking"
      BY <1>0, <2>3, SessionFacts DEF VisitManager
    <3>2. s.stale = session[w].stale
      BY <1>0, <1>2, <2>3, <3>1 DEF VisitManager, Become, TypeOK, Walking
    <3> QED
      BY <3>1, <3>2 DEF UnloopedInv, FreshWalk
  <2>4. ASSUME BeginEvent(w) \/ LockEmployee(w)
        PROVE  FreshWalk(s)
    <3>1. session[w] \in Recording
      BY <1>0, <2>4, SessionFacts DEF BeginEvent, LockEmployee
    <3> QED
      BY <1>0, <1>2, <2>4, <3>1 DEF BeginEvent, LockEmployee, Become, TypeOK, Recording, FreshWalk
  <2>5. ASSUME \/ RefuseLine(w) \/ TimeOut(w) \/ Abort(w)
               \/ \E h \in Employees, m \in Manager : CheckLine(w, h, m)
               \/ \E h \in Employees, kind \in Kinds, p \in Posts \cup {Keep},
                     prepared \in SUBSET TaskTypes : ReadEmployee(w, h, kind, p, prepared)
        PROVE  FreshWalk(s)
    BY <1>0, <1>2, <2>5
       DEF RefuseLine, TimeOut, Abort, CheckLine, ReadEmployee, Become, TypeOK, Idle, FreshWalk
  <2> QED
    BY <2>1, <2>2, <2>3, <2>4, <2>5 DEF Moves, BeginProfile
<1> QED
  BY <1>1, <1>2, <1>3 DEF UnloopedInv, FreshWalk

\* A walk in a small organization reaches the end of the line.
LEMMA WalkReachesEnd ==
    ASSUME LinesInv, Cardinality(Employees) <= MaxDepth, NEW w \in Workers,
           session[w].pc = "walking", WalkOver(session[w])
    PROVE  session[w].cursor = NoOne
<1> DEFINE s == session[w]
<1>1. s \in Walking /\ WalkSound(s)
  BY SessionFacts DEF LinesInv, BaseInv, WalksSound
<1>2. s.visited \subseteq Employees /\ s.emp \in Employees /\ s.emp \notin s.visited
  BY <1>1 DEF Walking, WalkSound
<1>3. IsFiniteSet(Employees) /\ MaxDepth \in Nat
  BY StaffAssumption
<1> HIDE DEF s
<1>4. IsFiniteSet(s.visited)
  BY <1>2, <1>3, FS_Subset
<1>5. Cardinality(s.visited) \in Nat /\ Cardinality(Employees) \in Nat
  BY <1>3, <1>4, FS_CardinalityType
<1>6. Cardinality(s.visited) < Cardinality(Employees)
  <2>1. s.visited # Employees
    BY <1>2
  <2>2. /\ Cardinality(s.visited) <= Cardinality(Employees)
        /\ Cardinality(s.visited) = Cardinality(Employees) => s.visited = Employees
    BY <1>2, <1>3, FS_Subset
  <2> QED
    BY <1>5, <2>1, <2>2
<1>7. WalkOver(s)
  BY DEF s
<1> QED
  BY <1>3, <1>5, <1>6, <1>7 DEF WalkOver, s

LEMMA ChangesKeepUnlooped ==
    ASSUME UnloopedInv, Cardinality(Employees) <= MaxDepth, OneWalk, SoundFiles,
           NEW w \in Workers, Changes(w)
    PROVE  ~looped' /\ \A v \in Workers : FreshWalk(session[v])'
<1>0. BaseInv /\ TypeOK
  BY DEF UnloopedInv, LinesInv, BaseInv
<1>1. ASSUME UNCHANGED <<session, looped>>
      PROVE  ~looped' /\ \A v \in Workers : FreshWalk(session[v])'
  BY <1>1 DEF UnloopedInv, FreshWalk
<1>2. ASSUME NEW E \in SUBSET (Employees \ Hired), NEW p \in Posts,
             NEW boss \in [E -> Manager], Import(w, E, boss, p)
      PROVE  ~looped' /\ \A v \in Workers : FreshWalk(session[v])'
  <2>1. LoopFree(E, boss)
    BY <1>2 DEF SoundFiles
  <2>2. looped' = (looped \/ ~LoopFree(E, boss)) /\ session' = session
    BY <1>2 DEF Import
  <2>3. ~looped'
    BY <2>1, <2>2 DEF UnloopedInv
  <2> QED
    BY <2>2, <2>3 DEF UnloopedInv, FreshWalk
<1>3. ASSUME SaveLine(w)
      PROVE  ~looped' /\ \A v \in Workers : FreshWalk(session[v])'
  <2> DEFINE s == session[w]
  <2>1. /\ s.pc = "walking" /\ WalkOver(s)
        /\ looped' = (looped \/ s.stale \/ s.cursor # NoOne)
        /\ session' = [v \in Workers |->
              IF v = w THEN Idle
              ELSE IF session[v].pc = "walking" /\ s.emp \in session[v].visited
                        /\ s.boss # manager[s.emp]
              THEN [session[v] EXCEPT !.stale = TRUE] ELSE session[v]]
    BY <1>3 DEF SaveLine
  <2>2. s.cursor = NoOne
    BY <2>1, WalkReachesEnd DEF UnloopedInv
  <2>3. ~looped'
    <3>1. ~looped /\ FreshWalk(s)
      BY DEF UnloopedInv
    <3> QED
      BY <2>1, <2>2, <3>1 DEF FreshWalk
  <2>4. ASSUME NEW v \in Workers
        PROVE  FreshWalk(session[v])'
    <3>1. v # w => session[v].pc # "walking"
      BY <2>1 DEF OneWalk
    <3>2. session'[v] = IF v = w THEN Idle ELSE session[v]
      BY <2>1, <3>1
    <3> QED
      BY <3>1, <3>2 DEF FreshWalk, Idle
  <2> QED
    BY <2>3, <2>4
<1>4. ASSUME CommitEvent(w)
      PROVE  ~looped' /\ \A v \in Workers : FreshWalk(session[v])'
  <2>1. looped' = looped /\ session' = [session EXCEPT ![w] = Idle]
    BY <1>4 DEF CommitEvent, Become
  <2> QED
    BY <1>0, <2>1 DEF UnloopedInv, FreshWalk, TypeOK, Idle
<1>5. ASSUME \/ \E e \in Employees, m \in Manager, p \in Posts : Hire(w, e, m, p)
             \/ \E i \in 1 .. MaxEvents, t \in TaskTypes, status \in TaskStatus :
                   UpdateTask(w, i, t, status)
      PROVE  ~looped' /\ \A v \in Workers : FreshWalk(session[v])'
  BY <1>1, <1>5 DEF Hire, UpdateTask
<1> QED
  BY <1>2, <1>3, <1>4, <1>5 DEF Changes

LEMMA UnloopedStep ==
    ASSUME UnloopedInv, Cardinality(Employees) <= MaxDepth, OneWalk, [Next /\ SoundFiles]_vars
    PROVE  UnloopedInv'
<1>1. LinesInv'
  BY LinesStep DEF UnloopedInv
<1>2. ASSUME UNCHANGED vars
      PROVE  ~looped' /\ \A v \in Workers : FreshWalk(session[v])'
  BY <1>2 DEF vars, UnloopedInv, FreshWalk
<1>3. ~looped' /\ \A v \in Workers : FreshWalk(session[v])'
  BY <1>2, MovesKeepUnlooped, ChangesKeepUnlooped, NextSplits
<1> QED
  BY <1>1, <1>3 DEF UnloopedInv

(***************************************************************************)
(* Nobody is their own manager over any number of steps, in an             *)
(* organization of at most MaxDepth employees whose manager lines are      *)
(* changed one at a time and whose files have no cycle.                    *)
(***************************************************************************)
THEOREM OneWalkNeverLoops ==
    ASSUME Cardinality(Employees) <= MaxDepth
    PROVE  Spec /\ []OneWalk /\ [][SoundFiles]_vars => []LoopFree(Employees, manager)
<1>1. Init => UnloopedInv
  BY UnloopedInit
<1>2. UnloopedInv /\ OneWalk /\ [Next /\ SoundFiles]_vars => UnloopedInv'
  BY UnloopedStep
<1>3. UnloopedInv => LoopFree(Employees, manager)
  BY DEF UnloopedInv, LinesInv, NoReportingCycle
<1> QED
  BY <1>1, <1>2, <1>3, PTL DEF Spec
=============================================================================
