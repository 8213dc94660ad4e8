------------------------------- MODULE Staff -------------------------------
(***************************************************************************)
(* The employee rows and who writes them: manager lines                    *)
(* (src/server/organization/settings.ts), master profiles and imports      *)
(* (src/server/employees/master.ts, imports.ts), lifecycle events and the  *)
(* offboarding tasks they lead to (lifecycle.ts, offboarding.ts).          *)
(*                                                                         *)
(* A change of a manager walks up the new manager's line, one plain read   *)
(* after the other, and updates the row at the end of the walk.  An event  *)
(* is built from a row read before its transaction, and reads the          *)
(* lifecycle page over a second connection before it commits.  A session   *)
(* below is such a call between two of these statements.  The other calls  *)
(* read nothing that they write and are one step.                          *)
(*                                                                         *)
(* Department and title, which an event and the profile form write back    *)
(* together, changed or not, are one value: the post.  The job position is *)
(* left out.                                                               *)
(* A transfer and a promotion differ only in name, and so do completed and *)
(* waived tasks.                                                           *)
(***************************************************************************)
EXTENDS Integers, FiniteSets, Sequences

CONSTANTS
    Workers,        \* server requests that may be in progress together
    Employees,
    Founders,       \* the employees of the first installation
    Posts,
    TaskTypes,      \* what is to be done for somebody who leaves
    Connections,    \* connection_limit of the database URL
    MaxDepth,       \* how far a profile change walks: 100 in the code
    EventWindow,    \* how many events the lifecycle page shows: 20 in the code
    MaxEvents       \* bounds the events

ASSUME StaffAssumption ==
    /\ IsFiniteSet(Workers) /\ IsFiniteSet(Employees) /\ IsFiniteSet(TaskTypes)
    /\ Founders \subseteq Employees
    /\ Connections \in Nat \ {0} /\ MaxDepth \in Nat
    /\ EventWindow \in Nat /\ MaxEvents \in Nat

VARIABLES
    manager,        \* the manager of each employee
    profile,        \* post and employment status of each employee
    events,         \* the EmployeeLifecycleEvent rows, oldest first
    task,           \* the saved EmployeeOffboardingTask rows of each event
    session,        \* the call each worker has in progress
    looped,         \* history: a line was saved after a walk that was overtaken or
                    \* cut short, or a file with a cycle was imported
    overtaken       \* history: employees with an event built from a row that
                    \* had changed

vars == <<manager, profile, events, task, session, looped, overtaken>>

NoOne == "no one"
Keep == "keep"
Idle == [pc |-> "idle"]
NoProfile == [status |-> "none"]

ASSUME NamesAssumption == NoOne \notin Employees /\ Keep \notin Posts

Status == {"active", "on_leave", "terminated"}
Kinds == {"transfer", "leave", "return", "termination"}
TaskStatus == {"pending", "settled"}
Profile == [post : Posts, status : Status]
Event == [emp : Employees, kind : Kinds, from : Status, to : Status, prepared : SUBSET TaskTypes]

Manager == Employees \cup {NoOne}
Checked == [pc : {"checked"}, emp : Employees, boss : Manager]
Walking ==
    [pc : {"walking"}, emp : Employees, boss : Manager, post : Posts \cup {Keep},
     cursor : Manager, visited : SUBSET Employees, stale : BOOLEAN]
Recording ==
    [pc : {"read", "updating", "recording"}, emp : Employees, kind : Kinds,
     post : Posts \cup {Keep}, prepared : SUBSET TaskTypes, seen : Profile]
Session == {Idle} \cup Checked \cup Walking \cup Recording

TypeOK ==
    /\ manager \in [Employees -> Manager]
    /\ profile \in [Employees -> {NoProfile} \cup Profile]
    /\ events \in Seq(Event)
    /\ task \in [1 .. MaxEvents -> [TaskTypes -> {"none"} \cup TaskStatus]]
    /\ session \in [Workers -> Session]
    /\ looped \in BOOLEAN
    /\ overtaken \subseteq Employees

Hired == {e \in Employees : profile[e] # NoProfile}
Active == {e \in Hired : profile[e].status = "active"}

Init ==
    /\ manager = [e \in Employees |-> NoOne]
    /\ \E post \in [Founders -> Posts] :
         profile = [e \in Employees |->
            IF e \in Founders THEN [post |-> post[e], status |-> "active"] ELSE NoProfile]
    /\ events = <<>>
    /\ task = [i \in 1 .. MaxEvents |-> [t \in TaskTypes |-> "none"]]
    /\ session = [w \in Workers |-> Idle]
    /\ looped = FALSE
    /\ overtaken = {}

\* A transaction keeps its connection, any other statement returns it at once.
FreeConnection ==
    Cardinality({w \in Workers : session[w].pc \in {"walking", "updating", "recording"}})
        < Connections

\* The row an event has updated stays locked until the event is committed.
RowLocked(e) == \E w \in Workers : session[w].pc = "recording" /\ session[w].emp = e

Become(w, s) == session' = [session EXCEPT ![w] = s]

\* Whoever follows managers inside S gets out of it.
LoopFree(S, boss) == \A T \in SUBSET S : T # {} => \E e \in T : boss[e] \notin T

-----------------------------------------------------------------------------
(* updateOrganizationManagerLine, updateEmployeeMasterProfile *)

\* The line above m ends, and e is not in it.
LineEndsWithout(m, e) ==
    m # NoOne => \E V \in SUBSET (Employees \ {e}) :
        /\ m \in V /\ \A v \in V : manager[v] \in V \cup {NoOne}
        /\ LoopFree(V, manager)

\* The settings page checks the lines it has read, before the transaction.
CheckLine(w, e, m) ==
    /\ session[w] = Idle /\ FreeConnection
    /\ e \in Hired /\ m \in Hired \cup {NoOne} /\ m # e
    /\ LineEndsWithout(m, e)
    /\ Become(w, [pc |-> "checked", emp |-> e, boss |-> m])
    /\ UNCHANGED <<manager, profile, events, task, looped, overtaken>>

StartWalk(w, e, m, p) ==
    /\ Become(w, [pc |-> "walking", emp |-> e, boss |-> m, post |-> p,
                  cursor |-> m, visited |-> {}, stale |-> FALSE])
    /\ UNCHANGED <<manager, profile, events, task, looped, overtaken>>

BeginLine(w) ==
    /\ session[w].pc = "checked" /\ FreeConnection
    /\ StartWalk(w, session[w].emp, session[w].boss, Keep)

\* The profile form replaces post and manager, and wants an active manager.
BeginProfile(w, e, m, p) ==
    /\ session[w] = Idle /\ FreeConnection
    /\ e \in Hired /\ m \in Active \cup {NoOne} /\ m # e
    /\ StartWalk(w, e, m, p)

\* Only the profile form limits its walk.
WalkOver(s) ==
    \/ s.cursor = NoOne
    \/ s.post # Keep /\ Cardinality(s.visited) >= MaxDepth

\* Mutant: the employee is not looked for on the line.
VisitThrough(w) ==
    LET s == session[w]
    IN  /\ s.pc = "walking" /\ ~WalkOver(s)
        /\ s.cursor \notin s.visited
        /\ Become(w, [s EXCEPT !.visited = @ \cup {s.cursor}, !.cursor = manager[s.cursor]])
        /\ UNCHANGED <<manager, profile, events, task, looped, overtaken>>

VisitManager(w) ==
    LET s == session[w]
    IN  /\ s.pc = "walking" /\ ~WalkOver(s)
        /\ s.cursor \notin s.visited \cup {s.emp}
        /\ Become(w, [s EXCEPT !.visited = @ \cup {s.cursor}, !.cursor = manager[s.cursor]])
        /\ UNCHANGED <<manager, profile, events, task, looped, overtaken>>

\* "Manager line cannot create a reporting cycle."
RefuseLine(w) ==
    LET s == session[w]
    IN  /\ s.pc = "walking" /\ ~WalkOver(s)
        /\ s.cursor \in s.visited \cup {s.emp}
        /\ Become(w, Idle)
        /\ UNCHANGED <<manager, profile, events, task, looped, overtaken>>

\* Whoever has visited a row with another manager is overtaken.
SaveLine(w) ==
    LET s == session[w]
    IN  /\ s.pc = "walking" /\ WalkOver(s) /\ ~RowLocked(s.emp)
        /\ manager' = [manager EXCEPT ![s.emp] = s.boss]
        /\ profile' = IF s.post = Keep THEN profile ELSE [profile EXCEPT ![s.emp].post = s.post]
        /\ looped' = (looped \/ s.stale \/ s.cursor # NoOne)
        /\ session' = [v \in Workers |->
              IF v = w THEN Idle
              ELSE IF session[v].pc = "walking" /\ s.emp \in session[v].visited
                        /\ s.boss # manager[s.emp]
              THEN [session[v] EXCEPT !.stale = TRUE] ELSE session[v]]
        /\ UNCHANGED <<events, task, overtaken>>

-----------------------------------------------------------------------------
(* createEmployeeMasterProfile, createEmployeeWithAudit, importDbEmployees *)

Hire(w, e, m, p) ==
    /\ session[w] = Idle /\ FreeConnection
    /\ e \notin Hired /\ m \in Active \cup {NoOne}
    /\ manager' = [manager EXCEPT ![e] = m]
    /\ profile' = [profile EXCEPT ![e] = [post |-> p, status |-> "active"]]
    /\ UNCHANGED <<events, task, session, looped, overtaken>>

\* A row of the file may name somebody else in the file as the manager.
Import(w, E, boss, p) ==
    /\ session[w] = Idle /\ FreeConnection
    /\ E # {} /\ E \cap Hired = {}
    /\ \A e \in E : boss[e] \in (Hired \cup E \cup {NoOne}) \ {e}
    /\ manager' = [e \in Employees |-> IF e \in E THEN boss[e] ELSE manager[e]]
    /\ profile' = [e \in Employees |->
          IF e \in E THEN [post |-> p, status |-> "active"] ELSE profile[e]]
    /\ looped' = (looped \/ ~LoopFree(E, boss))
    /\ UNCHANGED <<events, task, session, overtaken>>

-----------------------------------------------------------------------------
(* recordLifecycleEvent *)

\* Mutant: whoever is transferred is active again.
StatusAfterAny(kind, status) ==
    CASE kind = "termination" -> "terminated"
      [] kind = "leave" -> "on_leave"
      [] OTHER -> "active"

StatusAfter(kind, status) ==
    CASE kind = "termination" -> "terminated"
      [] kind = "leave" -> "on_leave"
      [] kind = "return" -> "active"
      [] OTHER -> status

\* The bound on the events.
MayRecord ==
    Len(events) + Cardinality({w \in Workers : session[w] \in Recording}) < MaxEvents

ReadEmployee(w, e, kind, p, prepared) ==
    /\ session[w] = Idle /\ FreeConnection
    /\ e \in Hired /\ MayRecord
    /\ kind # "termination" => prepared = {}
    /\ Become(w, [pc |-> "read", emp |-> e, kind |-> kind, post |-> p,
                  prepared |-> prepared, seen |-> profile[e]])
    /\ UNCHANGED <<manager, profile, events, task, looped, overtaken>>

BeginEvent(w) ==
    /\ session[w].pc = "read" /\ FreeConnection
    /\ Become(w, [session[w] EXCEPT !.pc = "updating"])
    /\ UNCHANGED <<manager, profile, events, task, looped, overtaken>>

\* The update of the row, not yet visible, and the insert of the event.
LockEmployee(w) ==
    /\ session[w].pc = "updating" /\ ~RowLocked(session[w].emp)
    /\ Become(w, [session[w] EXCEPT !.pc = "recording"])
    /\ UNCHANGED <<manager, profile, events, task, looped, overtaken>>

\* Mutant: what was not asked for is written as well.
PostAsInput(asked, post) == asked

\* Mutant: an event that asks for no post resets it.
PostReset(asked, post) == IF asked = Keep THEN CHOOSE p \in Posts : TRUE ELSE asked

PostAfter(asked, post) == IF asked = Keep THEN post ELSE asked

\* Before the commit the page is read again, over another connection.
CommitEvent(w) ==
    LET s == session[w]
        status == StatusAfter(s.kind, s.seen.status)
    IN  /\ s.pc = "recording" /\ FreeConnection
        /\ profile' = [profile EXCEPT ![s.emp] =
              [post |-> PostAfter(s.post, s.seen.post), status |-> status]]
        /\ events' = Append(events, [emp |-> s.emp, kind |-> s.kind, from |-> s.seen.status,
                                     to |-> status, prepared |-> s.prepared])
        /\ overtaken' = IF s.seen # profile[s.emp] THEN overtaken \cup {s.emp} ELSE overtaken
        /\ Become(w, Idle)
        /\ UNCHANGED <<manager, task, looped>>

\* Mutant: a transaction may take as long as it wants.
TimeOutNever(w) ==
    /\ session[w].pc = "recording" /\ FreeConnection /\ ~FreeConnection
    /\ UNCHANGED vars

\* No connection comes free: the transaction times out and is rolled back.
TimeOut(w) ==
    /\ session[w].pc = "recording" /\ ~FreeConnection
    /\ Become(w, Idle)
    /\ UNCHANGED <<manager, profile, events, task, looped, overtaken>>

-----------------------------------------------------------------------------
(* updateOffboardingTask *)

\* Mutant: the event need not be a termination.
UpdateAnyTask(w, i, t, status) ==
    /\ session[w] = Idle /\ FreeConnection
    /\ i \in DOMAIN events
    /\ task' = [task EXCEPT ![i][t] = status]
    /\ UNCHANGED <<manager, profile, events, session, looped, overtaken>>

UpdateTask(w, i, t, status) ==
    /\ session[w] = Idle /\ FreeConnection
    /\ i \in DOMAIN events /\ events[i].kind = "termination"
    /\ task' = [task EXCEPT ![i][t] = status]
    /\ UNCHANGED <<manager, profile, events, session, looped, overtaken>>

-----------------------------------------------------------------------------
\* A statement fails or the server stops: the transaction is rolled back.
Abort(w) ==
    /\ session[w] # Idle
    /\ Become(w, Idle)
    /\ UNCHANGED <<manager, profile, events, task, looped, overtaken>>

Begin(w) ==
    \/ \E e \in Employees, m \in Manager : CheckLine(w, e, m)
    \/ \E e \in Employees, m \in Manager, p \in Posts : BeginProfile(w, e, m, p)
    \/ \E e \in Employees, m \in Manager, p \in Posts : Hire(w, e, m, p)
    \/ \E E \in SUBSET (Employees \ Hired), p \in Posts :
          \E boss \in [E -> Manager] : Import(w, E, boss, p)
    \/ \E e \in Employees, kind \in Kinds, p \in Posts \cup {Keep}, prepared \in SUBSET TaskTypes :
          ReadEmployee(w, e, kind, p, prepared)
    \/ \E i \in 1 .. MaxEvents, t \in TaskTypes, status \in TaskStatus : UpdateTask(w, i, t, status)

Proceed(w) ==
    \/ BeginLine(w) \/ VisitManager(w) \/ RefuseLine(w) \/ SaveLine(w)
    \/ BeginEvent(w) \/ LockEmployee(w) \/ CommitEvent(w) \/ TimeOut(w)

Next == \E w \in Workers : Begin(w) \/ Proceed(w) \/ Abort(w)

Spec == Init /\ [][Next]_vars

(***************************************************************************)
(* A call runs on, and whoever waits for a connection or a row gets it in  *)
(* turn: the pool and the locks are queues.                                *)
(***************************************************************************)
Fairness == \A w \in Workers : SF_vars(Proceed(w))

-----------------------------------------------------------------------------
(* Properties *)

(***************************************************************************)
(* README.md:39, "blocks self-manager or cyclic reporting lines before     *)
(* saving": nobody is their own manager over any number of steps, unless a *)
(* line read by a walk changed before it was saved, the walk of the        *)
(* profile form was cut short, or a file that had a cycle was imported.    *)
(***************************************************************************)
NoReportingCycle == ~looped => LoopFree(Employees, manager)

EventsOf(e) == {i \in DOMAIN events : events[i].emp = e}

\* The last event of e before the i-th led to this status.
LedTo(e, i, status) ==
    LET earlier == {j \in EventsOf(e) : j < i}
    IN  \/ earlier = {} /\ status = "active"
        \/ \E j \in earlier : (\A k \in earlier : k <= j) /\ events[j].to = status

(***************************************************************************)
(* The timeline of an employee tells the story of the status: each event   *)
(* starts from the status the one before led to, the last one led to the   *)
(* status the row has, and only a return ends a leave or a termination,    *)
(* unless an event was built from a row that had changed since.            *)
(***************************************************************************)
TimelineTells ==
    \A e \in Hired \ overtaken :
        /\ LedTo(e, Len(events) + 1, profile[e].status)
        /\ \A i \in EventsOf(e) :
             /\ LedTo(e, i, events[i].from)
             /\ events[i].from # "active" /\ events[i].to = "active" => events[i].kind = "return"

(***************************************************************************)
(* Department and title change only to what the call that changes them     *)
(* asked for: an event that asks for none keeps those of a profile form    *)
(* saved before, unless it was built from a row that had changed since.    *)
(***************************************************************************)
PostAsAsked ==
    [][\A e \in Hired \ overtaken' : profile'[e].post # profile[e].post =>
          \E w \in Workers :
              /\ session[w].pc \in {"walking", "recording"} /\ session'[w] = Idle
              /\ session[w].emp = e /\ session[w].post = profile'[e].post]_vars

Terminations == {i \in DOMAIN events : events[i].kind = "termination"}
SavedSettled == {k \in (1 .. MaxEvents) \X TaskTypes : task[k[1]][k[2]] = "settled"}

(***************************************************************************)
(* README.md:404, "completed or waived offboarding tasks for every         *)
(* termination event": the verification only counts, yet when its two      *)
(* counts match, every task of every termination is settled.               *)
(***************************************************************************)
VerifiedMeansSettled ==
    Cardinality(SavedSettled) >= Cardinality(Terminations) * Cardinality(TaskTypes) =>
        Terminations \X TaskTypes \subseteq SavedSettled

(***************************************************************************)
(* Every call ends: no walk goes round for ever, over lines that loop or   *)
(* are changed meanwhile, and calls that wait for each other's connection  *)
(* or row do not wait for ever.                                            *)
(***************************************************************************)
CallsEnd == \A w \in Workers : session[w] # Idle ~> session[w] = Idle

\* The offboarding page shows the terminations among the events of the lifecycle page.
Shown == {i \in Terminations : i > Len(events) - EventWindow}
Settled(i, t) ==
    \/ task[i][t] = "settled"
    \/ task[i][t] = "none" /\ t \in events[i].prepared

(***************************************************************************)
(* README.md:404: the launch gate, which asks the offboarding page, is     *)
(* ready only if the tasks of every termination event are settled.         *)
(***************************************************************************)
ReadyMeansSettled ==
    (\A i \in Shown, t \in TaskTypes : Settled(i, t)) =>
        \A i \in Terminations, t \in TaskTypes : Settled(i, t)
=============================================================================
