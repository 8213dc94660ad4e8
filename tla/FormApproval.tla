---------------------------- MODULE FormApproval ----------------------------
(***************************************************************************)
(* Custom forms: createCustomFormSubmission and the custom form branch of  *)
(* decideApproval in src/server/workflows/service.ts, with the step        *)
(* selection of workflow-engine.ts.                                        *)
(*                                                                         *)
(* As in LeaveApproval a decision is a READ COMMITTED transaction: the     *)
(* approver's task is read without a lock (ReadTask), updated by its id,   *)
(* which waits for the row lock, the submission is read after that         *)
(* (LockTask), and the rest is visible at the commit (DecideForm).         *)
(***************************************************************************)
EXTENDS Integers, Sequences, FiniteSets

CONSTANTS
    Workers,        \* server requests that may be in progress together
    Submissions,    \* identifiers of submissions: bounds their number
    Employees,
    HrAdmins,       \* employees whose user has the hr_admin role
    ManagerOf,      \* the managers with an account of each employee: none or one
    Templates,      \* active templates
    StepTypes,      \* per template, the approver type of each workflow step
    Conditions      \* per template, the steps with a condition on the answers

ApproverTypes == {"direct_manager", "hr_admin"}
Actions == {"approve", "reject"}
RequestStatus == {"pending", "approved", "rejected"}

ASSUME PeopleAssumption ==
    HrAdmins \subseteq Employees /\ ManagerOf \in [Employees -> SUBSET Employees]
ASSUME TemplatesAssumption ==
    StepTypes \in [Templates -> Seq(ApproverTypes)] /\ Conditions \in [Templates -> SUBSET Nat]

VARIABLES
    submission,     \* the FormSubmission rows
    tasks,          \* the ApprovalTask rows of each submission, oldest first
    events,         \* the decisions in the trail of each submission
    session,        \* the call each worker has in progress
    crossed         \* history: two decisions of one task overlapped

vars == <<submission, tasks, events, session, crossed>>

Idle == [pc |-> "idle"]
NoSubmission == [status |-> "none"]

Step(t) == DOMAIN StepTypes[t]
StepOrders == UNION {Step(t) : t \in Templates}
Form == [status : RequestStatus, by : Employees, template : Templates,
         answers : SUBSET StepOrders, step : StepOrders]
Task == [approver : Employees, status : RequestStatus]
Decision == [task : Nat \ {0}, status : RequestStatus, by : Employees]

Deciding == [pc : {"deciding"}, sub : Submissions, task : Nat \ {0}, by : Employees,
             action : Actions, saw : RequestStatus]
Settling == [pc : {"settling"}, sub : Submissions, task : Nat \ {0}, by : Employees,
             action : Actions, saw : RequestStatus, seen : Form]

TypeOK ==
    /\ submission \in [Submissions -> {NoSubmission} \cup Form]
    /\ tasks \in [Submissions -> Seq(Task)]
    /\ events \in [Submissions -> Seq(Decision)]
    /\ session \in [Workers -> {Idle} \cup Deciding \cup Settling]
    /\ crossed \in [Submissions -> BOOLEAN]

Init ==
    /\ submission = [s \in Submissions |-> NoSubmission]
    /\ tasks = [s \in Submissions |-> <<>>]
    /\ events = [s \in Submissions |-> <<>>]
    /\ session = [w \in Workers |-> Idle]
    /\ crossed = [s \in Submissions |-> FALSE]

-----------------------------------------------------------------------------
(* workflow-engine.ts *)

\* stepConditionMatches: "answers" are the steps whose condition the form meets.
Required(form) == {i \in Step(form.template) :
                      i \in Conditions[form.template] => i \in form.answers}

\* Mutant: the next step whatever the answers.
NextStepsUnconditional(form) ==
    {i \in Step(form.template) :
        i > form.step /\ \A j \in Step(form.template) : j > form.step => i <= j}

\* findNextWorkflowStep: the least one beyond the current step, or none.
NextSteps(form) ==
    {i \in Required(form) : i > form.step /\ \A j \in Required(form) : j > form.step => i <= j}

FirstSteps(form) == {i \in Required(form) : \A j \in Required(form) : i <= j}

(***************************************************************************)
(* getApproverForWorkflowStep: any HR administrator, or the manager of the *)
(* employee who is acting.                                                 *)
(***************************************************************************)
Approvers(type, actor) == IF type = "hr_admin" THEN HrAdmins ELSE ManagerOf[actor]

-----------------------------------------------------------------------------
(* createCustomFormSubmission *)

SubmitForm(w, s, e, t, answers, step, approver) ==
    LET form == [status |-> "pending", by |-> e, template |-> t,
                 answers |-> answers, step |-> step]
    IN  /\ session[w] = Idle
        /\ submission[s] = NoSubmission
        /\ step \in FirstSteps(form)
        /\ approver \in Approvers(StepTypes[t][step], e)
        /\ submission' = [submission EXCEPT ![s] = form]
        /\ tasks' = [tasks EXCEPT ![s] = <<[approver |-> approver, status |-> "pending"]>>]
        /\ UNCHANGED <<events, session, crossed>>

-----------------------------------------------------------------------------
(* decideApproval and decideCustomFormApproval *)

\* Mutant: nextApprovalStatus without its check.
ReadAnyTask(w, s, i, action) ==
    /\ session[w] = Idle
    /\ i \in DOMAIN tasks[s]
    /\ session' = [session EXCEPT ![w] =
                     [pc |-> "deciding", sub |-> s, task |-> i, by |-> tasks[s][i].approver,
                      action |-> action, saw |-> tasks[s][i].status]]
    /\ UNCHANGED <<submission, tasks, events, crossed>>

(***************************************************************************)
(* findFirst by request and approver: any of the tasks this employee has   *)
(* for the submission, which must be pending.                              *)
(***************************************************************************)
ReadTask(w, s, i, action) ==
    /\ session[w] = Idle
    /\ i \in DOMAIN tasks[s]
    /\ tasks[s][i].status = "pending"
    /\ session' = [session EXCEPT ![w] =
                     [pc |-> "deciding", sub |-> s, task |-> i, by |-> tasks[s][i].approver,
                      action |-> action, saw |-> tasks[s][i].status]]
    /\ UNCHANGED <<submission, tasks, events, crossed>>

TaskLocked(s, i) ==
    \E v \in Workers : session[v].pc = "settling" /\ session[v].sub = s /\ session[v].task = i

LockTask(w) ==
    LET c == session[w]
    IN  /\ c.pc = "deciding"
        /\ ~TaskLocked(c.sub, c.task)
        /\ session' = [session EXCEPT ![w] =
                         [pc |-> "settling", sub |-> c.sub, task |-> c.task, by |-> c.by,
                          action |-> c.action, saw |-> c.saw, seen |-> submission[c.sub]]]
        /\ UNCHANGED <<submission, tasks, events, crossed>>

\* Mutant: the trail records the action instead of the status it leads to.
CommitAction(w, status, routed) ==
    LET c == session[w]
    IN  /\ tasks' = [tasks EXCEPT ![c.sub] =
                       [tasks[c.sub] EXCEPT ![c.task].status = status] \o routed]
        /\ events' = [events EXCEPT ![c.sub] =
                        Append(events[c.sub], [task |-> c.task, status |-> c.action, by |-> c.by])]
        /\ crossed' = [crossed EXCEPT ![c.sub] =
                         crossed[c.sub] \/ tasks[c.sub][c.task].status # c.saw]
        /\ session' = [session EXCEPT ![w] = Idle]

\* The task row, the trail and the end of the call, common to all decisions.
Commit(w, status, routed) ==
    LET c == session[w]
    IN  /\ tasks' = [tasks EXCEPT ![c.sub] =
                       [tasks[c.sub] EXCEPT ![c.task].status = status] \o routed]
        /\ events' = [events EXCEPT ![c.sub] =
                        Append(events[c.sub], [task |-> c.task, status |-> status, by |-> c.by])]
        /\ crossed' = [crossed EXCEPT ![c.sub] =
                         crossed[c.sub] \/ tasks[c.sub][c.task].status # c.saw]
        /\ session' = [session EXCEPT ![w] = Idle]

RejectForm(w) ==
    LET c == session[w]
    IN  /\ c.pc = "settling" /\ c.action = "reject"
        /\ submission' = [submission EXCEPT ![c.sub].status = "rejected"]
        /\ Commit(w, "rejected", <<>>)

ApproveForm(w) ==
    LET c == session[w]
    IN  /\ c.pc = "settling" /\ c.action = "approve"
        /\ NextSteps(c.seen) = {}
        /\ submission' = [submission EXCEPT ![c.sub].status = "approved"]
        /\ Commit(w, "approved", <<>>)

\* The form goes on to its next step; without an approver for it the call fails.
RouteForm(w, step, approver) ==
    LET c == session[w]
    IN  /\ c.pc = "settling" /\ c.action = "approve"
        /\ step \in NextSteps(c.seen)
        /\ approver \in Approvers(StepTypes[c.seen.template][step], c.by)
        /\ submission' = [submission EXCEPT ![c.sub] =
                           [submission[c.sub] EXCEPT !.status = "pending", !.step = step]]
        /\ Commit(w, "approved", <<[approver |-> approver, status |-> "pending"]>>)

\* Mutant: no transaction, so the update of the task outlives a failed call.
AbortKeepingTask(w) ==
    LET c == session[w]
    IN  /\ c # Idle
        /\ tasks' = IF c.pc = "deciding" THEN tasks
                    ELSE [tasks EXCEPT ![c.sub][c.task].status = "approved"]
        /\ session' = [session EXCEPT ![w] = Idle]
        /\ UNCHANGED <<submission, events, crossed>>

\* A statement fails or the server stops: the transaction is rolled back.
Abort(w) ==
    /\ session[w] # Idle
    /\ session' = [session EXCEPT ![w] = Idle]
    /\ UNCHANGED <<submission, tasks, events, crossed>>

-----------------------------------------------------------------------------
Submit(w) ==
    \E s \in Submissions, e \in Employees, t \in Templates :
        \E answers \in SUBSET (Step(t) \cap Conditions[t]), step \in Step(t),
           approver \in Employees :
               SubmitForm(w, s, e, t, answers, step, approver)

Decide(w) ==
    \/ \E s \in Submissions, action \in Actions :
           \E i \in DOMAIN tasks[s] : ReadTask(w, s, i, action)
    \/ LockTask(w)
    \/ RejectForm(w) \/ ApproveForm(w)
    \/ \E step \in StepOrders, approver \in Employees : RouteForm(w, step, approver)

Next == \E w \in Workers : Submit(w) \/ Decide(w) \/ Abort(w)

Spec == Init /\ [][Next]_vars

-----------------------------------------------------------------------------
(* Properties *)

Filed(s) == submission[s] # NoSubmission

(***************************************************************************)
(* Submission, tasks and trail tell one story, as long as no two decisions *)
(* of a task overlapped: every task before the last is approved, the last  *)
(* one shows the status of the submission, and the trail has one decision  *)
(* of each decided task, in their order, by its approver.                  *)
(***************************************************************************)
ChainAgrees ==
    \A s \in Submissions : Filed(s) /\ ~crossed[s] =>
        LET last == Len(tasks[s])
            decided == IF submission[s].status = "pending" THEN last - 1 ELSE last
        IN  /\ tasks[s][last].status = submission[s].status
            /\ \A i \in 1 .. last - 1 : tasks[s][i].status = "approved"
            /\ events[s] = [i \in 1 .. decided |->
                              [task |-> i, status |-> tasks[s][i].status,
                               by |-> tasks[s][i].approver]]

(***************************************************************************)
(* A step of a form is at its right approver, and every required step      *)
(* before it has been approved by its own: the task list is as long as the *)
(* required steps up to the current one.                                   *)
(***************************************************************************)
RoutedInOrder ==
    \A s \in Submissions : Filed(s) /\ ~crossed[s] =>
        LET form == submission[s]
            type == StepTypes[form.template][form.step]
            reached == {i \in Required(form) : i <= form.step}
            approver == tasks[s][Len(tasks[s])].approver
        IN  /\ form.step \in Required(form)
            /\ Cardinality(reached) = Len(tasks[s])
            /\ type = "hr_admin" => approver \in HrAdmins
            /\ Len(tasks[s]) = 1 => approver \in Approvers(type, form.by)

-----------------------------------------------------------------------------
(* The abstract review *)

reviewBar ==
    [s \in Submissions |->
       IF ~Filed(s) THEN [state |-> "none", todo |-> {}]
       ELSE [state |-> submission[s].status,
             todo |-> IF submission[s].status = "approved" THEN {}
                      ELSE {i \in Required(submission[s]) : i >= submission[s].step}]]

Review == INSTANCE FormReview WITH review <- reviewBar

(***************************************************************************)
(* Up to the first overlapping pair of decisions every step is a step of   *)
(* the abstract review or changes nothing it shows: no review is skipped,  *)
(* none is given twice, and a decided form stays decided.                  *)
(***************************************************************************)
ReviewUntilCrossed ==
    [][(\A s \in Submissions : ~crossed'[s]) => [Review!Next]_reviewBar]_vars

(***************************************************************************)
(* README.md:398: a form whose answers match the condition is routed to    *)
(* HR: it is approved only with an approved task of every required step.   *)
(***************************************************************************)
EveryReviewGiven ==
    \A s \in Submissions : Filed(s) /\ submission[s].status = "approved" =>
        Cardinality({i \in DOMAIN tasks[s] : tasks[s][i].status = "approved"})
            >= Cardinality(Required(submission[s]))
=============================================================================
