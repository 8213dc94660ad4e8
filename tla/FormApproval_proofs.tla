------------------------ MODULE FormApproval_proofs ------------------------
(***************************************************************************)
(* Proofs about FormApproval, for any number of calls, submissions and     *)
(* people, and for any templates.                                          *)
(***************************************************************************)
EXTENDS FormApproval, FiniteSetTheorems, SequenceTheorems, WellFoundedInduction, TLAPS

-----------------------------------------------------------------------------
(***************************************************************************)
(* The two properties, for one submission: its tasks and trail agree with  *)
(* it, and its tasks are those of the steps up to the current one.         *)
(***************************************************************************)
Trail(chain, decided) ==
    [i \in 1 .. decided |-> [task |-> i, status |-> chain[i].status, by |-> chain[i].approver]]

Story(form, chain, trail) ==
    LET last == Len(chain)
    IN  /\ last >= 1
        /\ chain[last].status = form.status
        /\ \A i \in 1 .. last - 1 : chain[i].status = "approved"
        /\ trail = Trail(chain, IF form.status = "pending" THEN last - 1 ELSE last)

Way(form, chain) ==
    LET type == StepTypes[form.template][form.step]
        approver == chain[Len(chain)].approver
    IN  /\ form.step \in Required(form)
        /\ Cardinality({i \in Required(form) : i <= form.step}) = Len(chain)
        /\ type = "hr_admin" => approver \in HrAdmins
        /\ Len(chain) = 1 => approver \in Approvers(type, form.by)

Told(s) ==
    IF Filed(s) THEN ~crossed[s] => Story(submission[s], tasks[s], events[s]) /\ Way(submission[s], tasks[s])
    ELSE tasks[s] = <<>> /\ events[s] = <<>>

\* The submission a call has read is the current one as long as its task is open.
CallSound(c) ==
    /\ Filed(c.sub) /\ c.task \in 1 .. Len(tasks[c.sub])
    /\ c.by = tasks[c.sub][c.task].approver
    /\ c.saw = "pending"
    /\ c.pc = "settling" /\ ~crossed[c.sub] /\ tasks[c.sub][c.task].status = "pending" =>
         c.seen = submission[c.sub]

OneSettles ==
    \A v, w \in Workers :
        v # w /\ session[v].pc = "settling" /\ session[w].pc = "settling" =>
            session[v].sub # session[w].sub \/ session[v].task # session[w].task

FormInv ==
    /\ TypeOK
    /\ \A s \in Submissions : Told(s)
    /\ \A w \in Workers : session[w] # Idle => CallSound(session[w])
    /\ OneSettles

LEMMA InvImplies == FormInv => TypeOK /\ ChainAgrees /\ RoutedInOrder
<1> SUFFICES ASSUME FormInv PROVE TypeOK /\ ChainAgrees /\ RoutedInOrder
  OBVIOUS
<1>1. ChainAgrees
  BY DEF FormInv, Told, Story, Trail, ChainAgrees
<1>2. RoutedInOrder
  BY DEF FormInv, Told, Way, RoutedInOrder
<1> QED
  BY <1>1, <1>2 DEF FormInv

-----------------------------------------------------------------------------
(* Steps of a template. *)

LEMMA StepsBounded ==
    ASSUME NEW t \in Templates
    PROVE  /\ Step(t) \subseteq Nat \ {0} /\ Step(t) \subseteq StepOrders /\ IsFiniteSet(Step(t))
           /\ \A i \in Step(t) : StepTypes[t][i] \in ApproverTypes
<1>1. StepTypes[t] \in Seq(ApproverTypes)
  BY TemplatesAssumption
<1>2. Step(t) = 1 .. Len(StepTypes[t]) /\ Len(StepTypes[t]) \in Nat
  BY <1>1 DEF Step
<1>3. IsFiniteSet(1 .. Len(StepTypes[t]))
  BY <1>2, FS_Interval
<1>4. Step(t) \subseteq StepOrders
  BY DEF StepOrders
<1>5. \A i \in Step(t) : StepTypes[t][i] \in ApproverTypes
  BY <1>1, <1>2
<1> QED
  BY <1>2, <1>3, <1>4, <1>5

LEMMA RequiredBounded ==
    ASSUME NEW form, form.template \in Templates
    PROVE  /\ Required(form) \subseteq Step(form.template)
           /\ Required(form) \subseteq Nat \ {0} /\ Required(form) \subseteq StepOrders
           /\ \A n : IsFiniteSet({i \in Required(form) : i <= n})
<1>1. Required(form) \subseteq Step(form.template)
  BY DEF Required
<1>2. ASSUME NEW n
      PROVE  IsFiniteSet({i \in Required(form) : i <= n})
  <2>1. {i \in Required(form) : i <= n} \in SUBSET Step(form.template)
    BY <1>1
  <2> QED
    BY <2>1, StepsBounded, FS_Subset
<1> QED
  BY <1>1, <1>2, StepsBounded

LEMMA Least ==
    ASSUME NEW T, T \subseteq Nat, T # {}
    PROVE  \E x \in T : \A y \in T : x <= y
<1>1. IsWellFoundedOn(OpToRel(<,Nat), Nat)
  BY NatLessThanWellFounded
<1>2. PICK x \in T : \A y \in T : ~ (<<y, x>> \in OpToRel(<,Nat))
  BY <1>1, WFMin
<1>3. \A y \in T : ~ (y < x)
  BY <1>2 DEF OpToRel
<1> QED
  BY <1>3

\* Only after the last required step there is no next one.
LEMMA NoNextStep ==
    ASSUME NEW form, form.template \in Templates, form.step \in Nat, NextSteps(form) = {}
    PROVE  \A i \in Required(form) : i <= form.step
<1> SUFFICES ASSUME NEW k \in Required(form), ~(k <= form.step)
             PROVE  FALSE
  OBVIOUS
<1> DEFINE beyond == {i \in Required(form) : i > form.step}
<1>1. beyond \subseteq Nat /\ k \in beyond
  BY RequiredBounded
<1>2. PICK i \in beyond : \A j \in beyond : i <= j
  BY <1>1, Least
<1>3. i \in NextSteps(form)
  BY <1>2 DEF NextSteps
<1> QED
  BY <1>3

LEMMA ApproversEmployed ==
    ASSUME NEW type, NEW actor \in Employees
    PROVE  Approvers(type, actor) \subseteq Employees
BY PeopleAssumption DEF Approvers

-----------------------------------------------------------------------------
(* One submission from decision to decision. *)

\* "next" is the chain with its task i decided and what is routed after it.
Extends(next, chain, i, status, routed) ==
    /\ next \in Seq(Task) /\ Len(next) = Len(chain) + Len(routed)
    /\ \A k \in 1 .. Len(chain) :
         /\ next[k].approver = chain[k].approver
         /\ next[k].status = IF k = i THEN status ELSE chain[k].status
    /\ \A k \in 1 .. Len(routed) : next[Len(chain) + k] = routed[k]

LEMMA ChainExtended ==
    ASSUME NEW chain \in Seq(Task), NEW i \in 1 .. Len(chain), NEW status \in RequestStatus,
           NEW routed \in Seq(Task)
    PROVE  Extends([chain EXCEPT ![i].status = status] \o routed, chain, i, status, routed)
<1> DEFINE decided == [chain EXCEPT ![i].status = status]
           task == [chain[i] EXCEPT !.status = status]
<1>1. \A k \in 1 .. Len(chain) : chain[k] \in Task
  OBVIOUS
<1>2. task \in Task /\ task.status = status /\ task.approver = chain[i].approver
  BY <1>1 DEF Task
<1>3. decided = [chain EXCEPT ![i] = task]
  OBVIOUS
<1> HIDE DEF task, decided
<1>4. /\ decided \in Seq(Task) /\ Len(decided) = Len(chain)
      /\ \A k \in 1 .. Len(chain) : decided[k] = IF k = i THEN task ELSE chain[k]
  BY <1>2, <1>3, ExceptSeq
<1>5. /\ decided \o routed \in Seq(Task) /\ Len(decided \o routed) = Len(decided) + Len(routed)
      /\ \A k \in 1 .. Len(decided) + Len(routed) :
           (decided \o routed)[k] = IF k <= Len(decided) THEN decided[k] ELSE routed[k - Len(decided)]
  BY <1>4, ConcatProperties
<1>6. Len(chain) \in Nat /\ Len(routed) \in Nat
  OBVIOUS
<1>7. \A k \in 1 .. Len(chain) : (decided \o routed)[k] = decided[k]
  BY <1>4, <1>5, <1>6
<1>8. \A k \in 1 .. Len(routed) : (decided \o routed)[Len(chain) + k] = routed[k]
  BY <1>4, <1>5, <1>6
<1> QED
  BY <1>2, <1>4, <1>5, <1>7, <1>8 DEF Extends, decided

LEMMA TrailExtended ==
    ASSUME NEW chain, NEW decided \in Nat
    PROVE  Append(Trail(chain, decided),
                  [task |-> decided + 1, status |-> chain[decided + 1].status,
                   by |-> chain[decided + 1].approver]) = Trail(chain, decided + 1)
<1> DEFINE e(i) == [task |-> i, status |-> chain[i].status, by |-> chain[i].approver]
           S == {e(i) : i \in 1 .. decided + 1}
<1>1. Trail(chain, decided) = [i \in 1 .. decided |-> e(i)]
      /\ Trail(chain, decided + 1) = [i \in 1 .. decided + 1 |-> e(i)]
  BY DEF Trail
<1> HIDE DEF e
<1>2. [i \in 1 .. decided |-> e(i)] \in Seq(S) /\ Len([i \in 1 .. decided |-> e(i)]) = decided
  OBVIOUS
<1>3. Append([i \in 1 .. decided |-> e(i)], e(decided + 1)) = [i \in 1 .. decided + 1 |-> e(i)]
  BY <1>2
<1> QED
  BY <1>1, <1>3 DEF e

(***************************************************************************)
(* The decision of the open task is told: the submission takes the status  *)
(* of its last task.                                                       *)
(***************************************************************************)
LEMMA StoryContinues ==
    ASSUME NEW form, NEW after, NEW chain \in Seq(Task), NEW trail,
           Story(form, chain, trail), form.status = "pending",
           NEW status \in {"approved", "rejected"}, NEW routed \in Seq(Task),
           \/ routed = <<>> /\ after.status = status
           \/ /\ Len(routed) = 1 /\ routed[1].status = "pending"
              /\ status = "approved" /\ after.status = "pending",
           NEW i \in Nat, i = Len(chain), NEW next, Extends(next, chain, i, status, routed)
    PROVE  Story(after, next,
                 Append(trail, [task |-> i, status |-> status, by |-> chain[i].approver]))
<1>1. i >= 1 /\ i \in 1 .. i
  BY DEF Story
<1>2. \A k \in 1 .. i - 1 : chain[k].status = "approved"
  BY DEF Story
<1>3. trail = Trail(chain, i - 1)
  BY DEF Story
<1>4. /\ Len(next) = i + Len(routed)
      /\ \A k \in 1 .. i : /\ next[k].approver = chain[k].approver
                           /\ next[k].status = IF k = i THEN status ELSE chain[k].status
      /\ \A k \in 1 .. Len(routed) : next[i + k] = routed[k]
  BY DEF Extends
<1>5. Trail(chain, i - 1) = Trail(next, i - 1)
  <2>1. \A k \in 1 .. i - 1 : next[k].approver = chain[k].approver /\ next[k].status = chain[k].status
    BY <1>1, <1>4
  <2> QED
    BY <2>1 DEF Trail
<1>6. next[i].status = status /\ next[i].approver = chain[i].approver
  BY <1>1, <1>4
<1>7. Append(trail, [task |-> i, status |-> status, by |-> chain[i].approver]) = Trail(next, i)
  <2>1. PICK n \in Nat : n + 1 = i /\ n = i - 1
    BY <1>1
  <2> QED
    BY <1>3, <1>5, <1>6, <2>1, TrailExtended
<1>8. \A k \in 1 .. i - 1 : next[k].status = "approved"
  BY <1>1, <1>2, <1>4
<1>9. CASE routed = <<>> /\ after.status = status
  <2>1. Len(next) = i
    BY <1>1, <1>4, <1>9
  <2>2. after.status # "pending"
    BY <1>9
  <2> QED
    BY <1>1, <1>6, <1>7, <1>8, <1>9, <2>1, <2>2 DEF Story
<1>10. CASE /\ Len(routed) = 1 /\ routed[1].status = "pending"
            /\ status = "approved" /\ after.status = "pending"
  <2>1. Len(next) = i + 1 /\ next[i + 1] = routed[1]
    BY <1>1, <1>4, <1>10
  <2>2. \A k \in 1 .. i : next[k].status = "approved"
    BY <1>1, <1>6, <1>8, <1>10
  <2>3. (i + 1) - 1 = i /\ i + 1 >= 1
    BY <1>1
  <2> QED
    BY <1>7, <1>10, <2>1, <2>2, <2>3 DEF Story
<1> QED
  BY <1>9, <1>10

LEMMA SameRequired ==
    ASSUME NEW form, NEW after, after.template = form.template, after.answers = form.answers
    PROVE  Required(after) = Required(form)
BY DEF Required

\* The decision that ends a form leaves it at its step.
LEMMA WayEnds ==
    ASSUME NEW form \in Form, NEW chain, Way(form, chain), NEW status \in RequestStatus,
           NEW next, Len(next) = Len(chain), next[Len(chain)].approver = chain[Len(chain)].approver
    PROVE  Way([form EXCEPT !.status = status], next)
<1> DEFINE after == [form EXCEPT !.status = status]
<1>1. /\ after.template = form.template /\ after.answers = form.answers
      /\ after.step = form.step /\ after.by = form.by
  BY DEF Form
<1> HIDE DEF after
<1>2. Required(after) = Required(form)
  BY <1>1, SameRequired
<1>3. Way(after, next)
  BY <1>1, <1>2 DEF Way
<1> QED
  BY <1>3 DEF after

LEMMA WayGoesOn ==
    ASSUME NEW form \in Form, NEW chain, Way(form, chain), NEW step \in NextSteps(form),
           NEW approver, NEW actor,
           approver \in Approvers(StepTypes[form.template][step], actor),
           NEW last \in Nat, last >= 1, last = Len(chain),
           NEW next, Len(next) = last + 1, next[last + 1].approver = approver
    PROVE  Way([form EXCEPT !.status = "pending", !.step = step], next)
<1> DEFINE after == [form EXCEPT !.status = "pending", !.step = step]
<1>1. form.template \in Templates /\ after.template = form.template
      /\ after.answers = form.answers /\ after.step = step /\ after.by = form.by
  BY DEF Form
<1> HIDE DEF after
<1>2. Required(after) = Required(form)
  BY <1>1, SameRequired
<1>3. /\ step \in Required(form) /\ step > form.step
      /\ \A k \in Required(form) : k > form.step => step <= k
  BY DEF NextSteps
<1>4. form.step \in Required(form)
  BY DEF Way
<1>5. Required(form) \subseteq Nat \ {0}
  BY <1>1, RequiredBounded
<1> DEFINE reached == {k \in Required(form) : k <= form.step}
<1>6. {k \in Required(form) : k <= step} = reached \cup {step} /\ step \notin reached
  BY <1>3, <1>4, <1>5
<1>7. IsFiniteSet(reached) /\ Cardinality(reached) = last
  BY <1>1, RequiredBounded DEF Way
<1> HIDE DEF reached
<1>8. Cardinality({k \in Required(form) : k <= step}) = last + 1
  <2>1. step \notin reached
    BY <1>6
  <2>2. Cardinality(reached \cup {step}) = Cardinality(reached) + 1
    BY <1>7, <2>1, FS_AddElement
  <2> QED
    BY <1>6, <1>7, <2>2
<1>9. /\ StepTypes[form.template][step] = "hr_admin" => approver \in HrAdmins
      /\ last + 1 # 1
  BY DEF Approvers
<1>10. Way(after, next)
  BY <1>1, <1>2, <1>3, <1>8, <1>9 DEF Way
<1> QED
  BY <1>10 DEF after

-----------------------------------------------------------------------------
(* Steps. *)

LEMMA FormInit == Init => FormInv
<1> SUFFICES ASSUME Init PROVE FormInv
  OBVIOUS
<1>1. TypeOK
  BY DEF Init, TypeOK
<1>2. ASSUME NEW s \in Submissions
      PROVE  Told(s)
  BY DEF Init, Told, Filed
<1>3. (\A w \in Workers : session[w] = Idle) /\ OneSettles
  BY DEF Init, OneSettles, Idle
<1> QED
  BY <1>1, <1>2, <1>3 DEF FormInv

LEMMA FirstStepReached ==
    ASSUME NEW form, form.template \in Templates, form.step \in FirstSteps(form)
    PROVE  /\ form.step \in Required(form)
           /\ {k \in Required(form) : k <= form.step} = {form.step}
<1>1. form.step \in Required(form) /\ \A k \in Required(form) : form.step <= k
  BY DEF FirstSteps
<1>2. Required(form) \subseteq Nat
  BY RequiredBounded
<1> QED
  BY <1>1, <1>2

LEMMA SubmitKeeps ==
    ASSUME FormInv, NEW w \in Workers, NEW s \in Submissions, NEW e \in Employees,
           NEW t \in Templates, NEW answers \in SUBSET (Step(t) \cap Conditions[t]),
           NEW step \in Step(t), NEW approver \in Employees,
           SubmitForm(w, s, e, t, answers, step, approver)
    PROVE  FormInv'
<1> DEFINE form == [status |-> "pending", by |-> e, template |-> t,
                    answers |-> answers, step |-> step]
           chain == <<[approver |-> approver, status |-> "pending"]>>
<1>1. /\ submission[s] = NoSubmission /\ step \in FirstSteps(form)
      /\ approver \in Approvers(StepTypes[t][step], e)
      /\ submission' = [submission EXCEPT ![s] = form] /\ tasks' = [tasks EXCEPT ![s] = chain]
      /\ UNCHANGED <<events, session, crossed>>
  BY DEF SubmitForm
<1>2. form \in Form
  BY StepsBounded DEF Form, RequestStatus
<1>3. /\ chain \in Seq(Task) /\ Len(chain) = 1
      /\ chain[1].approver = approver /\ chain[1].status = "pending"
  BY DEF Task, RequestStatus
<1>4. /\ form.template = t /\ form.step = step /\ form.by = e /\ form.status = "pending"
      /\ form # NoSubmission
  BY DEF NoSubmission
<1> HIDE DEF form, chain
<1>5. events[s] = <<>> /\ ~Filed(s)
  BY <1>1 DEF FormInv, Told, Filed
<1>6. Story(form, chain, events[s])
  BY <1>3, <1>4, <1>5 DEF Story, Trail
<1>7. Way(form, chain)
  <2>1. step \in Required(form) /\ {k \in Required(form) : k <= step} = {step}
    BY <1>1, <1>4, FirstStepReached
  <2>2. Cardinality({step}) = 1
    BY FS_Singleton
  <2>3. StepTypes[t][step] = "hr_admin" => approver \in HrAdmins
    BY <1>1 DEF Approvers
  <2> QED
    BY <1>1, <1>3, <1>4, <2>1, <2>2, <2>3 DEF Way
<1>8. TypeOK'
  BY <1>1, <1>2, <1>3 DEF FormInv, TypeOK
<1>9. ASSUME NEW r \in Submissions
      PROVE  Told(r)'
  <2>1. CASE r = s
    <3>1. submission'[s] = form /\ tasks'[s] = chain /\ events' = events
      BY <1>1 DEF FormInv, TypeOK
    <3> QED
      BY <1>4, <1>6, <1>7, <2>1, <3>1 DEF Told, Filed
  <2>2. CASE r # s
    <3>1. /\ submission'[r] = submission[r] /\ tasks'[r] = tasks[r]
          /\ events' = events /\ crossed' = crossed
      BY <1>1, <2>2 DEF FormInv, TypeOK
    <3> QED
      BY <3>1 DEF FormInv, Told, Filed
  <2> QED
    BY <2>1, <2>2
<1>10. ASSUME NEW v \in Workers, session'[v] # Idle
       PROVE  CallSound(session[v])'
  <2>1. session' = session /\ CallSound(session[v])
    BY <1>1, <1>10 DEF FormInv
  <2>2. session[v].sub # s /\ session[v].sub \in Submissions
    BY <1>5, <1>10, <2>1 DEF CallSound, FormInv, TypeOK, Deciding, Settling
  <2>3. /\ submission'[session[v].sub] = submission[session[v].sub]
        /\ tasks'[session[v].sub] = tasks[session[v].sub] /\ crossed' = crossed
    BY <1>1, <2>2 DEF FormInv, TypeOK
  <2> QED
    BY <2>1, <2>3 DEF CallSound, Filed
<1>11. OneSettles'
  BY <1>1 DEF FormInv, OneSettles
<1> QED
  BY <1>8, <1>9, <1>10, <1>11 DEF FormInv

\* A call reads a task, locks it or is broken off; the rows stay.
LEMMA CallKeeps ==
    ASSUME FormInv, NEW w \in Workers, NEW c \in {Idle} \cup Deciding \cup Settling,
           session' = [session EXCEPT ![w] = c], UNCHANGED <<submission, tasks, events, crossed>>,
           c # Idle => CallSound(c),
           c.pc = "settling" =>
             \A v \in Workers : v # w /\ session[v].pc = "settling" =>
                 session[v].sub # c.sub \/ session[v].task # c.task
    PROVE  FormInv'
<1>1. TypeOK'
  BY DEF FormInv, TypeOK
<1>2. ASSUME NEW s \in Submissions
      PROVE  Told(s)'
  BY DEF FormInv, Told, Filed
<1>3. \A v \in Workers : session'[v] = IF v = w THEN c ELSE session[v]
  BY DEF FormInv, TypeOK
<1>4. ASSUME NEW v \in Workers, session'[v] # Idle
      PROVE  CallSound(session[v])'
  <2>1. CallSound(session'[v])
    BY <1>3, <1>4 DEF FormInv
  <2> QED
    BY <2>1 DEF CallSound, Filed
<1>5. OneSettles'
  BY <1>3 DEF FormInv, OneSettles
<1> QED
  BY <1>1, <1>2, <1>4, <1>5 DEF FormInv

LEMMA ReadTaskKeeps ==
    ASSUME FormInv, NEW w \in Workers, NEW s \in Submissions, NEW action \in Actions,
           NEW i \in DOMAIN tasks[s], ReadTask(w, s, i, action)
    PROVE  FormInv'
<1> DEFINE c == [pc |-> "deciding", sub |-> s, task |-> i, by |-> tasks[s][i].approver,
                 action |-> action, saw |-> tasks[s][i].status]
<1>1. /\ session' = [session EXCEPT ![w] = c] /\ UNCHANGED <<submission, tasks, events, crossed>>
      /\ tasks[s][i].status = "pending"
  BY DEF ReadTask
<1>2. tasks[s] \in Seq(Task) /\ i \in 1 .. Len(tasks[s]) /\ i \in Nat \ {0}
  BY DEF FormInv, TypeOK
<1>3. tasks[s][i] \in Task
  BY <1>2
<1>4. c \in Deciding /\ c.pc = "deciding"
  BY <1>2, <1>3 DEF Deciding, Task
<1>5. Filed(s)
  BY <1>2 DEF FormInv, Told
<1>6. CallSound(c)
  BY <1>1, <1>2, <1>5 DEF CallSound
<1> HIDE DEF c
<1> QED
  BY <1>1, <1>4, <1>6, CallKeeps

LEMMA LockTaskKeeps ==
    ASSUME FormInv, NEW w \in Workers, LockTask(w)
    PROVE  FormInv'
<1> DEFINE d == session[w]
           c == [pc |-> "settling", sub |-> d.sub, task |-> d.task, by |-> d.by,
                 action |-> d.action, saw |-> d.saw, seen |-> submission[d.sub]]
<1>1. /\ session' = [session EXCEPT ![w] = c] /\ UNCHANGED <<submission, tasks, events, crossed>>
      /\ d.pc = "deciding" /\ ~TaskLocked(d.sub, d.task)
  BY DEF LockTask
<1>2. d \in Deciding /\ d # Idle
  BY <1>1 DEF FormInv, TypeOK, Settling, Idle
<1>3. CallSound(d)
  BY <1>2 DEF FormInv
<1>4. submission[d.sub] \in Form
  BY <1>2, <1>3 DEF CallSound, Filed, FormInv, TypeOK, Deciding
<1>5. c \in Settling /\ CallSound(c)
  BY <1>2, <1>3, <1>4 DEF Settling, Deciding, CallSound
<1>6. \A v \in Workers : v # w /\ session[v].pc = "settling" =>
         session[v].sub # c.sub \/ session[v].task # c.task
  BY <1>1 DEF TaskLocked
<1> HIDE DEF c, d
<1> QED
  BY <1>1, <1>5, <1>6, CallKeeps

LEMMA AbortKeeps ==
    ASSUME FormInv, NEW w \in Workers, Abort(w)
    PROVE  FormInv'
<1>1. Idle.pc # "settling"
  BY DEF Idle
<1> QED
  BY <1>1, CallKeeps DEF Abort

\* What a call knows at its decision.
LEMMA SettlingFacts ==
    ASSUME FormInv, NEW w \in Workers, session[w].pc = "settling"
    PROVE  LET c == session[w]
               s == c.sub
           IN  /\ c \in Settling /\ s \in Submissions /\ CallSound(c) /\ Told(s)
               /\ submission[s] \in Form /\ tasks[s] \in Seq(Task) /\ c.task \in 1 .. Len(tasks[s])
               /\ ~crossed[s] /\ tasks[s][c.task].status = "pending" =>
                    /\ c.seen = submission[s] /\ submission[s].status = "pending"
                    /\ c.task = Len(tasks[s])
                    /\ Story(submission[s], tasks[s], events[s]) /\ Way(submission[s], tasks[s])
<1> DEFINE c == session[w]
           s == c.sub
<1>1. c \in Settling /\ c # Idle
  BY DEF FormInv, TypeOK, Deciding, Idle
<1>2. s \in Submissions /\ CallSound(c)
  BY <1>1 DEF FormInv, Settling
<1>3. Told(s) /\ Filed(s) /\ tasks[s] \in Seq(Task)
  BY <1>2 DEF FormInv, CallSound, TypeOK
<1>4. submission[s] \in Form /\ c.task \in 1 .. Len(tasks[s])
  BY <1>2, <1>3 DEF FormInv, TypeOK, CallSound, Filed
<1>5. ASSUME ~crossed[s], tasks[s][c.task].status = "pending"
      PROVE  /\ c.seen = submission[s] /\ submission[s].status = "pending"
             /\ c.task = Len(tasks[s])
             /\ Story(submission[s], tasks[s], events[s]) /\ Way(submission[s], tasks[s])
  <2>1. Story(submission[s], tasks[s], events[s]) /\ Way(submission[s], tasks[s])
    BY <1>3, <1>5 DEF Told
  <2>2. PICK i \in Nat, last \in Nat : i = c.task /\ last = Len(tasks[s])
    BY <1>3, <1>4
  <2>3. i \in 1 .. last - 1 => tasks[s][i].status = "approved"
    BY <2>1, <2>2 DEF Story
  <2>4. i = last
    BY <1>4, <1>5, <2>2, <2>3
  <2>5. submission[s].status = "pending"
    BY <1>5, <2>1, <2>2, <2>4 DEF Story
  <2>6. c.seen = submission[s]
    BY <1>2, <1>5 DEF CallSound
  <2> QED
    BY <2>1, <2>2, <2>4, <2>5, <2>6
<1> QED
  BY <1>1, <1>2, <1>3, <1>4, <1>5

\* The decision of task i of submission s: "after", "next" and "trail" are what it leaves.
Decided(w, s, i, status, routed, after, next, trail) ==
    /\ session[w].pc = "settling" /\ s = session[w].sub /\ i = session[w].task
    /\ Extends(next, tasks[s], i, status, routed)
    /\ trail = Append(events[s], [task |-> i, status |-> status, by |-> tasks[s][i].approver])
    /\ submission' = [submission EXCEPT ![s] = after]
    /\ tasks' = [tasks EXCEPT ![s] = next]
    /\ events' = [events EXCEPT ![s] = trail]
    /\ crossed' = [crossed EXCEPT ![s] = crossed[s] \/ tasks[s][i].status # "pending"]
    /\ session' = [session EXCEPT ![w] = Idle]

LEMMA CommitDecides ==
    ASSUME FormInv, NEW w \in Workers, NEW status \in RequestStatus, NEW routed \in Seq(Task),
           NEW s, NEW i, session[w].pc = "settling", s = session[w].sub, i = session[w].task,
           NEW after, submission' = [submission EXCEPT ![s] = after], Commit(w, status, routed)
    PROVE  \E next, trail : Decided(w, s, i, status, routed, after, next, trail)
<1>1. /\ tasks[s] \in Seq(Task) /\ i \in 1 .. Len(tasks[s])
      /\ session[w].saw = "pending" /\ session[w].by = tasks[s][i].approver
  BY SettlingFacts DEF CallSound
<1>2. PICK next : next = [tasks[s] EXCEPT ![i].status = status] \o routed
  OBVIOUS
<1>3. PICK trail : trail = Append(events[s], [task |-> i, status |-> status,
                                              by |-> tasks[s][i].approver])
  OBVIOUS
<1>4. Extends(next, tasks[s], i, status, routed)
  BY <1>1, <1>2, ChainExtended
<1>5. /\ tasks' = [tasks EXCEPT ![s] = next] /\ events' = [events EXCEPT ![s] = trail]
      /\ crossed' = [crossed EXCEPT ![s] = crossed[s] \/ tasks[s][i].status # "pending"]
      /\ session' = [session EXCEPT ![w] = Idle]
  BY <1>1, <1>2, <1>3 DEF Commit
<1>6. Decided(w, s, i, status, routed, after, next, trail)
  BY <1>3, <1>4, <1>5 DEF Decided
<1> QED
  BY <1>6

(***************************************************************************)
(* The submission is told and on its way after a decision if it was so     *)
(* when no decision of the task had come in between.                       *)
(***************************************************************************)
LEMMA CommitKeeps ==
    ASSUME FormInv, NEW w \in Workers, NEW status \in {"approved", "rejected"},
           NEW routed \in Seq(Task), NEW s, NEW i, NEW after \in Form, NEW next, NEW trail,
           Decided(w, s, i, status, routed, after, next, trail),
           ~crossed[s] /\ tasks[s][i].status = "pending" =>
               Story(after, next, trail) /\ Way(after, next)
    PROVE  FormInv'
<1>1. /\ s \in Submissions /\ session[w] \in Settling
      /\ tasks[s] \in Seq(Task) /\ i \in 1 .. Len(tasks[s])
  BY SettlingFacts DEF Decided
<1>2. trail = Append(events[s], [task |-> i, status |-> status, by |-> tasks[s][i].approver])
  BY DEF Decided
<1>3. /\ submission' = [submission EXCEPT ![s] = after]
      /\ tasks' = [tasks EXCEPT ![s] = next] /\ events' = [events EXCEPT ![s] = trail]
      /\ crossed' = [crossed EXCEPT ![s] = crossed[s] \/ tasks[s][i].status # "pending"]
      /\ session' = [session EXCEPT ![w] = Idle]
  BY DEF Decided
<1>4. Extends(next, tasks[s], i, status, routed)
  BY DEF Decided
<1>5. next \in Seq(Task)
  BY <1>4 DEF Extends
<1>6. trail \in Seq(Decision)
  <2>1. tasks[s][i] \in Task /\ i \in Nat \ {0} /\ events[s] \in Seq(Decision)
    BY <1>1 DEF FormInv, TypeOK
  <2>2. [task |-> i, status |-> status, by |-> tasks[s][i].approver] \in Decision
    BY <2>1 DEF Decision, Task, RequestStatus
  <2> QED
    BY <1>2, <2>1, <2>2
<1>7. TypeOK'
  <2>1. submission' \in [Submissions -> {NoSubmission} \cup Form]
    BY <1>3 DEF FormInv, TypeOK
  <2>2. tasks' \in [Submissions -> Seq(Task)] /\ events' \in [Submissions -> Seq(Decision)]
    BY <1>3, <1>5, <1>6 DEF FormInv, TypeOK
  <2>3. /\ session' \in [Workers -> {Idle} \cup Deciding \cup Settling]
        /\ crossed' \in [Submissions -> BOOLEAN]
    BY <1>3 DEF FormInv, TypeOK
  <2> QED
    BY <2>1, <2>2, <2>3 DEF TypeOK
<1>8. /\ submission'[s] = after /\ tasks'[s] = next /\ events'[s] = trail
      /\ crossed'[s] = (crossed[s] \/ tasks[s][i].status # "pending")
      /\ \A r \in Submissions : r # s =>
           /\ submission'[r] = submission[r] /\ tasks'[r] = tasks[r]
           /\ events'[r] = events[r] /\ crossed'[r] = crossed[r]
  BY <1>1, <1>3 DEF FormInv, TypeOK
<1>9. after # NoSubmission
  BY DEF Form, NoSubmission, RequestStatus
<1>10. ASSUME NEW r \in Submissions
       PROVE  Told(r)'
  <2>1. CASE r = s
    BY <1>8, <1>9, <2>1 DEF Told, Filed
  <2>2. CASE r # s
    BY <1>8, <2>2 DEF FormInv, Told, Filed
  <2> QED
    BY <2>1, <2>2
<1>11. ASSUME NEW v \in Workers, session'[v] # Idle
       PROVE  CallSound(session[v])'
  <2>1. PICK c : c = session[v]
    OBVIOUS
  <2>2. v # w /\ session'[v] = c /\ c # Idle
    BY <1>3, <1>11, <2>1 DEF FormInv, TypeOK
  <2>3. c \in Deciding \cup Settling /\ CallSound(c) /\ c.sub \in Submissions
    BY <2>1, <2>2 DEF FormInv, TypeOK, Deciding, Settling
  <2>4. CASE c.sub # s
    <3>1. /\ submission'[c.sub] = submission[c.sub] /\ tasks'[c.sub] = tasks[c.sub]
          /\ crossed'[c.sub] = crossed[c.sub]
      BY <1>8, <2>3, <2>4
    <3> QED
      BY <2>2, <2>3, <3>1 DEF CallSound, Filed
  <2>5. CASE c.sub = s
    <3>1. /\ c.task \in 1 .. Len(tasks[s]) /\ c.by = tasks[s][c.task].approver
          /\ c.saw = "pending" /\ Filed(s)
      BY <2>3, <2>5 DEF CallSound
    <3>2. /\ c.task \in 1 .. Len(next) /\ next[c.task].approver = c.by
          /\ next[c.task].status = IF c.task = i THEN status ELSE tasks[s][c.task].status
      <4>1. Len(next) = Len(tasks[s]) + Len(routed)
        BY <1>4 DEF Extends
      <4>2. Len(tasks[s]) \in Nat /\ Len(routed) \in Nat
        BY <1>1
      <4>3. c.task \in 1 .. Len(next)
        BY <3>1, <4>1, <4>2
      <4> QED
        BY <1>4, <3>1, <4>3 DEF Extends
    <3>3. ~(c.pc = "settling" /\ ~crossed'[s] /\ next[c.task].status = "pending")
      <4>1. SUFFICES ASSUME c.pc = "settling", ~crossed'[s], next[c.task].status = "pending"
                     PROVE  FALSE
        OBVIOUS
      <4>2. ~crossed[s] /\ tasks[s][i].status = "pending"
        BY <1>8, <4>1
      <4>3. c.task # i /\ tasks[s][c.task].status = "pending"
        BY <3>2, <4>1
      <4>4. i = Len(tasks[s])
        BY <4>2, SettlingFacts DEF Decided
      <4>5. c.task = Len(tasks[s])
        BY <2>1, <2>5, <4>1, <4>2, <4>3, SettlingFacts
      <4> QED
        BY <4>3, <4>4, <4>5
    <3>4. submission'[c.sub] # NoSubmission
      BY <1>8, <1>9, <2>5
    <3> QED
      BY <1>8, <2>2, <2>5, <3>1, <3>2, <3>3, <3>4 DEF CallSound, Filed
  <2> QED
    BY <2>4, <2>5
<1>12. OneSettles'
  <2>1. \A v \in Workers : session'[v] = IF v = w THEN Idle ELSE session[v]
    BY <1>3 DEF FormInv, TypeOK
  <2>2. Idle.pc # "settling"
    BY DEF Idle
  <2> QED
    BY <2>1, <2>2 DEF FormInv, OneSettles
<1> QED
  BY <1>7, <1>10, <1>11, <1>12 DEF FormInv

\* The last decision of a form.
LEMMA EndKeeps ==
    ASSUME FormInv, NEW w \in Workers, RejectForm(w) \/ ApproveForm(w)
    PROVE  FormInv'
<1>1. PICK routed : routed = <<>> /\ routed \in Seq(Task) /\ Len(routed) = 0
  <2>1. <<>> \in Seq(Task) /\ Len(<<>>) = 0
    OBVIOUS
  <2> QED
    BY <2>1, Zenon
<1>2. session[w].pc = "settling"
  BY DEF RejectForm, ApproveForm
<1>3. PICK status \in {"approved", "rejected"} :
         /\ submission' = [submission EXCEPT ![session[w].sub].status = status]
         /\ Commit(w, status, routed)
  BY <1>1 DEF RejectForm, ApproveForm
<1>4. PICK s, i : s = session[w].sub /\ i = session[w].task
  OBVIOUS
<1>5. s \in Submissions /\ submission[s] \in Form
  BY <1>2, <1>4, SettlingFacts
<1>6. PICK form \in Form : form = submission[s]
  BY <1>5
<1>7. PICK after : after = [form EXCEPT !.status = status]
  OBVIOUS
<1>8. after \in Form /\ after.status = status /\ submission' = [submission EXCEPT ![s] = after]
  BY <1>3, <1>4, <1>5, <1>6, <1>7 DEF Form, RequestStatus
<1>9. PICK next, trail : Decided(w, s, i, status, routed, after, next, trail)
  <2>1. routed \in Seq(Task) /\ status \in RequestStatus
    BY <1>1 DEF RequestStatus
  <2> QED
    BY <1>2, <1>3, <1>4, <1>8, <2>1, CommitDecides
<1>10. ASSUME ~crossed[s] /\ tasks[s][i].status = "pending"
       PROVE  Story(after, next, trail) /\ Way(after, next)
  <2>1. /\ tasks[s] \in Seq(Task) /\ i \in 1 .. Len(tasks[s])
        /\ i = Len(tasks[s]) /\ form.status = "pending"
        /\ Story(form, tasks[s], events[s]) /\ Way(form, tasks[s])
    BY <1>2, <1>4, <1>6, <1>10, SettlingFacts
  <2>2. PICK chain, n, told :
         /\ chain \in Seq(Task) /\ n \in Nat
         /\ chain = tasks[s] /\ n = i /\ told = events[s]
    BY <2>1
  <2>3. /\ Extends(next, chain, n, status, routed)
        /\ trail = Append(told, [task |-> n, status |-> status, by |-> chain[n].approver])
    BY <1>9, <2>2 DEF Decided
  <2>4. Story(after, next, trail)
    BY <1>1, <1>8, <2>1, <2>2, <2>3, StoryContinues
  <2>5. Len(next) = Len(chain) /\ next[Len(chain)].approver = chain[Len(chain)].approver
    BY <1>1, <2>1, <2>2, <2>3 DEF Extends
  <2>6. Way(after, next)
    BY <1>7, <2>1, <2>2, <2>5, WayEnds DEF RequestStatus
  <2> QED
    BY <2>4, <2>6
<1> QED
  BY <1>1, <1>8, <1>9, <1>10, CommitKeeps

LEMMA RouteKeeps ==
    ASSUME FormInv, NEW w \in Workers, NEW step \in StepOrders, NEW approver \in Employees,
           RouteForm(w, step, approver)
    PROVE  FormInv'
<1>1. PICK routed : routed = <<[approver |-> approver, status |-> "pending"]>>
  OBVIOUS
<1>2. /\ routed \in Seq(Task) /\ Len(routed) = 1
      /\ routed[1].approver = approver /\ routed[1].status = "pending"
  BY <1>1 DEF Task, RequestStatus
<1>3. PICK s, i, seen : s = session[w].sub /\ i = session[w].task /\ seen = session[w].seen
  OBVIOUS
<1>4. session[w].pc = "settling"
  BY DEF RouteForm
<1>5. /\ s \in Submissions /\ submission[s] \in Form
      /\ tasks[s] \in Seq(Task) /\ i \in 1 .. Len(tasks[s])
  BY <1>3, <1>4, SettlingFacts
<1>6. PICK form \in Form : form = submission[s]
  BY <1>5
<1>7. PICK after : after = [form EXCEPT !.status = "pending", !.step = step]
  OBVIOUS
<1>8. /\ Commit(w, "approved", routed) /\ step \in NextSteps(seen)
      /\ \E actor : approver \in Approvers(StepTypes[seen.template][step], actor)
      /\ submission' = [submission EXCEPT ![s] = after]
  BY <1>1, <1>3, <1>6, <1>7 DEF RouteForm
<1>9. after \in Form /\ after.status = "pending"
  BY <1>7 DEF Form, RequestStatus
<1>10. PICK next, trail : Decided(w, s, i, "approved", routed, after, next, trail)
  BY <1>2, <1>3, <1>4, <1>8, CommitDecides DEF RequestStatus
<1>11. ASSUME ~crossed[s] /\ tasks[s][i].status = "pending"
       PROVE  Story(after, next, trail) /\ Way(after, next)
  <2>1. /\ seen = form /\ form.status = "pending" /\ i = Len(tasks[s])
        /\ Story(form, tasks[s], events[s]) /\ Way(form, tasks[s])
    BY <1>3, <1>4, <1>6, <1>11, SettlingFacts
  <2>2. PICK chain, n, told :
         /\ chain \in Seq(Task) /\ n \in Nat
         /\ chain = tasks[s] /\ n = i /\ told = events[s]
    BY <1>5
  <2>3. /\ Extends(next, chain, n, "approved", routed)
        /\ trail = Append(told, [task |-> n, status |-> "approved", by |-> chain[n].approver])
    BY <1>10, <2>2 DEF Decided
  <2>4. Story(after, next, trail)
    BY <1>2, <1>9, <2>1, <2>2, <2>3, StoryContinues
  <2>5. /\ n >= 1 /\ n = Len(chain) /\ Len(next) = n + 1 /\ next[n + 1].approver = approver
    BY <1>2, <1>5, <2>1, <2>2, <2>3 DEF Extends
  <2>6. Way(after, next)
    BY <1>7, <1>8, <2>1, <2>2, <2>5, WayGoesOn
  <2> QED
    BY <2>4, <2>6
<1> QED
  BY <1>2, <1>9, <1>10, <1>11, CommitKeeps

LEMMA FormStep == FormInv /\ [Next]_vars => FormInv'
<1> SUFFICES ASSUME FormInv, [Next]_vars PROVE FormInv'
  OBVIOUS
<1>1. ASSUME NEW w \in Workers, Submit(w)
      PROVE  FormInv'
  BY <1>1, SubmitKeeps DEF Submit
<1>2. ASSUME NEW w \in Workers, Decide(w)
      PROVE  FormInv'
  BY <1>2, ReadTaskKeeps, LockTaskKeeps, EndKeeps, RouteKeeps DEF Decide
<1>3. ASSUME NEW w \in Workers, Abort(w)
      PROVE  FormInv'
  BY <1>3, AbortKeeps
<1>4. CASE UNCHANGED vars
  <2>1. TypeOK' /\ OneSettles'
    BY <1>4 DEF vars, FormInv, TypeOK, OneSettles
  <2>2. ASSUME NEW s \in Submissions
        PROVE  Told(s)'
    BY <1>4 DEF vars, FormInv, Told, Filed
  <2>3. ASSUME NEW w \in Workers, session'[w] # Idle
        PROVE  CallSound(session[w])'
    <3>1. CallSound(session[w])
      BY <1>4, <2>3 DEF vars, FormInv
    <3> QED
      BY <1>4, <3>1 DEF vars, CallSound, Filed
  <2> QED
    BY <2>1, <2>2, <2>3 DEF FormInv
<1> QED
  BY <1>1, <1>2, <1>3, <1>4 DEF Next

LEMMA FormAlways == Spec => []FormInv
<1>1. Init => FormInv
  BY FormInit
<1>2. FormInv /\ [Next]_vars => FormInv'
  BY FormStep
<1> QED
  BY <1>1, <1>2, PTL DEF Spec

(***************************************************************************)
(* Submissions, tasks, trail and calls keep their types.                   *)
(***************************************************************************)
THEOREM FormTypeCorrect == Spec => []TypeOK
BY FormAlways, InvImplies, PTL

(***************************************************************************)
(* Submission, tasks and trail of a form tell one story until two          *)
(* decisions of one task overlap (decideApproval, service.ts).             *)
(***************************************************************************)
THEOREM ChainsAgree == Spec => []ChainAgrees
BY FormAlways, InvImplies, PTL

(***************************************************************************)
(* A form is at a required step, at the right approver, and has one task   *)
(* of every required step up to it, until two decisions of a task overlap. *)
(***************************************************************************)
THEOREM StepsInOrder == Spec => []RoutedInOrder
BY FormAlways, InvImplies, PTL

-----------------------------------------------------------------------------
(* The abstract review. *)

Seen(form) ==
    [state |-> form.status,
     todo |-> IF form.status = "approved" THEN {} ELSE {i \in Required(form) : i >= form.step}]

LEMMA ReviewShown ==
    /\ reviewBar = [s \in Submissions |-> IF Filed(s) THEN Seen(submission[s]) ELSE Review!Unfiled]
    /\ reviewBar' = [s \in Submissions |-> IF Filed(s)' THEN Seen(submission'[s]) ELSE Review!Unfiled]
BY DEF reviewBar, Seen, Filed, Review!Unfiled, Required, Step

\* A step that writes one submission shows in the review of it alone.
LEMMA ReviewWritten ==
    ASSUME TypeOK, NEW s \in Submissions, NEW form \in Form,
           submission' = [submission EXCEPT ![s] = form]
    PROVE  reviewBar' = [reviewBar EXCEPT ![s] = Seen(form)]
<1>1. \A r \in Submissions : submission'[r] = IF r = s THEN form ELSE submission[r]
  BY DEF TypeOK
<1>2. form # NoSubmission
  BY DEF Form, NoSubmission, RequestStatus
<1>3. \A r \in Submissions :
        (IF Filed(r)' THEN Seen(submission'[r]) ELSE Review!Unfiled) =
            IF r = s THEN Seen(form) ELSE IF Filed(r) THEN Seen(submission[r]) ELSE Review!Unfiled
  BY <1>1, <1>2 DEF Filed
<1> HIDE DEF Seen, Filed
<1> QED
  BY <1>3, ReviewShown

\* What is known of a decision no other one overlapped.
LEMMA UncrossedFacts ==
    ASSUME FormInv, NEW w \in Workers, NEW status, NEW routed, session[w].pc = "settling",
           Commit(w, status, routed), NEW s, s = session[w].sub, ~crossed'[s]
    PROVE  /\ s \in Submissions /\ submission[s] \in Form /\ submission[s].status = "pending"
           /\ session[w].seen = submission[s] /\ submission[s].step \in Required(submission[s])
           /\ reviewBar[s] = Seen(submission[s])
<1>1. s \in Submissions /\ CallSound(session[w])
  BY SettlingFacts
<1>2. crossed'[s] = (crossed[s] \/ tasks[s][session[w].task].status # session[w].saw)
  BY <1>1 DEF Commit, FormInv, TypeOK
<1>3. ~crossed[s] /\ tasks[s][session[w].task].status = "pending"
  BY <1>1, <1>2 DEF CallSound
<1>4. /\ submission[s] \in Form /\ submission[s].status = "pending"
      /\ session[w].seen = submission[s] /\ Way(submission[s], tasks[s])
  BY <1>3, SettlingFacts
<1>5. Filed(s)
  BY <1>1 DEF CallSound
<1> QED
  BY <1>1, <1>4, <1>5, ReviewShown DEF Way

LEMMA SubmitReviews ==
    ASSUME FormInv, NEW w \in Workers, NEW s \in Submissions, NEW e \in Employees,
           NEW t \in Templates, NEW answers \in SUBSET (Step(t) \cap Conditions[t]),
           NEW step \in Step(t), NEW approver \in Employees,
           SubmitForm(w, s, e, t, answers, step, approver)
    PROVE  Review!Next
<1> DEFINE new == [status |-> "pending", by |-> e, template |-> t,
                   answers |-> answers, step |-> step]
<1>1. PICK form : form = new
  OBVIOUS
<1>2. /\ submission[s] = NoSubmission /\ step \in FirstSteps(form)
      /\ submission' = [submission EXCEPT ![s] = form]
  BY <1>1 DEF SubmitForm
<1>3. form \in Form /\ form.status = "pending" /\ form.step = step /\ form.template \in Templates
  BY <1>1, StepsBounded DEF Form, RequestStatus
<1> HIDE DEF new
<1>4. PICK todo : todo = {i \in Required(form) : i >= form.step}
  OBVIOUS
<1>5. Seen(form) = [state |-> "pending", todo |-> todo]
  BY <1>3, <1>4 DEF Seen
<1>6. todo # {} /\ todo \in SUBSET StepOrders
  <2>1. step \in Required(form) /\ Required(form) \subseteq StepOrders
    BY <1>2, <1>3, RequiredBounded DEF FirstSteps
  <2>2. step \in Nat
    BY <1>3, <2>1, RequiredBounded
  <2> QED
    BY <1>3, <1>4, <2>1, <2>2
<1>7. reviewBar[s] = Review!Unfiled
  BY <1>2, ReviewShown DEF Filed
<1>8. reviewBar' = [reviewBar EXCEPT ![s] = [state |-> "pending", todo |-> todo]]
  BY <1>2, <1>3, <1>5, ReviewWritten DEF FormInv
<1>9. Review!File(s, todo)
  BY <1>6, <1>7, <1>8 DEF Review!File
<1> QED
  BY <1>6, <1>9 DEF Review!Next

LEMMA RejectReviews ==
    ASSUME FormInv, NEW w \in Workers, RejectForm(w), ~crossed'[session[w].sub]
    PROVE  Review!Next
<1>1. PICK s : s = session[w].sub
  OBVIOUS
<1>2. /\ s \in Submissions /\ submission[s] \in Form /\ submission[s].status = "pending"
      /\ reviewBar[s] = Seen(submission[s])
  BY <1>1, UncrossedFacts DEF RejectForm
<1>3. PICK form, after :
         form \in Form /\ form = submission[s] /\ after = [form EXCEPT !.status = "rejected"]
  BY <1>2
<1>4. /\ submission' = [submission EXCEPT ![s] = after] /\ after \in Form
      /\ after.status = "rejected" /\ after.step = form.step
      /\ after.template = form.template /\ after.answers = form.answers
  BY <1>1, <1>3 DEF RejectForm, Form, RequestStatus
<1>5. Required(after) = Required(form)
  BY <1>4, SameRequired
<1>6. PICK todo : reviewBar[s] = [state |-> "pending", todo |-> todo]
                  /\ Seen(after) = [state |-> "rejected", todo |-> todo]
  BY <1>2, <1>3, <1>4, <1>5 DEF Seen
<1>7. reviewBar' = [reviewBar EXCEPT ![s] = [state |-> "rejected", todo |-> todo]]
  BY <1>2, <1>4, <1>6, ReviewWritten DEF FormInv
<1>8. Review!Refuse(s)
  <2>1. reviewBar[s].state = "pending" /\ reviewBar[s].todo = todo
    BY <1>6
  <2> QED
    BY <1>7, <2>1 DEF Review!Refuse
<1> QED
  BY <1>2, <1>8 DEF Review!Next

LEMMA ApproveReviews ==
    ASSUME FormInv, NEW w \in Workers, ApproveForm(w), ~crossed'[session[w].sub]
    PROVE  Review!Next
<1>1. PICK s : s = session[w].sub
  OBVIOUS
<1>2. /\ s \in Submissions /\ submission[s] \in Form /\ submission[s].status = "pending"
      /\ session[w].seen = submission[s] /\ submission[s].step \in Required(submission[s])
      /\ reviewBar[s] = Seen(submission[s])
  BY <1>1, UncrossedFacts DEF ApproveForm
<1>3. PICK form, after :
         form \in Form /\ form = submission[s] /\ after = [form EXCEPT !.status = "approved"]
  BY <1>2
<1>4. /\ submission' = [submission EXCEPT ![s] = after] /\ after \in Form
      /\ after.status = "approved" /\ NextSteps(form) = {} /\ form.template \in Templates
  BY <1>1, <1>2, <1>3 DEF ApproveForm, Form, RequestStatus
<1>5. form.step \in Required(form) /\ Required(form) \subseteq Nat \ {0}
      /\ Required(form) \subseteq StepOrders
  BY <1>2, <1>3, <1>4, RequiredBounded
<1>6. {i \in Required(form) : i >= form.step} = {form.step}
  <2>1. \A i \in Required(form) : i <= form.step
    BY <1>4, <1>5, NoNextStep
  <2> QED
    BY <1>5, <2>1
<1>7. PICK step : step = form.step
  OBVIOUS
<1>8. reviewBar[s] = [state |-> "pending", todo |-> {step}]
      /\ Seen(after) = [state |-> "approved", todo |-> {}]
  BY <1>2, <1>3, <1>4, <1>6, <1>7 DEF Seen
<1>9. reviewBar' = [reviewBar EXCEPT ![s] = [state |-> "approved", todo |-> {}]]
  BY <1>2, <1>4, <1>8, ReviewWritten DEF FormInv
<1>10. step \in Nat /\ step \in StepOrders
  BY <1>5, <1>7
<1>11. Review!Pass(s, step)
  <2>1. reviewBar[s].state = "pending" /\ reviewBar[s].todo = {step}
    BY <1>8
  <2>2. {step} \ {step} = {} /\ step <= step
    BY <1>10
  <2> QED
    BY <1>9, <2>1, <2>2 DEF Review!Pass
<1> QED
  BY <1>2, <1>10, <1>11 DEF Review!Next

LEMMA RouteReviews ==
    ASSUME FormInv, NEW w \in Workers, NEW step \in StepOrders, NEW approver \in Employees,
           RouteForm(w, step, approver), ~crossed'[session[w].sub]
    PROVE  Review!Next
<1>1. PICK s : s = session[w].sub
  OBVIOUS
<1>2. /\ s \in Submissions /\ submission[s] \in Form /\ submission[s].status = "pending"
      /\ session[w].seen = submission[s] /\ submission[s].step \in Required(submission[s])
      /\ reviewBar[s] = Seen(submission[s])
  BY <1>1, UncrossedFacts DEF RouteForm
<1>3. PICK form, after :
         /\ form \in Form /\ form = submission[s]
         /\ after = [form EXCEPT !.status = "pending", !.step = step]
  BY <1>2
<1>4. /\ submission' = [submission EXCEPT ![s] = after] /\ after \in Form
      /\ after.status = "pending" /\ after.step = step
      /\ after.template = form.template /\ after.answers = form.answers
      /\ step \in NextSteps(form) /\ form.template \in Templates
  BY <1>1, <1>2, <1>3 DEF RouteForm, Form, RequestStatus
<1>5. Required(after) = Required(form)
  BY <1>4, SameRequired
<1>6. PICK old : old = form.step
  OBVIOUS
<1>7. /\ old \in Required(form) /\ Required(form) \subseteq Nat \ {0}
      /\ Required(form) \subseteq StepOrders
  BY <1>2, <1>3, <1>4, <1>6, RequiredBounded
<1>8. /\ step \in Required(form) /\ step > old
      /\ \A i \in Required(form) : i > old => step <= i
  BY <1>4, <1>6 DEF NextSteps
<1>9. PICK todo : todo = {i \in Required(form) : i >= old}
  OBVIOUS
<1>10. /\ {i \in Required(form) : i >= step} = todo \ {old}
       /\ old \in todo /\ step \in todo /\ step # old
       /\ \A other \in todo : old <= other
  BY <1>7, <1>8, <1>9
<1>11. reviewBar[s] = [state |-> "pending", todo |-> todo]
       /\ Seen(after) = [state |-> "pending", todo |-> todo \ {old}]
  BY <1>2, <1>3, <1>4, <1>5, <1>6, <1>9, <1>10 DEF Seen
<1>12. reviewBar' = [reviewBar EXCEPT ![s] = [state |-> "pending", todo |-> todo \ {old}]]
  BY <1>2, <1>4, <1>11, ReviewWritten DEF FormInv
<1>13. Review!Pass(s, old)
  <2>1. reviewBar[s].state = "pending" /\ reviewBar[s].todo = todo /\ todo # {old}
    BY <1>10, <1>11
  <2> QED
    BY <1>10, <1>12, <2>1 DEF Review!Pass
<1> QED
  BY <1>2, <1>7, <1>13 DEF Review!Next

(***************************************************************************)
(* FormApproval implements the abstract review up to the first overlapping *)
(* pair of decisions: no review is skipped, none is given twice.           *)
(***************************************************************************)
THEOREM ReviewImplemented == Spec => ReviewUntilCrossed
<1>1. ASSUME FormInv, Next, \A s \in Submissions : ~crossed'[s]
      PROVE  [Review!Next]_reviewBar
  <2> USE <1>1
  <2>1. ASSUME submission' = submission
        PROVE  reviewBar' = reviewBar
    BY <2>1 DEF reviewBar, Filed
  <2>2. ASSUME NEW w \in Workers, Submit(w)
        PROVE  Review!Next
    BY <2>2, SubmitReviews DEF Submit
  <2>3. ASSUME NEW w \in Workers, session[w].pc = "settling"
        PROVE  ~crossed'[session[w].sub]
    BY <2>3, SettlingFacts
  <2>4. ASSUME NEW w \in Workers, RejectForm(w) \/ ApproveForm(w)
        PROVE  Review!Next
    BY <2>3, <2>4, RejectReviews, ApproveReviews DEF RejectForm, ApproveForm
  <2>5. ASSUME NEW w \in Workers, NEW step \in StepOrders, NEW approver \in Employees,
               RouteForm(w, step, approver)
        PROVE  Review!Next
    BY <2>3, <2>5, RouteReviews DEF RouteForm
  <2>6. ASSUME NEW w \in Workers,
               \/ \E s \in Submissions, action \in Actions :
                      \E i \in DOMAIN tasks[s] : ReadTask(w, s, i, action)
               \/ LockTask(w) \/ Abort(w)
        PROVE  submission' = submission
    BY <2>6 DEF ReadTask, LockTask, Abort
  <2>7. ASSUME NEW w \in Workers, Decide(w)
        PROVE  Review!Next \/ submission' = submission
    BY <2>4, <2>5, <2>6, <2>7 DEF Decide
  <2> QED
    BY <2>1, <2>2, <2>6, <2>7 DEF Next
<1>2. FormInv /\ [Next]_vars =>
        [(\A s \in Submissions : ~crossed'[s]) => [Review!Next]_reviewBar]_vars
  BY <1>1
<1> QED
  BY <1>2, FormAlways, PTL DEF Spec, ReviewUntilCrossed

-----------------------------------------------------------------------------
(***************************************************************************)
(* One decision of a task at a time.  Nothing in the code sees to it; the  *)
(* theorems below say that an overlap of two decisions of one task is all  *)
(* that ever goes wrong with a form: decisions of other tasks, and new     *)
(* submissions, may overlap as they like.                                  *)
(***************************************************************************)
OneDecisionPerTask ==
    \A v, w \in Workers :
        v # w /\ session[v] # Idle /\ session[w] # Idle =>
            session[v].sub # session[w].sub \/ session[v].task # session[w].task

NeverCrossed ==
    /\ \A s \in Submissions : ~crossed[s]
    /\ \A w \in Workers : session[w] # Idle =>
         tasks[session[w].sub][session[w].task].status = "pending"

\* No required step is left when a form is approved.
NoneLeft ==
    \A s \in Submissions : Filed(s) /\ ~crossed[s] /\ submission[s].status = "approved" =>
        NextSteps(submission[s]) = {}

\* A decision without an overlap: what it does to the rest.
LEMMA CommitAlone ==
    ASSUME FormInv, NeverCrossed, OneDecisionPerTask, NEW w \in Workers,
           NEW status \in RequestStatus, NEW routed \in Seq(Task),
           session[w].pc = "settling", NEW after,
           submission' = [submission EXCEPT ![session[w].sub] = after], Commit(w, status, routed)
    PROVE  NeverCrossed'
<1>1. PICK s, i : s = session[w].sub /\ i = session[w].task
  OBVIOUS
<1>2. PICK next, trail : Decided(w, s, i, status, routed, after, next, trail)
  BY <1>1, CommitDecides
<1>3. s \in Submissions /\ tasks[s] \in Seq(Task) /\ session[w] # Idle
  BY <1>1, SettlingFacts DEF Settling, Idle
<1>4. tasks[s][i].status = "pending"
  BY <1>1, <1>3 DEF NeverCrossed
<1>5. /\ \A r \in Submissions : crossed'[r] = crossed[r]
      /\ tasks'[s] = next /\ \A r \in Submissions : r # s => tasks'[r] = tasks[r]
      /\ \A v \in Workers : session'[v] = IF v = w THEN Idle ELSE session[v]
  BY <1>2, <1>3, <1>4 DEF Decided, FormInv, TypeOK
<1>6. ASSUME NEW v \in Workers, session'[v] # Idle
      PROVE  tasks'[session'[v].sub][session'[v].task].status = "pending"
  <2>1. PICK c : c = session[v]
    OBVIOUS
  <2>2. v # w /\ session'[v] = c /\ c # Idle
    BY <1>5, <1>6, <2>1
  <2>3. CallSound(c) /\ c.sub \in Submissions /\ tasks[c.sub][c.task].status = "pending"
    BY <2>1, <2>2 DEF FormInv, TypeOK, Deciding, Settling, NeverCrossed
  <2>4. CASE c.sub # s
    BY <1>5, <2>2, <2>3, <2>4
  <2>5. CASE c.sub = s
    <3>1. c.task # i
      BY <1>1, <1>3, <2>1, <2>2, <2>5 DEF OneDecisionPerTask
    <3>2. c.task \in 1 .. Len(tasks[s])
      BY <2>3, <2>5 DEF CallSound
    <3>3. next[c.task].status = tasks[s][c.task].status
      BY <1>2, <3>1, <3>2 DEF Decided, Extends
    <3> QED
      BY <1>5, <2>2, <2>3, <2>5, <3>3
  <2> QED
    BY <2>4, <2>5
<1> QED
  BY <1>5, <1>6 DEF NeverCrossed

LEMMA AloneStep ==
    ASSUME FormInv, NeverCrossed, OneDecisionPerTask, [Next]_vars
    PROVE  NeverCrossed'
<1>1. ASSUME NEW w \in Workers, NEW s \in Submissions, NEW action \in Actions,
             NEW i \in DOMAIN tasks[s], ReadTask(w, s, i, action)
      PROVE  NeverCrossed'
  <2>1. /\ tasks' = tasks /\ crossed' = crossed /\ tasks[s][i].status = "pending"
        /\ session'[w].sub = s /\ session'[w].task = i
        /\ \A v \in Workers : v # w => session'[v] = session[v]
    BY <1>1 DEF ReadTask, FormInv, TypeOK
  <2> QED
    BY <2>1 DEF NeverCrossed
<1>2. ASSUME NEW w \in Workers, LockTask(w)
      PROVE  NeverCrossed'
  <2>1. /\ tasks' = tasks /\ crossed' = crossed /\ session[w] # Idle
        /\ session'[w].sub = session[w].sub /\ session'[w].task = session[w].task
        /\ \A v \in Workers : v # w => session'[v] = session[v]
    BY <1>2 DEF LockTask, FormInv, TypeOK, Idle
  <2> QED
    BY <2>1 DEF NeverCrossed
<1>3. ASSUME NEW w \in Workers, Abort(w)
      PROVE  NeverCrossed'
  <2>1. /\ tasks' = tasks /\ crossed' = crossed
        /\ \A v \in Workers : session'[v] = IF v = w THEN Idle ELSE session[v]
    BY <1>3 DEF Abort, FormInv, TypeOK
  <2> QED
    BY <2>1 DEF NeverCrossed
<1>4. ASSUME NEW w \in Workers, Submit(w)
      PROVE  NeverCrossed'
  <2>1. PICK s \in Submissions :
          /\ submission[s] = NoSubmission /\ session' = session /\ crossed' = crossed
          /\ \A r \in Submissions : r # s => tasks'[r] = tasks[r]
    BY <1>4 DEF Submit, SubmitForm, FormInv, TypeOK
  <2>2. \A v \in Workers : session[v] # Idle =>
           session[v].sub # s /\ session[v].sub \in Submissions
    BY <2>1 DEF FormInv, CallSound, Filed, TypeOK, Deciding, Settling
  <2> QED
    BY <2>1, <2>2 DEF NeverCrossed
<1>5. ASSUME NEW w \in Workers, RejectForm(w) \/ ApproveForm(w)
      PROVE  NeverCrossed'
  <2>1. PICK routed : routed = <<>> /\ routed \in Seq(Task)
    <3>1. <<>> \in Seq(Task)
      OBVIOUS
    <3> QED
      BY <3>1, Zenon
  <2>2. session[w].pc = "settling"
    BY <1>5 DEF RejectForm, ApproveForm
  <2>3. PICK status \in RequestStatus :
           /\ submission' = [submission EXCEPT ![session[w].sub].status = status]
           /\ Commit(w, status, routed)
    BY <1>5, <2>1 DEF RejectForm, ApproveForm, RequestStatus
  <2>4. \E after : submission' = [submission EXCEPT ![session[w].sub] = after]
    BY <2>3
  <2> QED
    BY <2>1, <2>2, <2>3, <2>4, CommitAlone
<1>6. ASSUME NEW w \in Workers, NEW step \in StepOrders, NEW approver \in Employees,
             RouteForm(w, step, approver)
      PROVE  NeverCrossed'
  <2>1. PICK routed : routed = <<[approver |-> approver, status |-> "pending"]>>
    OBVIOUS
  <2>2. routed \in Seq(Task)
    BY <2>1 DEF Task, RequestStatus
  <2>3. session[w].pc = "settling" /\ Commit(w, "approved", routed)
    BY <1>6, <2>1 DEF RouteForm
  <2>4. \E after : submission' = [submission EXCEPT ![session[w].sub] = after]
    BY <1>6 DEF RouteForm
  <2> QED
    BY <2>2, <2>3, <2>4, CommitAlone DEF RequestStatus
<1>7. CASE UNCHANGED vars
  BY <1>7 DEF vars, NeverCrossed
<1> QED
  BY <1>1, <1>2, <1>3, <1>4, <1>5, <1>6, <1>7 DEF Next, Decide

-----------------------------------------------------------------------------
(* Every required review is given. *)

\* The submission a step writes, and how it leaves the others.
LEMMA NoneLeftWritten ==
    ASSUME FormInv, NoneLeft, NEW s \in Submissions, NEW after,
           submission' = [submission EXCEPT ![s] = after],
           \A r \in Submissions : r # s => crossed'[r] = crossed[r],
           ~crossed'[s] /\ after.status = "approved" => NextSteps(after) = {}
    PROVE  NoneLeft'
<1>1. /\ submission'[s] = after
      /\ \A r \in Submissions : r # s => submission'[r] = submission[r]
  BY DEF FormInv, TypeOK
<1>2. ASSUME NEW r \in Submissions, r # s, Filed(r)', ~crossed'[r],
             submission'[r].status = "approved"
      PROVE  NextSteps(submission'[r]) = {}
  <2>1. submission'[r] = submission[r] /\ ~crossed[r] /\ Filed(r)
    BY <1>1, <1>2 DEF Filed
  <2> QED
    BY <1>2, <2>1 DEF NoneLeft
<1>3. ASSUME NEW r \in Submissions, Filed(r)', ~crossed'[r], submission'[r].status = "approved"
      PROVE  NextSteps(submission'[r]) = {}
  BY <1>1, <1>2, <1>3
<1> QED
  BY <1>3, Zenon DEF NoneLeft, NextSteps, Required, Step

LEMMA NoneLeftStep ==
    ASSUME FormInv, NoneLeft, [Next]_vars
    PROVE  NoneLeft'
<1>1. ASSUME submission' = submission, crossed' = crossed
      PROVE  NoneLeft'
  BY <1>1 DEF NoneLeft, Filed, NextSteps, Required, Step
<1>2. ASSUME NEW w \in Workers, Submit(w)
      PROVE  NoneLeft'
  <2>1. PICK s, form :
          /\ s \in Submissions /\ form.status = "pending" /\ crossed' = crossed
          /\ submission' = [submission EXCEPT ![s] = form]
    BY <1>2 DEF Submit, SubmitForm
  <2> QED
    BY <2>1, NoneLeftWritten
<1>3. ASSUME NEW w \in Workers, NEW status, NEW routed, session[w].pc = "settling",
             Commit(w, status, routed)
      PROVE  /\ session[w].sub \in Submissions /\ submission[session[w].sub] \in Form
             /\ \A r \in Submissions : r # session[w].sub => crossed'[r] = crossed[r]
  BY <1>3, SettlingFacts DEF Commit, FormInv, TypeOK
<1>4. ASSUME NEW w \in Workers, RejectForm(w)
      PROVE  NoneLeft'
  <2>1. PICK s, form, after :
          /\ s = session[w].sub /\ form = submission[s]
          /\ after = [form EXCEPT !.status = "rejected"]
    OBVIOUS
  <2>2. session[w].pc = "settling" /\ Commit(w, "rejected", <<>>)
        /\ submission' = [submission EXCEPT ![s] = after]
    BY <1>4, <2>1 DEF RejectForm
  <2>3. s \in Submissions /\ form \in Form
        /\ \A r \in Submissions : r # s => crossed'[r] = crossed[r]
    BY <1>3, <2>1, <2>2
  <2>4. after.status = "rejected"
    BY <2>1, <2>3 DEF Form
  <2> QED
    BY <2>2, <2>3, <2>4, NoneLeftWritten
<1>5. ASSUME NEW w \in Workers, NEW step \in StepOrders, NEW approver \in Employees,
             RouteForm(w, step, approver)
      PROVE  NoneLeft'
  <2>1. PICK s, form, after, routed :
          /\ s = session[w].sub /\ form = submission[s]
          /\ after = [form EXCEPT !.status = "pending", !.step = step]
          /\ routed = <<[approver |-> approver, status |-> "pending"]>>
    OBVIOUS
  <2>2. session[w].pc = "settling" /\ Commit(w, "approved", routed)
        /\ submission' = [submission EXCEPT ![s] = after]
    BY <1>5, <2>1 DEF RouteForm
  <2>3. s \in Submissions /\ form \in Form
        /\ \A r \in Submissions : r # s => crossed'[r] = crossed[r]
    BY <1>3, <2>1, <2>2
  <2>4. after.status = "pending"
    BY <2>1, <2>3 DEF Form
  <2> QED
    BY <2>2, <2>3, <2>4, NoneLeftWritten
<1>6. ASSUME NEW w \in Workers, ApproveForm(w)
      PROVE  NoneLeft'
  <2>1. PICK s, form, after :
          /\ s = session[w].sub /\ form = submission[s]
          /\ after = [form EXCEPT !.status = "approved"]
    OBVIOUS
  <2>2. /\ session[w].pc = "settling" /\ Commit(w, "approved", <<>>)
        /\ submission' = [submission EXCEPT ![s] = after] /\ NextSteps(session[w].seen) = {}
    BY <1>6, <2>1 DEF ApproveForm
  <2>3. s \in Submissions /\ form \in Form
        /\ \A r \in Submissions : r # s => crossed'[r] = crossed[r]
    BY <1>3, <2>1, <2>2
  <2>4. ASSUME ~crossed'[s]
        PROVE  NextSteps(after) = {}
    <3>1. session[w].seen = form
      BY <2>1, <2>2, <2>4, UncrossedFacts
    <3>2. /\ after.template = form.template /\ after.answers = form.answers
          /\ after.step = form.step
      BY <2>1, <2>3 DEF Form
    <3>3. Required(after) = Required(form)
      BY <3>2, SameRequired
    <3>4. NextSteps(after) = NextSteps(form)
      BY <3>2, <3>3 DEF NextSteps
    <3> QED
      BY <2>2, <3>1, <3>4
  <2> QED
    BY <2>2, <2>3, <2>4, NoneLeftWritten
<1>7. ASSUME NEW w \in Workers,
             \/ \E s \in Submissions, action \in Actions :
                    \E i \in DOMAIN tasks[s] : ReadTask(w, s, i, action)
             \/ LockTask(w) \/ Abort(w)
      PROVE  NoneLeft'
  BY <1>1, <1>7 DEF ReadTask, LockTask, Abort
<1>8. CASE UNCHANGED vars
  BY <1>1, <1>8 DEF vars
<1> QED
  BY <1>2, <1>4, <1>5, <1>6, <1>7, <1>8 DEF Next, Decide

\* Of one submission, what EveryReviewGiven asks.
ReviewsGiven(s) ==
    Filed(s) /\ submission[s].status = "approved" =>
        Cardinality({i \in DOMAIN tasks[s] : tasks[s][i].status = "approved"})
            >= Cardinality(Required(submission[s]))

LEMMA GivenUncrossed ==
    ASSUME FormInv, NoneLeft, NEW s \in Submissions, ~crossed[s]
    PROVE  ReviewsGiven(s)
<1> SUFFICES ASSUME Filed(s), submission[s].status = "approved"
             PROVE  Cardinality({i \in DOMAIN tasks[s] : tasks[s][i].status = "approved"})
                        >= Cardinality(Required(submission[s]))
  BY DEF ReviewsGiven
<1>1. PICK form, chain : form = submission[s] /\ chain = tasks[s]
  OBVIOUS
<1>2. /\ form \in Form /\ chain \in Seq(Task) /\ form.status = "approved"
      /\ Story(form, chain, events[s]) /\ Way(form, chain) /\ NextSteps(form) = {}
  BY <1>1 DEF FormInv, TypeOK, Told, Filed, NoneLeft
<1>3. form.template \in Templates
  BY <1>2 DEF Form
<1>4. Required(form) \subseteq Nat \ {0} /\ form.step \in Required(form)
  BY <1>2, <1>3, RequiredBounded DEF Way
<1>5. {i \in Required(form) : i <= form.step} = Required(form)
  BY <1>2, <1>3, <1>4, NoNextStep
<1>6. PICK last \in Nat : last = Len(chain)
  BY <1>2
<1>7. \A i \in 1 .. last : chain[i].status = "approved"
  BY <1>2, <1>6 DEF Story
<1>8. {i \in DOMAIN chain : chain[i].status = "approved"} = 1 .. last
  BY <1>2, <1>6, <1>7
<1>9. Cardinality(1 .. last) = last
  <2>1. last \in Int /\ 1 \in Int
    BY <1>6
  <2>2. Cardinality(1 .. last) = IF 1 > last THEN 0 ELSE last - 1 + 1
    BY <2>1, FS_Interval, Zenon
  <2> QED
    BY <1>6, <2>2
<1>10. Cardinality(Required(form)) = last
  BY <1>2, <1>5, <1>6 DEF Way
<1>11. Cardinality({i \in DOMAIN chain : chain[i].status = "approved"})
          >= Cardinality(Required(form))
  <2>1. Cardinality({i \in DOMAIN chain : chain[i].status = "approved"}) = last
    BY <1>8, <1>9, Zenon
  <2>2. last >= last
    BY <1>6
  <2> QED
    BY <1>10, <2>1, <2>2, Zenon
<1> QED
  BY <1>1, <1>11, Zenon

-----------------------------------------------------------------------------
LEMMA NoneLeftAlways == Spec => []NoneLeft
<1>1. Init => NoneLeft
  BY DEF Init, NoneLeft, Filed
<1>2. FormInv /\ NoneLeft /\ [Next]_vars => NoneLeft'
  BY NoneLeftStep
<1> QED
  BY <1>1, <1>2, FormAlways, PTL DEF Spec

(***************************************************************************)
(* A form is approved only with an approved task of every required step,   *)
(* unless two decisions of one of its tasks overlapped                     *)
(* (decideCustomFormApproval, service.ts; README.md:398).                  *)
(***************************************************************************)
THEOREM ReviewsGivenUncrossed ==
    Spec => [](\A s \in Submissions : ~crossed[s] => ReviewsGiven(s))
<1>1. FormInv /\ NoneLeft => \A s \in Submissions : ~crossed[s] => ReviewsGiven(s)
  BY GivenUncrossed
<1> QED
  BY <1>1, FormAlways, NoneLeftAlways, PTL

LEMMA AloneNeverCrosses == Spec /\ []OneDecisionPerTask => []NeverCrossed
<1>1. Init => NeverCrossed
  BY DEF Init, NeverCrossed
<1>2. FormInv /\ NeverCrossed /\ OneDecisionPerTask /\ [Next]_vars => NeverCrossed'
  BY AloneStep
<1> QED
  BY <1>1, <1>2, FormAlways, PTL DEF Spec

(***************************************************************************)
(* With one decision of a task at a time no review is ever skipped: what   *)
(* README.md:398 promises, and what overlapping decisions break.           *)
(***************************************************************************)
THEOREM AloneEveryReviewGiven == Spec /\ []OneDecisionPerTask => []EveryReviewGiven
<1>1. FormInv /\ NoneLeft /\ NeverCrossed => EveryReviewGiven
  BY GivenUncrossed DEF NeverCrossed, EveryReviewGiven, ReviewsGiven
<1> QED
  BY <1>1, FormAlways, NoneLeftAlways, AloneNeverCrosses, PTL

(***************************************************************************)
(* With one decision of a task at a time createCustomFormSubmission and    *)
(* decideApproval implement the abstract review, without a reservation:    *)
(* reviews in step order, the last one approves, a refusal ends the form.  *)
(***************************************************************************)
THEOREM AloneImplementsReview == Spec /\ []OneDecisionPerTask => Review!Spec
<1>1. Init => Review!Init
  BY DEF Init, Review!Init, reviewBar, Filed, Review!Unfiled
<1>2. NeverCrossed' /\ [(\A s \in Submissions : ~crossed'[s]) => [Review!Next]_reviewBar]_vars
        => [Review!Next]_reviewBar
  <2>1. vars' = vars => reviewBar' = reviewBar
    BY DEF vars, reviewBar, Filed, Required, Step
  <2> QED
    BY <2>1 DEF NeverCrossed
<1> QED
  BY <1>1, <1>2, ReviewImplemented, AloneNeverCrosses, PTL DEF Spec, Review!Spec, ReviewUntilCrossed
=============================================================================
