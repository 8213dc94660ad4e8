------------------------- MODULE ReportQueue_proofs -------------------------
(***************************************************************************)
(* Proofs about ReportQueue, for any number of calls, users and jobs, any  *)
(* limit and any number of attempts.                                       *)
(***************************************************************************)
EXTENDS ReportQueue, TLAPS

-----------------------------------------------------------------------------
(***************************************************************************)
(* The invariant speaks of jobs as they are stored and as calls have read  *)
(* them: since every writer puts back a changed copy, what is to hold of a *)
(* job must hold of each copy, too.  Only tries goes on meanwhile.         *)
(***************************************************************************)
Sound(x, n) ==
    /\ x \in Job
    /\ x.status # "pending_review" => x.review # "pending"
    /\ x.status = "pending_review" => x.queue.status = "waiting_for_review"
    /\ x.review = "approved" => x.reviewer \in Users \ {x.by}
    /\ x.status = "failed" => n = MaxAttempts
    /\ x.queue.attempts <= n
    /\ x.queue.status \in {"queued", "waiting_for_review"} => x.queue.attempts < MaxAttempts

TypesSound ==
    /\ archive \in [Jobs -> Archive]
    /\ session \in [Workers -> Session]
    /\ tries \in [Jobs -> 0 .. MaxAttempts]
    /\ raced \subseteq Jobs
    /\ crashes \in 0 .. MaxCrashes

JobsSound ==
    /\ DOMAIN job = Jobs /\ job = [j \in Jobs |-> job[j]]
    /\ \A j \in Jobs : job[j] = NoJob \/ Sound(job[j], tries[j])

\* Nothing is stored or downloaded of a job that awaits its review, or is no job yet.
ArchivesSound ==
    \A j \in Jobs : archive[j].stored \/ archive[j].status = "downloaded" =>
        Created(j) /\ job[j].review # "pending"

CallSound(s) ==
    /\ s.pc = "exporting" =>
         \A j \in s.jobs : /\ Created(j)
                           /\ Sound(s.seen[j], tries[j]) /\ s.seen[j].status = "queued"
                           /\ s.seen[j].queue.status = "queued"
                           /\ job[j].review # "pending"
    /\ s.pc = "reviewing" =>
         /\ Created(s.job)
         /\ Sound(s.seen, tries[s.job]) /\ s.seen.status = "pending_review"
         /\ s.user \in Users \ {s.seen.by}
    /\ s.pc = "downloading" => Created(s.job) /\ job[s.job].review # "pending"

CallsSound == \A w \in Workers : CallSound(session[w])

QueueInv == TypesSound /\ JobsSound /\ ArchivesSound /\ CallsSound

LEMMA Bounds == MaxJobs \in Nat \ {0} /\ MaxAttempts \in Nat \ {0} /\ MaxCrashes \in Nat
BY BoundsAssumption

LEMMA NoJobIsNoJob == NoJob \notin Job
BY DEF NoJob, Job, JobStatus

LEMMA CallFacts ==
    ASSUME TypesSound, NEW w \in Workers
    PROVE  LET s == session[w]
           IN  /\ s.pc = "exporting" => s \in Exporting
               /\ s.pc = "cleaning" => s \in [pc : {"cleaning"}, jobs : SUBSET Jobs]
               /\ s.pc = "reviewing" =>
                    s \in [pc : {"reviewing"}, job : Jobs, seen : Job, user : Users]
               /\ s.pc \in {"downloading", "expiring"} =>
                    s \in [pc : {"downloading", "expiring"}, job : Jobs]
<1>1. session[w] \in Session
  BY DEF TypesSound
<1> QED
  BY <1>1 DEF Session, Exporting, Idle

LEMMA InvImplies == QueueInv => TypeOK /\ ReviewedBySecond /\ NeverGivesUpEarly
<1> SUFFICES ASSUME QueueInv PROVE TypeOK /\ ReviewedBySecond /\ NeverGivesUpEarly
  OBVIOUS
<1>1. job \in [Jobs -> {NoJob} \cup Job]
  BY DEF QueueInv, JobsSound, Sound
<1>2. ASSUME NEW w \in Workers
      PROVE  \/ session[w].pc = "exporting" /\ session[w].jobs \subseteq Jobs
             \/ session[w] \in Session \ Exporting
  <2>1. session[w] \in Session
    BY DEF QueueInv, TypesSound
  <2> QED
    BY <2>1 DEF Exporting
<1>3. TypeOK
  BY <1>1, <1>2 DEF QueueInv, TypesSound, TypeOK
<1>4. ReviewedBySecond
  BY DEF QueueInv, JobsSound, ArchivesSound, Sound, Created, ReviewedBySecond
<1>5. NeverGivesUpEarly
  BY DEF QueueInv, JobsSound, Sound, NoJob, NeverGivesUpEarly
<1> QED
  BY <1>3, <1>4, <1>5

LEMMA QueueInit == Init => QueueInv
<1> SUFFICES ASSUME Init PROVE QueueInv
  OBVIOUS
<1>1. TypesSound
  BY Bounds DEF Init, TypesSound, Archive, Session
<1>2. JobsSound /\ ArchivesSound
  BY DEF Init, JobsSound, ArchivesSound
<1>3. CallsSound
  BY DEF Init, CallsSound, CallSound, Idle
<1> QED
  BY <1>1, <1>2, <1>3 DEF QueueInv

-----------------------------------------------------------------------------
(* The states of the queue. *)

LEMMA QueueOperators ==
    ASSUME NEW q \in Queue, q.attempts < MaxAttempts
    PROVE  /\ LET ready == MarkReady(MarkProcessing(q))
              IN  ready \in Queue /\ ready.attempts = q.attempts + 1 /\ ready.status = "ready"
           /\ LET failed == MarkFailed(MarkProcessing(q))
              IN  /\ failed \in Queue /\ failed.attempts = q.attempts + 1
                  /\ failed.status = IF q.attempts + 1 >= MaxAttempts THEN "failed" ELSE "queued"
           /\ \A background \in BOOLEAN :
                LET next == AdvanceAfterReview(q, background)
                IN  /\ next \in Queue /\ next.attempts = q.attempts
                    /\ next.status = IF background THEN "queued" ELSE "ready"
<1> DEFINE p == MarkProcessing(q)
<1>1. q \in [status : QueueStatus, attempts : 0 .. MaxAttempts, due : BOOLEAN]
  BY DEF Queue
<1>2. p \in Queue /\ p.attempts = q.attempts + 1
  <2>1. p = [status |-> "processing", attempts |-> q.attempts + 1, due |-> FALSE]
    <3>1. q = [status |-> q.status, attempts |-> q.attempts, due |-> q.due]
      BY <1>1
    <3>2. p = [[status |-> q.status, attempts |-> q.attempts, due |-> q.due]
                  EXCEPT !.status = "processing", !.attempts = q.attempts + 1, !.due = FALSE]
      BY <3>1 DEF MarkProcessing
    <3> QED
      BY <3>2
  <2>2. q.attempts + 1 \in 0 .. MaxAttempts
    BY <1>1, Bounds
  <2> HIDE DEF p
  <2> QED
    BY <2>1, <2>2 DEF Queue, QueueStatus
<1> HIDE DEF p
<1>3. MarkReady(p) \in Queue /\ MarkReady(p).attempts = p.attempts /\ MarkReady(p).status = "ready"
  BY <1>2 DEF Queue, MarkReady, QueueStatus
<1>4. /\ MarkFailed(p) \in Queue /\ MarkFailed(p).attempts = p.attempts
      /\ MarkFailed(p).status = IF p.attempts >= MaxAttempts THEN "failed" ELSE "queued"
  BY <1>2 DEF Queue, MarkFailed, QueueStatus
<1>5. ASSUME NEW background \in BOOLEAN
      PROVE  LET next == AdvanceAfterReview(q, background)
             IN  /\ next \in Queue /\ next.attempts = q.attempts
                 /\ next.status = IF background THEN "queued" ELSE "ready"
  BY <1>1 DEF Queue, AdvanceAfterReview, QueueStatus
<1> QED
  BY <1>2, <1>3, <1>4, <1>5 DEF p

-----------------------------------------------------------------------------
(* Steps. *)

\* A call goes on or ends; jobs and archives stay.
LEMMA BecomeKeeps ==
    ASSUME QueueInv, NEW w \in Workers, NEW s \in Session, CallSound(s), Become(w, s),
           UNCHANGED <<job, archive, tries, raced>>, crashes' \in 0 .. MaxCrashes
    PROVE  QueueInv'
<1>1. session' = [session EXCEPT ![w] = s]
  BY DEF Become
<1>2. TypesSound'
  BY <1>1 DEF QueueInv, TypesSound
<1>3. JobsSound' /\ ArchivesSound'
  BY DEF QueueInv, JobsSound, ArchivesSound, Sound, Created
<1>4. CallsSound'
  <2> SUFFICES ASSUME NEW v \in Workers
               PROVE  CallSound(session[v])'
    BY DEF CallsSound
  <2>1. CallSound(session'[v])
    BY <1>1 DEF QueueInv, TypesSound, CallsSound
  <2> QED
    BY <2>1 DEF CallSound, Sound, Created
<1> QED
  BY <1>2, <1>3, <1>4 DEF QueueInv

LEMMA ReadForReviewKeeps ==
    ASSUME QueueInv, NEW w \in Workers, NEW j \in Jobs, NEW user \in Users,
           ReadForReview(w, j, user)
    PROVE  QueueInv'
<1> DEFINE s == [pc |-> "reviewing", job |-> j, seen |-> job[j], user |-> user]
<1>1. job[j].status = "pending_review" /\ user # job[j].by
  BY DEF ReadForReview
<1>2. Sound(job[j], tries[j]) /\ Created(j)
  BY <1>1 DEF QueueInv, JobsSound, NoJob, Created
<1>3. s \in Session
  BY <1>2 DEF Session, Sound
<1>4. CallSound(s)
  BY <1>1, <1>2 DEF CallSound
<1>5. Become(w, s) /\ UNCHANGED <<job, archive, tries, raced>> /\ crashes' \in 0 .. MaxCrashes
  BY DEF ReadForReview, QueueInv, TypesSound
<1> HIDE DEF s
<1> QED
  BY <1>3, <1>4, <1>5, BecomeKeeps

LEMMA ReadQueueKeeps ==
    ASSUME QueueInv, NEW w \in Workers, NEW wanted \in SUBSET Jobs, NEW cleanup \in BOOLEAN,
           ReadQueue(w, wanted, cleanup)
    PROVE  QueueInv'
<1> DEFINE picked == {j \in Oldest({i \in wanted : job[i].status = "queued"}) : IsDue(job[j].queue)}
           s == [pc |-> "exporting", cleanup |-> cleanup, seen |-> job, jobs |-> picked]
<1>1. \A j \in picked : j \in Jobs /\ job[j].status = "queued" /\ job[j].queue.status = "queued"
  BY DEF Oldest, IsDue
<1>2. \A j \in picked : Sound(job[j], tries[j]) /\ Created(j) /\ job[j].review # "pending"
  BY <1>1 DEF QueueInv, JobsSound, NoJob, Created, Sound
<1>3. Become(w, s) /\ UNCHANGED <<job, archive, tries, raced>> /\ crashes' \in 0 .. MaxCrashes
  BY DEF ReadQueue, QueueInv, TypesSound
<1> HIDE DEF picked
<1>4. job \in [Jobs -> {NoJob} \cup Job]
  BY DEF QueueInv, JobsSound, Sound
<1>5. s \in Exporting
  BY <1>1, <1>4 DEF Exporting
<1>6. CallSound(s)
  BY <1>1, <1>2 DEF CallSound
<1> HIDE DEF s
<1> QED
  BY <1>3, <1>5, <1>6, BecomeKeeps DEF Session

LEMMA ReadForDownloadKeeps ==
    ASSUME QueueInv, NEW w \in Workers, NEW j \in Jobs, ReadForDownload(w, j)
    PROVE  QueueInv'
<1> DEFINE s == [pc |-> IF archive[j].late THEN "expiring" ELSE "downloading", job |-> j]
<1>1. Become(w, s) /\ UNCHANGED <<job, archive, tries, raced>> /\ crashes' \in 0 .. MaxCrashes
  BY DEF ReadForDownload, QueueInv, TypesSound
<1>2. s \in Session
  BY DEF Session
<1>3. CallSound(s)
  BY DEF CallSound, ReadForDownload, ReadyForDownload
<1> HIDE DEF s
<1> QED
  BY <1>1, <1>2, <1>3, BecomeKeeps

LEMMA EndKeeps ==
    ASSUME QueueInv, NEW w \in Workers, EndExport(w) \/ EndCleanUp(w) \/ Abort(w)
    PROVE  QueueInv'
<1>1. Idle \in Session /\ CallSound(Idle)
  BY DEF Session, Idle, CallSound
<1>2. ASSUME EndExport(w)
      PROVE  QueueInv'
  <2> DEFINE s == IF session[w].cleanup THEN [pc |-> "cleaning", jobs |-> Oldest(Expired)] ELSE Idle
  <2>1. Oldest(Expired) \subseteq Jobs
    BY DEF Oldest, Expired
  <2>2. s \in Session /\ CallSound(s)
    BY <1>1, <2>1 DEF Session, CallSound
  <2>3. Become(w, s) /\ UNCHANGED <<job, archive, tries, raced>> /\ crashes' \in 0 .. MaxCrashes
    BY <1>2 DEF EndExport, QueueInv, TypesSound
  <2> HIDE DEF s
  <2> QED
    BY <2>2, <2>3, BecomeKeeps
<1>3. ASSUME EndCleanUp(w)
      PROVE  QueueInv'
  BY <1>1, <1>3, BecomeKeeps DEF EndCleanUp, QueueInv, TypesSound
<1>4. ASSUME Abort(w)
      PROVE  QueueInv'
  <2>1. crashes' \in 0 .. MaxCrashes
    BY <1>4, Bounds DEF Abort, QueueInv, TypesSound
  <2> QED
    BY <1>1, <1>4, <2>1, BecomeKeeps DEF Abort
<1> QED
  BY <1>2, <1>3, <1>4

-----------------------------------------------------------------------------
(* Steps that write a job. *)

\* What holds of a copy goes on to hold while the job is tried.
LEMMA SoundStays ==
    ASSUME TypesSound, NEW j \in Jobs, NEW x, Sound(x, tries[j]),
           tries'[j] \in 0 .. MaxAttempts, tries[j] <= tries'[j]
    PROVE  Sound(x, tries'[j])
<1>1. tries[j] \in 0 .. MaxAttempts /\ MaxAttempts \in Nat
  BY Bounds DEF TypesSound
<1>2. x.queue.attempts \in Int
  BY DEF Sound, Job, Queue
<1> QED
  BY <1>1, <1>2 DEF Sound

LEMMA WriteKeeps ==
    ASSUME QueueInv, NEW j \in Jobs, NEW new, Sound(new, tries'[j]), job' = [job EXCEPT ![j] = new],
           Created(j) /\ job[j].review # "pending" => new.review # "pending",
           tries' \in [Jobs -> 0 .. MaxAttempts], \A i \in Jobs : tries[i] <= tries'[i],
           archive' \in [Jobs -> Archive],
           \A i \in Jobs : archive'[i].stored \/ archive'[i].status = "downloaded" =>
              \/ archive[i].stored \/ archive[i].status = "downloaded"
              \/ i = j /\ new.review # "pending",
           raced' \subseteq Jobs, crashes' = crashes,
           session' = [v \in Workers |-> session'[v]],
           \A v \in Workers :
              \/ session'[v] = session[v]
              \/ session'[v] = Idle
              \/ session[v] \in Exporting /\ session'[v] = [session[v] EXCEPT !.jobs = session[v].jobs \ {j}]
    PROVE  QueueInv'
<1>1. job'[j] = new /\ \A i \in Jobs : i # j => job'[i] = job[i]
  BY DEF QueueInv, JobsSound
<1>2. Created(j)' /\ new \in Job
  BY <1>1, NoJobIsNoJob DEF Sound, Created
<1>3. \A i \in Jobs : Created(i) =>
        Created(i)' /\ (job[i].review # "pending" => job'[i].review # "pending")
  BY <1>1, <1>2 DEF Created
<1>4. \A i \in Jobs : \A x : Sound(x, tries[i]) => Sound(x, tries'[i])
  BY SoundStays DEF QueueInv
<1>5. JobsSound'
  <2>1. DOMAIN job' = Jobs /\ job' = [i \in Jobs |-> job'[i]]
    BY DEF QueueInv, JobsSound
  <2>2. ASSUME NEW i \in Jobs
        PROVE  job'[i] = NoJob \/ Sound(job'[i], tries'[i])
    <3>1. CASE i = j
      BY <1>1, <3>1
    <3>2. CASE i # j
      BY <1>1, <1>4, <3>2 DEF QueueInv, JobsSound
    <3> QED
      BY <3>1, <3>2
  <2> QED
    BY <2>1, <2>2 DEF JobsSound
<1>6. ArchivesSound'
  BY <1>1, <1>2, <1>3 DEF QueueInv, ArchivesSound
<1>7. ASSUME NEW v \in Workers
      PROVE  session'[v] \in Session /\ CallSound(session[v])'
  <2>1. session[v] \in Session /\ CallSound(session[v])
    BY DEF QueueInv, TypesSound, CallsSound
  <2>2. ASSUME NEW s \in Session, CallSound(s)
        PROVE  CallSound(s)'
    <3>1. /\ s.pc = "exporting" => s \in Exporting
          /\ s.pc \in {"reviewing", "downloading"} => s.job \in Jobs
      BY <2>2 DEF Session, Exporting, Idle
    <3>2. ASSUME s.pc = "exporting"
          PROVE  \A i \in s.jobs : /\ Created(i)'
                                   /\ Sound(s.seen[i], tries'[i]) /\ s.seen[i].status = "queued"
                                   /\ s.seen[i].queue.status = "queued"
                                   /\ job'[i].review # "pending"
      BY <1>3, <1>4, <2>2, <3>1, <3>2 DEF CallSound, Exporting
    <3>3. ASSUME s.pc = "reviewing"
          PROVE  /\ Created(s.job)'
                 /\ Sound(s.seen, tries'[s.job]) /\ s.seen.status = "pending_review"
                 /\ s.user \in Users \ {s.seen.by}
      BY <1>3, <1>4, <2>2, <3>1, <3>3 DEF CallSound
    <3>4. ASSUME s.pc = "downloading"
          PROVE  Created(s.job)' /\ job'[s.job].review # "pending"
      BY <1>3, <2>2, <3>1, <3>4 DEF CallSound
    <3> QED
      BY <3>2, <3>3, <3>4 DEF CallSound
  <2>3. Idle \in Session /\ CallSound(Idle)
    BY DEF Session, Idle, CallSound
  <2>4. ASSUME session[v] \in Exporting
        PROVE  /\ [session[v] EXCEPT !.jobs = session[v].jobs \ {j}] \in Session
               /\ CallSound([session[v] EXCEPT !.jobs = session[v].jobs \ {j}])
    BY <2>1, <2>4 DEF Session, Exporting, CallSound
  <2>5. PICK s : s = session'[v]
    OBVIOUS
  <2>6. s \in Session /\ CallSound(s)
    BY <2>1, <2>3, <2>4, <2>5
  <2>7. CallSound(s)'
    BY <2>2, <2>6
  <2> QED
    BY <2>5, <2>6, <2>7
<1>8. TypesSound'
  <2>1. session' \in [Workers -> Session]
    BY <1>7
  <2> QED
    BY <2>1 DEF QueueInv, TypesSound
<1>9. CallsSound'
  BY <1>7 DEF CallsSound
<1> QED
  BY <1>5, <1>6, <1>8, <1>9 DEF QueueInv

LEMMA CreateReportKeeps ==
    ASSUME QueueInv, NEW w \in Workers, NEW j \in Jobs, NEW background \in BOOLEAN,
           NEW sensitive \in BOOLEAN, NEW user \in Users,
           CreateReport(w, j, background, sensitive, user)
    PROVE  QueueInv'
<1> DEFINE status == IF sensitive THEN "pending_review"
                     ELSE IF background THEN "queued" ELSE "generated"
           new == [status |-> status, background |-> background,
                   review |-> IF sensitive THEN "pending" ELSE "not_required",
                   by |-> user, reviewer |-> "nobody", queue |-> NewQueue(status)]
<1>1. /\ job' = [job EXCEPT ![j] = new] /\ ~Created(j)
      /\ UNCHANGED <<archive, session, tries, raced, crashes>>
  BY DEF CreateReport
<1>2. /\ NewQueue(status) \in Queue /\ NewQueue(status).attempts = 0
      /\ status = "pending_review" => NewQueue(status).status = "waiting_for_review"
  BY Bounds DEF NewQueue, Queue, QueueStatus
<1>3. status \in JobStatus
  BY DEF JobStatus
<1>4. new \in Job
  BY <1>2, <1>3 DEF Job
<1>5. tries[j] \in 0 .. MaxAttempts /\ tries' = tries
  BY <1>1 DEF QueueInv, TypesSound
<1>6. Sound(new, tries'[j])
  BY <1>2, <1>4, <1>5, Bounds DEF Sound
<1> HIDE DEF new
<1>7. tries \in [Jobs -> 0 .. MaxAttempts] /\ \A i \in Jobs : tries[i] <= tries[i]
  BY Bounds DEF QueueInv, TypesSound
<1> QED
  BY <1>1, <1>5, <1>6, <1>7, WriteKeeps DEF QueueInv, TypesSound

LEMMA ApproveReviewKeeps ==
    ASSUME QueueInv, NEW w \in Workers, ApproveReview(w)
    PROVE  QueueInv'
<1> DEFINE s == session[w]
           j == s.job
           old == s.seen
           queue == AdvanceAfterReview(old.queue, old.background)
           new == [old EXCEPT !.status = IF queue.status = "queued" THEN "queued" ELSE "generated",
                              !.review = "approved", !.reviewer = s.user, !.queue = queue]
<1>1. /\ s \in [pc : {"reviewing"}, job : Jobs, seen : Job, user : Users]
      /\ s.pc = "reviewing"
  BY CallFacts DEF QueueInv, ApproveReview
<1>2. /\ j \in Jobs /\ old \in Job /\ Sound(old, tries[j]) /\ Created(j)
      /\ old.status = "pending_review" /\ s.user \in Users \ {old.by}
  BY <1>1 DEF QueueInv, CallsSound, CallSound
<1>3. /\ old.queue \in Queue /\ old.queue.attempts < MaxAttempts /\ old.background \in BOOLEAN
  BY <1>2 DEF Sound, Job
<1>4. /\ queue \in Queue /\ queue.attempts = old.queue.attempts
      /\ queue.status = IF old.background THEN "queued" ELSE "ready"
  BY <1>3, QueueOperators
<1>5. /\ job' = [job EXCEPT ![j] = new]
      /\ raced' = IF job[j] # old THEN raced \cup {j} ELSE raced
      /\ session' = [session EXCEPT ![w] = Idle]
      /\ UNCHANGED <<archive, tries, crashes>>
  BY DEF ApproveReview, Write, Become
<1> HIDE DEF s, j, old, queue
<1>6. /\ new \in Job /\ new.review = "approved" /\ new.reviewer = s.user /\ new.by = old.by
      /\ new.queue = queue /\ new.status \in {"queued", "generated"}
  BY <1>2, <1>4 DEF Job, JobStatus
<1>7. Sound(new, tries'[j])
  <2>1. tries' = tries
    BY <1>5
  <2>2. queue.attempts <= tries[j]
    BY <1>2, <1>4 DEF Sound
  <2>3. queue.attempts < MaxAttempts
    BY <1>3, <1>4
  <2> QED
    BY <1>2, <1>6, <2>1, <2>2, <2>3 DEF Sound
<1> HIDE DEF new
<1>8. /\ tries \in [Jobs -> 0 .. MaxAttempts] /\ \A i \in Jobs : tries[i] <= tries[i]
      /\ raced' \subseteq Jobs /\ archive \in [Jobs -> Archive]
  BY <1>2, <1>5, Bounds DEF QueueInv, TypesSound
<1>9. /\ session' = [v \in Workers |-> session'[v]]
      /\ \A v \in Workers : session'[v] = session[v] \/ session'[v] = Idle
  BY <1>5 DEF QueueInv, TypesSound
<1>10. new.review # "pending"
  BY <1>6
<1> QED
  BY <1>2, <1>5, <1>7, <1>8, <1>9, <1>10, WriteKeeps

\* What a call knows of the job it exports.
LEMMA ExportFacts ==
    ASSUME QueueInv, NEW w \in Workers, NEW j \in Jobs,
           session[w].pc = "exporting", Current(w, j)
    PROVE  LET old == session[w].seen[j]
           IN  /\ session[w] \in Exporting
               /\ Created(j) /\ job[j].review # "pending" /\ Sound(old, tries[j])
               /\ old \in Job /\ old.status = "queued" /\ old.review # "pending"
               /\ old.queue \in Queue /\ old.queue.attempts < MaxAttempts
<1>1. session[w] \in Exporting /\ j \in session[w].jobs
  BY CallFacts DEF QueueInv, Current
<1>2. CallSound(session[w])
  BY DEF QueueInv, CallsSound
<1> QED
  BY <1>1, <1>2 DEF CallSound, Sound, Job

\* How an export is counted.
LEMMA TriedFacts ==
    ASSUME QueueInv, NEW j \in Jobs, Tried(j)
    PROVE  /\ tries' \in [Jobs -> 0 .. MaxAttempts]
           /\ \A i \in Jobs : tries[i] <= tries'[i]
           /\ \A n \in Nat : n < MaxAttempts /\ n <= tries[j] => n + 1 <= tries'[j]
<1>1. tries' = [tries EXCEPT ![j] = IF tries[j] < MaxAttempts THEN tries[j] + 1 ELSE tries[j]]
  BY DEF Tried
<1>2. tries \in [Jobs -> 0 .. MaxAttempts]
  BY DEF QueueInv, TypesSound
<1> QED
  BY <1>1, <1>2, Bounds

\* One export after the other.
LEMMA AdvanceFacts ==
    ASSUME QueueInv, NEW w \in Workers, NEW j \in Jobs, Advance(w, j),
           session[w] \in Exporting
    PROVE  /\ session' = [v \in Workers |-> session'[v]]
           /\ \A v \in Workers :
                \/ session'[v] = session[v]
                \/ session[v] \in Exporting
                   /\ session'[v] = [session[v] EXCEPT !.jobs = session[v].jobs \ {j}]
<1>1. session' = [session EXCEPT ![w] = [session[w] EXCEPT !.jobs = session[w].jobs \ {j}]]
  BY DEF Advance, Become
<1> QED
  BY <1>1 DEF QueueInv, TypesSound

LEMMA ExportJobKeeps ==
    ASSUME QueueInv, NEW w \in Workers, NEW j \in Jobs, ExportJob(w, j)
    PROVE  QueueInv'
<1> DEFINE old == session[w].seen[j]
           queue == MarkReady(MarkProcessing(old.queue))
           new == [old EXCEPT !.status = "generated", !.queue = queue]
<1>1. /\ session[w] \in Exporting /\ Created(j) /\ Sound(old, tries[j])
      /\ old \in Job /\ old.status = "queued" /\ old.review # "pending"
      /\ old.queue \in Queue /\ old.queue.attempts < MaxAttempts
  BY ExportFacts DEF ExportJob
<1>2. queue \in Queue /\ queue.attempts = old.queue.attempts + 1 /\ queue.status = "ready"
  BY <1>1, QueueOperators
<1>3. /\ job' = [job EXCEPT ![j] = new]
      /\ raced' = IF job[j] # old THEN raced \cup {j} ELSE raced
      /\ archive' = [archive EXCEPT ![j].stored = TRUE]
      /\ Tried(j) /\ Advance(w, j) /\ crashes' = crashes
  BY DEF ExportJob, Write
<1>4. /\ tries' \in [Jobs -> 0 .. MaxAttempts] /\ \A i \in Jobs : tries[i] <= tries'[i]
      /\ \A n \in Nat : n < MaxAttempts /\ n <= tries[j] => n + 1 <= tries'[j]
  BY <1>3, TriedFacts
<1> HIDE DEF old, queue
<1>5. /\ new \in Job /\ new.status = "generated" /\ new.queue = queue
      /\ new.review = old.review /\ new.reviewer = old.reviewer /\ new.by = old.by
  BY <1>1, <1>2 DEF Job, JobStatus
<1>6. Sound(new, tries'[j])
  <2>1. old.queue.attempts \in Nat /\ old.queue.attempts <= tries[j]
    BY <1>1 DEF Sound, Queue
  <2>2. queue.attempts <= tries'[j]
    BY <1>1, <1>2, <1>4, <2>1
  <2>3. old.review = "approved" => old.reviewer \in Users \ {old.by}
    BY <1>1 DEF Sound
  <2> QED
    BY <1>1, <1>2, <1>5, <2>2, <2>3 DEF Sound
<1>7. new.review # "pending"
  BY <1>1, <1>5
<1> HIDE DEF new
<1>8. raced' \subseteq Jobs
  BY <1>3 DEF QueueInv, TypesSound
<1>9. /\ archive' \in [Jobs -> Archive]
      /\ \A i \in Jobs : archive'[i].stored \/ archive'[i].status = "downloaded" =>
              archive[i].stored \/ archive[i].status = "downloaded" \/ i = j
  <2>1. archive \in [Jobs -> Archive]
    BY DEF QueueInv, TypesSound
  <2> QED
    BY <1>3, <2>1 DEF Archive
<1>10. /\ session' = [v \in Workers |-> session'[v]]
       /\ \A v \in Workers :
            \/ session'[v] = session[v]
            \/ session[v] \in Exporting
               /\ session'[v] = [session[v] EXCEPT !.jobs = session[v].jobs \ {j}]
  BY <1>1, <1>3, AdvanceFacts
<1> QED
  BY <1>3, <1>4, <1>6, <1>7, <1>8, <1>9, <1>10, WriteKeeps

LEMMA FailJobKeeps ==
    ASSUME QueueInv, NEW w \in Workers, NEW j \in Jobs, FailJob(w, j)
    PROVE  QueueInv'
<1> DEFINE old == session[w].seen[j]
           queue == MarkFailed(MarkProcessing(old.queue))
           new == [old EXCEPT !.status = IF queue.status = "failed" THEN "failed" ELSE "queued",
                              !.queue = queue]
<1>1. /\ session[w] \in Exporting /\ Created(j) /\ Sound(old, tries[j])
      /\ old \in Job /\ old.status = "queued" /\ old.review # "pending"
      /\ old.queue \in Queue /\ old.queue.attempts < MaxAttempts
  BY ExportFacts DEF FailJob
<1>2. /\ queue \in Queue /\ queue.attempts = old.queue.attempts + 1
      /\ queue.status = IF old.queue.attempts + 1 >= MaxAttempts THEN "failed" ELSE "queued"
  BY <1>1, QueueOperators
<1>3. /\ job' = [job EXCEPT ![j] = new]
      /\ raced' = IF job[j] # old THEN raced \cup {j} ELSE raced
      /\ Tried(j) /\ Advance(w, j) /\ UNCHANGED <<archive, crashes>>
  BY DEF FailJob, Write
<1>4. /\ tries' \in [Jobs -> 0 .. MaxAttempts] /\ \A i \in Jobs : tries[i] <= tries'[i]
      /\ \A n \in Nat : n < MaxAttempts /\ n <= tries[j] => n + 1 <= tries'[j]
  BY <1>3, TriedFacts
<1> HIDE DEF old, queue
<1>5. /\ new \in Job /\ new.status = (IF queue.status = "failed" THEN "failed" ELSE "queued")
      /\ new.queue = queue /\ new.review = old.review /\ new.reviewer = old.reviewer
      /\ new.by = old.by
  BY <1>1, <1>2 DEF Job, JobStatus
<1>6. Sound(new, tries'[j])
  <2>1. old.queue.attempts \in Nat /\ old.queue.attempts <= tries[j]
    BY <1>1 DEF Sound, Queue
  <2>2. queue.attempts <= tries'[j] /\ queue.attempts \in Nat
    BY <1>1, <1>2, <1>4, <2>1
  <2>3. old.review = "approved" => old.reviewer \in Users \ {old.by}
    BY <1>1 DEF Sound
  <2>4. tries'[j] \in 0 .. MaxAttempts
    BY <1>4
  <2>5. queue.status = "failed" => tries'[j] = MaxAttempts
    BY <1>2, <2>1, <2>2, <2>4, Bounds
  <2>6. queue.status = "queued" => queue.attempts < MaxAttempts
    BY <1>2, <2>1, Bounds
  <2>7. queue.status \in {"failed", "queued"}
    BY <1>2
  <2> QED
    BY <1>1, <1>5, <2>2, <2>3, <2>5, <2>6, <2>7 DEF Sound
<1>7. new.review # "pending"
  BY <1>1, <1>5
<1> HIDE DEF new
<1>8. raced' \subseteq Jobs /\ archive \in [Jobs -> Archive]
  BY <1>3 DEF QueueInv, TypesSound
<1>9. /\ session' = [v \in Workers |-> session'[v]]
       /\ \A v \in Workers :
            \/ session'[v] = session[v]
            \/ session[v] \in Exporting
               /\ session'[v] = [session[v] EXCEPT !.jobs = session[v].jobs \ {j}]
  BY <1>1, <1>3, AdvanceFacts
<1> QED
  BY <1>3, <1>4, <1>6, <1>7, <1>8, <1>9, WriteKeeps

LEMMA RetryFallsDueKeeps ==
    ASSUME QueueInv, NEW j \in Jobs, RetryFallsDue(j)
    PROVE  QueueInv'
<1> DEFINE old == job[j]
           new == [old EXCEPT !.queue.due = TRUE]
<1>1. Sound(old, tries[j])
  BY DEF QueueInv, JobsSound, RetryFallsDue, Created
<1>2. /\ job' = [job EXCEPT ![j].queue.due = TRUE]
      /\ UNCHANGED <<archive, session, tries, raced, crashes>>
  BY DEF RetryFallsDue
<1>3. job' = [job EXCEPT ![j] = new]
  BY <1>2 DEF QueueInv, JobsSound
<1> HIDE DEF old
<1>4. /\ new \in Job /\ new.status = old.status /\ new.review = old.review
      /\ new.reviewer = old.reviewer /\ new.by = old.by
      /\ new.queue.attempts = old.queue.attempts /\ new.queue.status = old.queue.status
  <2>1. old \in Job /\ old.queue \in Queue
    BY <1>1 DEF Sound, Job
  <2>2. new = [old EXCEPT !.queue = [old.queue EXCEPT !.due = TRUE]]
    OBVIOUS
  <2>3. /\ [old.queue EXCEPT !.due = TRUE] \in Queue
        /\ [old.queue EXCEPT !.due = TRUE].attempts = old.queue.attempts
        /\ [old.queue EXCEPT !.due = TRUE].status = old.queue.status
    BY <2>1 DEF Queue
  <2> QED
    BY <2>1, <2>2, <2>3 DEF Job
<1>5. Sound(new, tries'[j])
  BY <1>1, <1>2, <1>4 DEF Sound
<1>6. job[j].review # "pending" => new.review # "pending"
  BY <1>4 DEF old
<1> HIDE DEF new
<1>7. /\ tries \in [Jobs -> 0 .. MaxAttempts] /\ \A i \in Jobs : tries[i] <= tries[i]
      /\ raced \subseteq Jobs /\ archive \in [Jobs -> Archive]
      /\ session = [v \in Workers |-> session[v]]
  BY Bounds DEF QueueInv, TypesSound
<1> QED
  BY <1>2, <1>3, <1>5, <1>6, <1>7, WriteKeeps

-----------------------------------------------------------------------------
(* Steps that write an archive. *)

LEMMA ArchiveWriteKeeps ==
    ASSUME QueueInv, NEW j \in Jobs, NEW a \in Archive, archive' = [archive EXCEPT ![j] = a],
           a.stored \/ a.status = "downloaded" =>
              \/ archive[j].stored \/ archive[j].status = "downloaded"
              \/ Created(j) /\ job[j].review # "pending",
           UNCHANGED <<job, tries, raced, crashes>>,
           session' \in [Workers -> Session], \A v \in Workers : CallSound(session'[v])
    PROVE  QueueInv'
<1>1. TypesSound'
  BY DEF QueueInv, TypesSound
<1>2. JobsSound'
  BY DEF QueueInv, JobsSound
<1>3. ArchivesSound'
  BY DEF QueueInv, TypesSound, ArchivesSound, Created
<1>4. ASSUME NEW v \in Workers
      PROVE  CallSound(session[v])'
  <2>1. CallSound(session'[v])
    OBVIOUS
  <2> QED
    BY <2>1 DEF CallSound, Created
<1> QED
  BY <1>1, <1>2, <1>3, <1>4 DEF QueueInv, CallsSound

LEMMA CleanUpKeeps ==
    ASSUME QueueInv, NEW w \in Workers, NEW j \in Jobs, CleanUp(w, j)
    PROVE  QueueInv'
<1> DEFINE a == [archive[j] EXCEPT !.status = "expired"]
           s == [session[w] EXCEPT !.jobs = session[w].jobs \ {j}]
<1>1. archive' = [archive EXCEPT ![j] = a] /\ session' = [session EXCEPT ![w] = s]
  BY DEF CleanUp, Advance, Become
<1>2. archive[j] \in Archive
  BY DEF QueueInv, TypesSound
<1>3. a \in Archive /\ a.stored = archive[j].stored /\ a.status = "expired"
  BY <1>2 DEF Archive
<1>4. session[w] \in [pc : {"cleaning"}, jobs : SUBSET Jobs]
  BY CallFacts DEF CleanUp, QueueInv
<1>5. s \in Session /\ CallSound(s)
  BY <1>4 DEF Session, CallSound
<1> HIDE DEF s
<1>6. session' \in [Workers -> Session] /\ \A v \in Workers : CallSound(session'[v])
  BY <1>1, <1>5 DEF QueueInv, TypesSound, CallsSound
<1>7. UNCHANGED <<job, tries, raced, crashes>>
  BY DEF CleanUp
<1>8. j \in Jobs /\ (a.stored \/ a.status = "downloaded" => archive[j].stored)
  BY <1>3
<1> HIDE DEF a
<1> QED
  BY <1>1, <1>3, <1>6, <1>7, <1>8, ArchiveWriteKeeps

LEMMA MarkKeeps ==
    ASSUME QueueInv, NEW w \in Workers, MarkDownloaded(w) \/ MarkExpired(w)
    PROVE  QueueInv'
<1> DEFINE j == session[w].job
           status == IF session[w].pc = "downloading" THEN "downloaded" ELSE "expired"
           a == [archive[j] EXCEPT !.status = status]
<1>1. archive' = [archive EXCEPT ![j] = a] /\ session' = [session EXCEPT ![w] = Idle]
  BY DEF MarkDownloaded, MarkExpired, Become
<1>2. session[w].pc \in {"downloading", "expiring"} /\ j \in Jobs
  BY CallFacts DEF MarkDownloaded, MarkExpired, QueueInv
<1>3. session[w].pc = "downloading" => Created(j) /\ job[j].review # "pending"
  BY DEF QueueInv, CallsSound, CallSound
<1>4. archive[j] \in Archive
  BY <1>2 DEF QueueInv, TypesSound
<1>5. a \in Archive /\ a.stored = archive[j].stored /\ a.status = status
  BY <1>4 DEF Archive
<1>6. a.stored \/ a.status = "downloaded" =>
         \/ archive[j].stored \/ archive[j].status = "downloaded"
         \/ Created(j) /\ job[j].review # "pending"
  BY <1>3, <1>5
<1>7. Idle \in Session /\ CallSound(Idle)
  BY DEF Session, Idle, CallSound
<1>8. session' \in [Workers -> Session] /\ \A v \in Workers : CallSound(session'[v])
  BY <1>1, <1>7 DEF QueueInv, TypesSound, CallsSound
<1>9. UNCHANGED <<job, tries, raced, crashes>>
  BY DEF MarkDownloaded, MarkExpired
<1> HIDE DEF j, a
<1> QED
  BY <1>1, <1>2, <1>5, <1>6, <1>8, <1>9, ArchiveWriteKeeps

LEMMA DeadlinePassesKeeps ==
    ASSUME QueueInv, NEW j \in Jobs, DeadlinePasses(j)
    PROVE  QueueInv'
<1> DEFINE a == [archive[j] EXCEPT !.late = TRUE]
<1>1. archive' = [archive EXCEPT ![j] = a] /\ UNCHANGED <<job, session, tries, raced, crashes>>
  BY DEF DeadlinePasses
<1>2. archive[j] \in Archive
  BY DEF QueueInv, TypesSound
<1>3. a \in Archive /\ a.stored = archive[j].stored /\ a.status = archive[j].status
  BY <1>2 DEF Archive
<1> HIDE DEF a
<1> QED
  BY <1>1, <1>3, ArchiveWriteKeeps DEF QueueInv, TypesSound, CallsSound

-----------------------------------------------------------------------------
(* The whole system. *)

LEMMA QueueStep == QueueInv /\ [Next]_vars => QueueInv'
<1> SUFFICES ASSUME QueueInv, [Next]_vars PROVE QueueInv'
  OBVIOUS
<1>1. ASSUME NEW w \in Workers, Call(w)
      PROVE  QueueInv'
  <2>1. CASE \E j \in Jobs, background, sensitive \in BOOLEAN, user \in Users :
                 CreateReport(w, j, background, sensitive, user)
    BY <2>1, CreateReportKeeps
  <2>2. CASE \E j \in Jobs, user \in Users : ReadForReview(w, j, user)
    BY <2>2, ReadForReviewKeeps
  <2>3. CASE Maintain(w) \/ ReadQueue(w, Jobs, FALSE)
    BY <2>3, ReadQueueKeeps DEF Maintain
  <2>4. CASE \E j \in Jobs : ReadQueue(w, {j}, FALSE)
    <3>1. PICK j \in Jobs : ReadQueue(w, {j}, FALSE)
      BY <2>4
    <3>2. {j} \in SUBSET Jobs
      OBVIOUS
    <3> QED
      BY <3>1, <3>2, ReadQueueKeeps
  <2>5. CASE \E j \in Jobs : ReadForDownload(w, j)
    BY <2>5, ReadForDownloadKeeps
  <2> QED
    BY <1>1, <2>1, <2>2, <2>3, <2>4, <2>5 DEF Call
<1>2. ASSUME NEW w \in Workers, Proceed(w)
      PROVE  QueueInv'
  BY <1>2, ApproveReviewKeeps, ExportJobKeeps, FailJobKeeps, CleanUpKeeps, EndKeeps, MarkKeeps
     DEF Proceed
<1>3. ASSUME NEW w \in Workers, Abort(w)
      PROVE  QueueInv'
  BY <1>3, EndKeeps
<1>4. ASSUME NEW j \in Jobs, RetryFallsDue(j) \/ DeadlinePasses(j)
      PROVE  QueueInv'
  BY <1>4, RetryFallsDueKeeps, DeadlinePassesKeeps
<1>5. CASE UNCHANGED vars
  <2>1. TypesSound' /\ JobsSound' /\ ArchivesSound'
    BY <1>5 DEF vars, QueueInv, TypesSound, JobsSound, ArchivesSound, Created
  <2>2. ASSUME NEW w \in Workers
        PROVE  CallSound(session[w])'
    <3>1. CallSound(session[w])
      BY DEF QueueInv, CallsSound
    <3> QED
      BY <1>5, <3>1 DEF vars, CallSound, Created
  <2> QED
    BY <2>1, <2>2 DEF QueueInv, CallsSound
<1> QED
  BY <1>1, <1>2, <1>3, <1>4, <1>5 DEF Next

LEMMA QueueAlways == Spec => []QueueInv
<1>1. Init => QueueInv
  BY QueueInit
<1>2. QueueInv /\ [Next]_vars => QueueInv'
  BY QueueStep
<1> QED
  BY <1>1, <1>2, PTL DEF Spec

(***************************************************************************)
(* Jobs, archives and calls keep their types: the queue never counts more  *)
(* attempts than are allowed (reportExportQueueState, builder.ts).         *)
(***************************************************************************)
THEOREM ReportTypeCorrect == Spec => []TypeOK
BY QueueAlways, InvImplies, PTL

(***************************************************************************)
(* A sensitive report leaves only after its review by a second user, with  *)
(* any number of reviews, exports and downloads at once.                   *)
(***************************************************************************)
THEOREM ReviewsComeFirst == Spec => []ReviewedBySecond
BY QueueAlways, InvImplies, PTL

(***************************************************************************)
(* No job is given up before it was tried MaxAttempts times.               *)
(***************************************************************************)
THEOREM GivenUpOnlyAfterTries == Spec => []NeverGivesUpEarly
BY QueueAlways, InvImplies, PTL

-----------------------------------------------------------------------------
(* What a writer does to a job that was generated since it was read. *)

LEMMA WritesAreSeen ==
    ASSUME NEW j \in Jobs, NEW i \in Jobs, NEW seen, NEW new, JobsSound, Write(i, seen, new),
           seen.status # "generated", job[j].status = "generated", j \notin raced'
    PROVE  job'[j] = job[j]
<1>1. CASE i = j
  <2>1. job[j] # seen
    OBVIOUS
  <2> QED
    BY <1>1, <2>1 DEF Write
<1>2. CASE i # j
  BY <1>2 DEF Write, JobsSound
<1> QED
  BY <1>1, <1>2

(***************************************************************************)
(* A generated report is put back into the queue or given up only by a     *)
(* call that had read it before it was generated.                          *)
(***************************************************************************)
THEOREM GeneratedOnlyRaced == Spec => GeneratedStays
<1> DEFINE Stays == \A j \in Jobs : job[j].status = "generated" /\ j \notin raced' =>
                                        job'[j].status = "generated"
<1>1. ASSUME QueueInv, Next
      PROVE  Stays
  <2> SUFFICES ASSUME NEW j \in Jobs, job[j].status = "generated", j \notin raced'
               PROVE  job'[j].status = "generated"
    OBVIOUS
  <2> USE <1>1
  <2>1. CASE job' = job
    BY <2>1
  <2>2. ASSUME NEW w \in Workers, NEW i \in Jobs, NEW background \in BOOLEAN,
               NEW sensitive \in BOOLEAN, NEW user \in Users,
               CreateReport(w, i, background, sensitive, user)
        PROVE  job'[j].status = "generated"
    BY <2>2 DEF CreateReport, Created, NoJob, QueueInv, JobsSound
  <2>3. ASSUME NEW w \in Workers, ApproveReview(w)
        PROVE  job'[j].status = "generated"
    <3>1. session[w].pc = "reviewing" /\ session[w].job \in Jobs
      BY <2>3, CallFacts DEF ApproveReview, QueueInv
    <3>2. session[w].seen.status = "pending_review"
      BY <3>1 DEF QueueInv, CallsSound, CallSound
    <3>3. \E new : Write(session[w].job, session[w].seen, new)
      BY <2>3 DEF ApproveReview
    <3> QED
      BY <3>1, <3>2, <3>3, WritesAreSeen DEF QueueInv
  <2>4. ASSUME NEW w \in Workers, NEW i \in Jobs, ExportJob(w, i) \/ FailJob(w, i)
        PROVE  job'[j].status = "generated"
    <3>1. session[w].seen[i].status = "queued"
      BY <2>4, ExportFacts DEF ExportJob, FailJob
    <3>2. \E new : Write(i, session[w].seen[i], new)
      BY <2>4 DEF ExportJob, FailJob
    <3> QED
      BY <3>1, <3>2, WritesAreSeen DEF QueueInv
  <2>5. ASSUME NEW i \in Jobs, RetryFallsDue(i)
        PROVE  job'[j].status = "generated"
    <3>1. job[i].queue.status = "queued" /\ job' = [job EXCEPT ![i].queue.due = TRUE]
      BY <2>5 DEF RetryFallsDue
    <3>2. CASE i = j
      <4>1. job[j] \in Job
        BY <2>5, <3>2 DEF RetryFallsDue, Created, QueueInv, JobsSound, Sound
      <4>2. job'[j] = [job[j] EXCEPT !.queue = [job[j].queue EXCEPT !.due = TRUE]]
        BY <3>1, <3>2 DEF QueueInv, JobsSound
      <4> QED
        BY <4>1, <4>2 DEF Job
    <3>3. CASE i # j
      BY <3>1, <3>3 DEF QueueInv, JobsSound
    <3> QED
      BY <3>2, <3>3
  <2>6. ASSUME NEW w \in Workers, NEW i \in Jobs,
               \/ \E user \in Users : ReadForReview(w, i, user)
               \/ ReadQueue(w, {i}, FALSE) \/ ReadForDownload(w, i) \/ CleanUp(w, i)
               \/ DeadlinePasses(i)
        PROVE  job' = job
    BY <2>6 DEF ReadForReview, ReadQueue, ReadForDownload, CleanUp, DeadlinePasses
  <2>7. ASSUME NEW w \in Workers,
               \/ Maintain(w) \/ ReadQueue(w, Jobs, FALSE) \/ EndExport(w) \/ EndCleanUp(w)
               \/ MarkDownloaded(w) \/ MarkExpired(w) \/ Abort(w)
        PROVE  job' = job
    BY <2>7 DEF Maintain, ReadQueue, EndExport, EndCleanUp, MarkDownloaded, MarkExpired, Abort
  <2>8. ASSUME NEW i \in Jobs, DeadlinePasses(i)
        PROVE  job' = job
    BY <2>8 DEF DeadlinePasses
  <2>9. ASSUME NEW w \in Workers, Call(w)
        PROVE  job'[j].status = "generated"
    BY <2>1, <2>2, <2>6, <2>7, <2>9 DEF Call
  <2>10. ASSUME NEW w \in Workers, Proceed(w)
         PROVE  job'[j].status = "generated"
    BY <2>1, <2>3, <2>4, <2>6, <2>7, <2>10 DEF Proceed
  <2> QED
    BY <2>1, <2>5, <2>7, <2>8, <2>9, <2>10 DEF Next
<1>2. QueueInv /\ [Next]_vars => [Stays]_vars
  BY <1>1
<1> QED
  BY <1>2, QueueAlways, PTL DEF Spec, GeneratedStays

-----------------------------------------------------------------------------
(***************************************************************************)
(* The copies of jobs that calls hold between a read and a write.          *)
(***************************************************************************)
Held(s) ==
    IF s.pc = "exporting" THEN s.jobs ELSE IF s.pc = "reviewing" THEN {s.job} ELSE {}
Copy(s, j) == IF s.pc = "exporting" THEN s.seen[j] ELSE s.seen

\* Call w writes job j.
Writes(w, j) ==
    \/ ApproveReview(w) /\ j = session[w].job
    \/ ExportJob(w, j)
    \/ FailJob(w, j)

LEMMA JobSteps ==
    ASSUME QueueInv, [Next]_vars
    PROVE  \/ job' = job /\ raced' = raced
           \/ \E w \in Workers, j \in Jobs, background, sensitive \in BOOLEAN, user \in Users :
                  CreateReport(w, j, background, sensitive, user)
           \/ \E w \in Workers, j \in Jobs : Writes(w, j)
           \/ \E j \in Jobs : RetryFallsDue(j)
<1>1. ASSUME NEW w \in Workers, ApproveReview(w)
      PROVE  session[w].job \in Jobs
  BY <1>1, CallFacts DEF ApproveReview, QueueInv
<1>2. ASSUME NEW w \in Workers, Proceed(w)
      PROVE  \/ job' = job /\ raced' = raced
             \/ \E j \in Jobs : Writes(w, j)
  BY <1>1, <1>2 DEF Proceed, Writes, EndExport, CleanUp, EndCleanUp, MarkDownloaded, MarkExpired
<1>3. ASSUME NEW w \in Workers, Call(w)
      PROVE  \/ job' = job /\ raced' = raced
             \/ \E j \in Jobs, background, sensitive \in BOOLEAN, user \in Users :
                    CreateReport(w, j, background, sensitive, user)
  BY <1>3 DEF Call, ReadForReview, Maintain, ReadQueue, ReadForDownload
<1>4. CASE UNCHANGED vars
  BY <1>4 DEF vars
<1> QED
  BY <1>2, <1>3, <1>4 DEF Next, Abort, DeadlinePasses

\* A written job was held, and is not held by its writer any more.
LEMMA WriteFacts ==
    ASSUME QueueInv, NEW w \in Workers, NEW j \in Jobs, Writes(w, j)
    PROVE  /\ j \in Held(session[w]) /\ j \notin Held(session'[w])
           /\ \E new \in Job :
                /\ Write(j, Copy(session[w], j), new)
                /\ new.status \in {"queued", "generated", "failed"}
                /\ new.queue.status = "queued" => new.status = "queued"
           /\ \A v \in Workers : v # w => session'[v] = session[v]
           /\ Held(session'[w]) \subseteq Held(session[w])
           /\ \A i \in Held(session'[w]) : Copy(session'[w], i) = Copy(session[w], i)
           /\ session'[w] = Idle \/ session'[w].pc = session[w].pc
<1>1. CASE ApproveReview(w) /\ j = session[w].job
  <2>1. /\ session[w] \in [pc : {"reviewing"}, job : Jobs, seen : Job, user : Users]
        /\ session[w].pc = "reviewing" /\ session' = [session EXCEPT ![w] = Idle]
    BY <1>1, CallFacts DEF QueueInv, ApproveReview, Become
  <2>2. PICK seen, queue, new :
          /\ seen = session[w].seen /\ queue = AdvanceAfterReview(seen.queue, seen.background)
          /\ new = [seen EXCEPT !.status = IF queue.status = "queued" THEN "queued" ELSE "generated",
                                !.review = "approved", !.reviewer = session[w].user,
                                !.queue = queue]
    OBVIOUS
  <2>3. /\ Sound(seen, tries[j]) /\ seen \in Job /\ session[w].user \in Users
        /\ seen.status = "pending_review"
    BY <1>1, <2>1, <2>2 DEF QueueInv, CallsSound, CallSound
  <2>4. queue \in Queue
    <3>1. seen.queue \in Queue /\ seen.queue.attempts < MaxAttempts /\ seen.background \in BOOLEAN
      BY <2>3 DEF Sound, Job
    <3> QED
      BY <2>2, <3>1, QueueOperators
  <2>5. /\ new \in Job /\ new.status \in {"queued", "generated", "failed"}
        /\ new.queue.status = "queued" => new.status = "queued"
    BY <2>2, <2>3, <2>4 DEF Job, JobStatus
  <2>6. Write(j, seen, new)
    BY <1>1, <2>2 DEF ApproveReview
  <2>7. /\ Held(session[w]) = {j} /\ Held(session'[w]) = {} /\ Copy(session[w], j) = seen
        /\ session'[w] = Idle /\ \A v \in Workers : v # w => session'[v] = session[v]
    BY <1>1, <2>1, <2>2 DEF Held, Copy, Idle, QueueInv, TypesSound
  <2> QED
    BY <2>5, <2>6, <2>7
<1>2. CASE ExportJob(w, j) \/ FailJob(w, j)
  <2>1. PICK seen : seen = session[w].seen[j]
    OBVIOUS
  <2>2. /\ session[w].pc = "exporting" /\ Current(w, j) /\ Advance(w, j)
    BY <1>2 DEF ExportJob, FailJob
  <2>3. /\ session[w] \in Exporting /\ seen \in Job
        /\ seen.queue \in Queue /\ seen.queue.attempts < MaxAttempts
    BY <2>1, <2>2, ExportFacts
  <2>4. PICK new \in Job :
          /\ Write(j, seen, new) /\ new.status \in {"queued", "generated", "failed"}
          /\ new.queue.status = "queued" => new.status = "queued"
    <3>1. CASE ExportJob(w, j)
      <4>1. PICK queue : queue = MarkReady(MarkProcessing(seen.queue))
        OBVIOUS
      <4>2. queue \in Queue /\ queue.status = "ready"
        BY <2>3, <4>1, QueueOperators
      <4>3. PICK new : new = [seen EXCEPT !.status = "generated", !.queue = queue]
        OBVIOUS
      <4>4. new \in Job /\ new.status = "generated" /\ new.queue.status = "ready"
        BY <2>3, <4>2, <4>3 DEF Job, JobStatus
      <4>5. Write(j, seen, new)
        BY <2>1, <3>1, <4>1, <4>3 DEF ExportJob
      <4> QED
        BY <4>4, <4>5
    <3>2. CASE FailJob(w, j)
      <4>1. PICK queue, status :
              /\ queue = MarkFailed(MarkProcessing(seen.queue))
              /\ status = IF queue.status = "failed" THEN "failed" ELSE "queued"
        OBVIOUS
      <4>2. queue \in Queue /\ status \in {"failed", "queued"}
        BY <2>3, <4>1, QueueOperators
      <4>3. PICK new : new = [seen EXCEPT !.status = status, !.queue = queue]
        OBVIOUS
      <4>4. new \in Job /\ new.status = status /\ new.queue = queue
        BY <2>3, <4>2, <4>3 DEF Job, JobStatus
      <4>5. Write(j, seen, new)
        BY <2>1, <3>2, <4>1, <4>3 DEF FailJob
      <4>6. queue.status = "queued" => status = "queued"
        BY <4>1
      <4> QED
        BY <4>2, <4>4, <4>5, <4>6
    <3> QED
      BY <1>2, <3>1, <3>2
  <2>5. /\ session' = [session EXCEPT ![w] = [session[w] EXCEPT !.jobs = session[w].jobs \ {j}]]
        /\ j \in session[w].jobs
    BY <2>2 DEF Advance, Become, Current
  <2>6. /\ session'[w] = [session[w] EXCEPT !.jobs = session[w].jobs \ {j}]
        /\ \A v \in Workers : v # w => session'[v] = session[v]
    BY <2>5 DEF QueueInv, TypesSound
  <2>7. /\ session'[w].pc = "exporting" /\ session'[w].jobs = session[w].jobs \ {j}
        /\ session'[w].seen = session[w].seen
    BY <2>3, <2>6 DEF Exporting
  <2>8. /\ Held(session[w]) = session[w].jobs /\ Held(session'[w]) = session[w].jobs \ {j}
        /\ \A i : Copy(session'[w], i) = Copy(session[w], i)
        /\ Copy(session[w], j) = seen
    BY <2>1, <2>2, <2>7 DEF Held, Copy
  <2> QED
    BY <2>2, <2>4, <2>5, <2>6, <2>7, <2>8
<1> QED
  BY <1>1, <1>2 DEF Writes

\* Every other step leaves what a call holds, or lets it hold what is stored.
LEMMA ReadFacts ==
    ASSUME QueueInv, [Next]_vars, ~ \E w \in Workers, j \in Jobs : Writes(w, j),
           NEW v \in Workers, Held(session'[v]) # {}
    PROVE  \/ session'[v] = session[v]
           \/ /\ job' = job
              /\ \A j \in Held(session'[v]) :
                   /\ Copy(session'[v], j) = job[j]
                   /\ session'[v].pc = "exporting" => job[j].queue.due
<1>1. ASSUME NEW w \in Workers, NEW s, session' = [session EXCEPT ![w] = s], Held(s) = {}
      PROVE  session'[v] = session[v]
  BY <1>1 DEF QueueInv, TypesSound
<1>2. ASSUME NEW w \in Workers, NEW j \in Jobs, NEW user \in Users, ReadForReview(w, j, user)
      PROVE  \/ session'[v] = session[v]
             \/ job' = job /\ \A i \in Held(session'[v]) :
                   Copy(session'[v], i) = job[i] /\ session'[v].pc # "exporting"
  <2>1. PICK s : s = [pc |-> "reviewing", job |-> j, seen |-> job[j], user |-> user]
    OBVIOUS
  <2>2. job' = job /\ session' = [session EXCEPT ![w] = s]
    BY <1>2, <2>1 DEF ReadForReview, Become
  <2>3. session'[v] = session[v] \/ session'[v] = s
    BY <2>2 DEF QueueInv, TypesSound
  <2> QED
    BY <2>1, <2>2, <2>3 DEF Held, Copy
<1>3. ASSUME NEW w \in Workers, NEW wanted \in SUBSET Jobs, NEW cleanup,
             ReadQueue(w, wanted, cleanup)
      PROVE  \/ session'[v] = session[v]
             \/ job' = job /\ \A i \in Held(session'[v]) :
                   Copy(session'[v], i) = job[i] /\ job[i].queue.due
  <2>1. PICK s, picked :
          /\ s = [pc |-> "exporting", cleanup |-> cleanup, seen |-> job, jobs |-> picked]
          /\ picked = {j \in Oldest({i \in wanted : job[i].status = "queued"}) :
                          IsDue(job[j].queue)}
    OBVIOUS
  <2>2. job' = job /\ session' = [session EXCEPT ![w] = s]
    BY <1>3, <2>1 DEF ReadQueue, Become
  <2>3. session'[v] = session[v] \/ session'[v] = s
    BY <2>2 DEF QueueInv, TypesSound
  <2>4. \A i \in picked : job[i].queue.due
    BY <2>1 DEF IsDue
  <2>5. s.pc = "exporting" /\ s.jobs = picked /\ s.seen = job
    BY <2>1
  <2> QED
    BY <2>2, <2>3, <2>4, <2>5 DEF Held, Copy
<1>4. ASSUME NEW w \in Workers, Call(w)
      PROVE  \/ session'[v] = session[v]
             \/ /\ job' = job
                /\ \A j \in Held(session'[v]) :
                     /\ Copy(session'[v], j) = job[j]
                     /\ session'[v].pc = "exporting" => job[j].queue.due
  <2>1. ASSUME NEW j \in Jobs, ReadForDownload(w, j)
        PROVE  session'[v] = session[v]
    <3>1. PICK s : s = [pc |-> IF archive[j].late THEN "expiring" ELSE "downloading", job |-> j]
      OBVIOUS
    <3>2. Held(s) = {} /\ session' = [session EXCEPT ![w] = s]
      BY <2>1, <3>1 DEF ReadForDownload, Become, Held
    <3> QED
      BY <1>1, <3>2
  <2>2. ASSUME NEW j \in Jobs, NEW background, NEW sensitive, NEW user,
               CreateReport(w, j, background, sensitive, user)
        PROVE  session'[v] = session[v]
    BY <2>2 DEF CreateReport
  <2>3. ASSUME NEW j \in Jobs
        PROVE  {j} \in SUBSET Jobs
    OBVIOUS
  <2>4. Jobs \in SUBSET Jobs
    OBVIOUS
  <2> QED
    BY <1>2, <1>3, <1>4, <2>1, <2>2, <2>3, <2>4 DEF Call, Maintain
<1>5. ASSUME NEW w \in Workers, Proceed(w)
      PROVE  session'[v] = session[v]
  <2>1. ~ApproveReview(w) /\ \A j \in Jobs : ~ExportJob(w, j) /\ ~FailJob(w, j)
    <3>1. ApproveReview(w) => session[w].job \in Jobs
      BY CallFacts DEF ApproveReview, QueueInv
    <3> QED
      BY <3>1 DEF Writes
  <2>2. Held(Idle) = {}
    BY DEF Held, Idle
  <2>3. ASSUME EndExport(w)
        PROVE  session'[v] = session[v]
    <3>1. PICK s : s = IF session[w].cleanup THEN [pc |-> "cleaning", jobs |-> Oldest(Expired)] ELSE Idle
      OBVIOUS
    <3>2. Held(s) = {} /\ session' = [session EXCEPT ![w] = s]
      BY <2>2, <2>3, <3>1 DEF EndExport, Become, Held
    <3> QED
      BY <1>1, <3>2
  <2>4. ASSUME NEW j \in Jobs, CleanUp(w, j)
        PROVE  session'[v] = session[v]
    <3>1. PICK s : s = [session[w] EXCEPT !.jobs = session[w].jobs \ {j}]
      OBVIOUS
    <3>2. session[w] \in [pc : {"cleaning"}, jobs : SUBSET Jobs]
      BY <2>4, CallFacts DEF CleanUp, QueueInv
    <3>3. Held(s) = {} /\ session' = [session EXCEPT ![w] = s]
      BY <2>4, <3>1, <3>2 DEF CleanUp, Advance, Become, Held
    <3> QED
      BY <1>1, <3>3
  <2> QED
    BY <1>1, <1>5, <2>1, <2>2, <2>3, <2>4 DEF Proceed, EndCleanUp, MarkDownloaded, MarkExpired,
       Become
<1>6. ASSUME NEW w \in Workers, Abort(w)
      PROVE  session'[v] = session[v]
  BY <1>1, <1>6 DEF Abort, Become, Held, Idle
<1>7. ASSUME NEW j \in Jobs, RetryFallsDue(j) \/ DeadlinePasses(j)
      PROVE  session'[v] = session[v]
  BY <1>7 DEF RetryFallsDue, DeadlinePasses
<1>8. CASE UNCHANGED vars
  BY <1>8 DEF vars
<1> QED
  BY <1>4, <1>5, <1>6, <1>7, <1>8 DEF Next

-----------------------------------------------------------------------------
(***************************************************************************)
(* The abstract life.  That a review is never lost rests on this: a job    *)
(* that awaits its review is changed by nothing but an approval, and an    *)
(* export only ever holds copies of jobs that do not await it.             *)
(***************************************************************************)
LifeInv ==
    /\ \A j \in raced : Created(j)
    /\ \A j \in Jobs : job[j].status = "pending_review" => job[j].review = "pending"
    /\ \A w \in Workers :
         session[w].pc = "reviewing" /\ job[session[w].job].status = "pending_review" =>
             session[w].seen = job[session[w].job]

LEMMA LifeInit == Init => LifeInv
BY DEF Init, LifeInv, NoJob, Idle

\* What a write leaves of the other jobs and of this one.
LEMMA WrittenJob ==
    ASSUME QueueInv, NEW j \in Jobs, NEW seen, NEW new, Write(j, seen, new)
    PROVE  /\ job'[j] = new
           /\ \A i \in Jobs : i # j => job'[i] = job[i]
           /\ raced' = IF job[j] # seen THEN raced \cup {j} ELSE raced
BY DEF Write, QueueInv, JobsSound

\* What time does to a job.
LEMMA DueFacts ==
    ASSUME QueueInv, NEW j \in Jobs, RetryFallsDue(j)
    PROVE  /\ job'[j] \in Job
           /\ job'[j] = [job[j] EXCEPT !.queue = [job[j].queue EXCEPT !.due = TRUE]]
           /\ job'[j].status = job[j].status /\ job'[j].review = job[j].review
           /\ job'[j].background = job[j].background
           /\ job'[j].by = job[j].by /\ job'[j].reviewer = job[j].reviewer
           /\ job'[j].queue.attempts = job[j].queue.attempts
           /\ job[j].status # "pending_review" /\ Created(j)
           /\ \A i \in Jobs : i # j => job'[i] = job[i]
           /\ raced' = raced /\ session' = session
<1>1. Created(j) /\ job[j] \in Job /\ Sound(job[j], tries[j])
  BY DEF RetryFallsDue, Created, QueueInv, JobsSound, Sound
<1>2. job[j].queue \in Queue
  BY <1>1 DEF Job
<1>3. PICK old, queue, new :
        /\ old = job[j] /\ queue = [old.queue EXCEPT !.due = TRUE]
        /\ new = [old EXCEPT !.queue = queue]
  OBVIOUS
<1>4. job' = [job EXCEPT ![j] = new] /\ raced' = raced /\ session' = session
  BY <1>3 DEF RetryFallsDue
<1>5. job'[j] = new /\ \A i \in Jobs : i # j => job'[i] = job[i]
  BY <1>4 DEF QueueInv, JobsSound
<1>6. queue \in Queue /\ queue.attempts = old.queue.attempts
  BY <1>2, <1>3 DEF Queue
<1>7. /\ new \in Job /\ new.status = old.status /\ new.review = old.review
      /\ new.background = old.background /\ new.by = old.by /\ new.reviewer = old.reviewer
      /\ new.queue = queue
  BY <1>1, <1>3, <1>6 DEF Job
<1>8. job[j].status # "pending_review"
  BY <1>1 DEF Sound, RetryFallsDue
<1>9. job'[j] = [job[j] EXCEPT !.queue = [job[j].queue EXCEPT !.due = TRUE]]
  BY <1>3, <1>5
<1> QED
  BY <1>1, <1>3, <1>4, <1>5, <1>6, <1>7, <1>8, <1>9

\* Who writes over a change has not missed a review.
LEMMA WriteAfterReview ==
    ASSUME QueueInv, LifeInv, NEW w \in Workers, NEW j \in Jobs, Writes(w, j)
    PROVE  /\ Created(j)
           /\ job[j] # Copy(session[w], j) => job[j].status # "pending_review"
<1>1. CASE ApproveReview(w) /\ j = session[w].job
  <2>1. session[w].pc = "reviewing"
    BY <1>1 DEF ApproveReview
  <2> QED
    BY <1>1, <2>1 DEF QueueInv, CallsSound, CallSound, LifeInv, Copy
<1>2. CASE ExportJob(w, j) \/ FailJob(w, j)
  <2>1. Created(j) /\ job[j].review # "pending"
    BY <1>2, ExportFacts DEF ExportJob, FailJob
  <2> QED
    BY <2>1 DEF LifeInv
<1> QED
  BY <1>1, <1>2 DEF Writes

\* A new job, and what it changes.
LEMMA CreateFacts ==
    ASSUME QueueInv, NEW w \in Workers, NEW j \in Jobs, NEW background \in BOOLEAN,
           NEW sensitive \in BOOLEAN, NEW user \in Users,
           CreateReport(w, j, background, sensitive, user)
    PROVE  /\ ~Created(j) /\ job'[j] \in Job
           /\ job'[j].status = "pending_review" <=> sensitive
           /\ job'[j].status = "queued" <=> ~sensitive /\ background
           /\ job'[j].status = "generated" <=> ~sensitive /\ ~background
           /\ job'[j].review = IF sensitive THEN "pending" ELSE "not_required"
           /\ job'[j].background = background /\ job'[j].by = user
           /\ job'[j].reviewer = "nobody" /\ job'[j].queue.attempts = 0
           /\ \A i \in Jobs : i # j => job'[i] = job[i]
           /\ raced' = raced /\ session' = session
<1>1. PICK status, queue, new :
        /\ status = IF sensitive THEN "pending_review"
                    ELSE IF background THEN "queued" ELSE "generated"
        /\ queue = NewQueue(status)
        /\ new = [status |-> status, background |-> background,
                  review |-> IF sensitive THEN "pending" ELSE "not_required",
                  by |-> user, reviewer |-> "nobody", queue |-> queue]
  OBVIOUS
<1>2. job' = [job EXCEPT ![j] = new] /\ ~Created(j) /\ raced' = raced /\ session' = session
  BY <1>1 DEF CreateReport
<1>3. queue \in Queue /\ queue.attempts = 0
  BY <1>1, Bounds DEF NewQueue, Queue, QueueStatus
<1>4. /\ new \in Job /\ new.status = status /\ new.background = background
      /\ new.review = IF sensitive THEN "pending" ELSE "not_required"
      /\ new.by = user /\ new.reviewer = "nobody" /\ new.queue = queue
  BY <1>1, <1>3 DEF Job, JobStatus
<1>5. job'[j] = new /\ \A i \in Jobs : i # j => job'[i] = job[i]
  BY <1>2 DEF QueueInv, JobsSound
<1> QED
  BY <1>1, <1>2, <1>3, <1>4, <1>5

LEMMA LifeKeeps == QueueInv /\ LifeInv /\ [Next]_vars => LifeInv'
<1> SUFFICES ASSUME QueueInv, LifeInv, [Next]_vars PROVE LifeInv'
  OBVIOUS
\* What the three parts need of a step.
<1>1. ASSUME raced' \subseteq Jobs, \A j \in raced' : Created(j)',
             \A j \in Jobs : job'[j].status = "pending_review" => job'[j].review = "pending",
             \A j \in Jobs : job'[j].status = "pending_review" => job'[j] = job[j] \/ ~Created(j),
             \A v \in Workers : session'[v].pc = "reviewing" =>
                 session'[v] = session[v] \/ session'[v].seen = job'[session'[v].job]
      PROVE  LifeInv'
  <2>1. ASSUME NEW v \in Workers, session'[v].pc = "reviewing", session'[v] = session[v],
               job'[session'[v].job].status = "pending_review"
        PROVE  session'[v].seen = job'[session'[v].job]
    <3>1. session[v].job \in Jobs /\ Created(session[v].job)
      BY <2>1, CallFacts DEF QueueInv, CallsSound, CallSound
    <3> QED
      BY <1>1, <2>1, <3>1 DEF LifeInv
  <2> QED
    BY <1>1, <2>1 DEF LifeInv
<1>2. raced \subseteq Jobs
  BY DEF QueueInv, TypesSound
<1>3. ASSUME NEW v \in Workers, session'[v].pc = "reviewing",
             ~ \E w \in Workers, j \in Jobs : Writes(w, j)
      PROVE  session'[v] = session[v] \/ session'[v].seen = job'[session'[v].job]
  <2>1. Held(session'[v]) = {session'[v].job} /\ Copy(session'[v], session'[v].job) = session'[v].seen
    BY <1>3 DEF Held, Copy
  <2> QED
    BY <1>3, <2>1, ReadFacts
<1>4. ASSUME NEW w \in Workers, NEW j \in Jobs, Writes(w, j),
             NEW v \in Workers, session'[v].pc = "reviewing"
      PROVE  session'[v] = session[v]
  <2>1. CASE v # w
    BY <1>4, <2>1, WriteFacts
  <2>2. CASE v = w /\ session'[w].pc = session[w].pc
    <3>1. Held(session'[w]) = {session'[w].job} /\ Held(session[w]) = {session[w].job}
      BY <1>4, <2>2 DEF Held
    <3> QED
      BY <1>4, <3>1, WriteFacts
  <2>3. CASE v = w /\ session'[w] = Idle
    BY <1>4, <2>3 DEF Idle
  <2> QED
    BY <1>4, <2>1, <2>2, <2>3, WriteFacts
<1>5. ASSUME job' = job, raced' = raced
      PROVE  LifeInv'
  <2>1. CASE \E w \in Workers, j \in Jobs : Writes(w, j)
    <3>1. PICK w \in Workers, j \in Jobs : Writes(w, j)
      BY <2>1
    <3>2. ASSUME NEW v \in Workers, session'[v].pc = "reviewing"
          PROVE  session'[v] = session[v]
      BY <1>4, <3>1, <3>2
    <3> QED
      BY <1>1, <1>2, <1>5, <3>2 DEF LifeInv, Created
  <2> QED
    BY <1>1, <1>2, <1>3, <1>5, <2>1 DEF LifeInv, Created
<1>6. ASSUME NEW w \in Workers, NEW j \in Jobs, NEW background \in BOOLEAN,
             NEW sensitive \in BOOLEAN, NEW user \in Users,
             CreateReport(w, j, background, sensitive, user)
      PROVE  LifeInv'
  <2>1. Created(j)'
    BY <1>6, CreateFacts, NoJobIsNoJob DEF Created
  <2> QED
    BY <1>1, <1>2, <1>6, <2>1, CreateFacts DEF LifeInv, Created
<1>7. ASSUME NEW w \in Workers, NEW j \in Jobs, Writes(w, j)
      PROVE  LifeInv'
  <2>1. PICK new \in Job : /\ Write(j, Copy(session[w], j), new)
                           /\ new.status \in {"queued", "generated", "failed"}
    BY <1>7, WriteFacts
  <2>2. /\ job'[j] = new /\ \A i \in Jobs : i # j => job'[i] = job[i]
        /\ raced' \subseteq raced \cup {j}
    BY <2>1, WrittenJob
  <2>3. Created(j)'
    BY <2>2, NoJobIsNoJob DEF Created
  <2> QED
    BY <1>1, <1>2, <1>7, <1>4, <2>1, <2>2, <2>3 DEF LifeInv, Created
<1>8. ASSUME NEW j \in Jobs, RetryFallsDue(j)
      PROVE  LifeInv'
  <2>1. Created(j)'
    BY <1>8, DueFacts, NoJobIsNoJob DEF Created
  <2>2. /\ job'[j].status # "pending_review" /\ Created(j)
        /\ \A i \in Jobs : i # j => job'[i] = job[i]
        /\ raced' = raced /\ session' = session
    BY <1>8, DueFacts
  <2> QED
    BY <1>1, <1>2, <2>1, <2>2 DEF LifeInv, Created
<1> QED
  BY <1>5, <1>6, <1>7, <1>8, JobSteps

LEMMA LifeAlways == Spec => [](QueueInv /\ LifeInv)
BY QueueAlways, LifeInit, LifeKeeps, PTL DEF Spec

\* The abstract job of a job no call has written over.
Bar(x) == [phase |-> x.status, background |-> x.background, by |-> x.by, reviewer |-> x.reviewer,
           left |-> MaxAttempts - x.queue.attempts]

LEMMA BarFacts ==
    /\ lifeBar = [j \in Jobs |-> lifeBar[j]]
    /\ \A j \in Jobs : lifeBar[j] = IF ~Created(j) THEN Life!None
                                    ELSE IF j \in raced THEN Life!Lost ELSE Bar(job[j])
BY DEF lifeBar, Bar, Life!None, Life!Lost, Created

LEMMA BarNext ==
    /\ lifeBar' = [j \in Jobs |-> lifeBar'[j]]
    /\ \A j \in Jobs : lifeBar'[j] = IF job'[j] = NoJob THEN Life!None
                                     ELSE IF j \in raced' THEN Life!Lost ELSE Bar(job'[j])
BY DEF lifeBar, Bar, Life!None, Life!Lost, Created

\* A step that touches one job changes one abstract job.
LEMMA OneBarChanges ==
    ASSUME NEW j \in Jobs, \A i \in Jobs : i # j => job'[i] = job[i],
           \A i \in Jobs : i # j => (i \in raced' <=> i \in raced)
    PROVE  lifeBar' = [lifeBar EXCEPT ![j] = lifeBar'[j]]
<1>1. \A i \in Jobs : i # j => lifeBar'[i] = lifeBar[i]
  BY BarFacts, BarNext DEF Created
<1> QED
  BY <1>1, BarFacts, BarNext, Zenon

LEMMA LifeInitial == Init => Life!Init
<1> SUFFICES ASSUME Init PROVE Life!Init
  OBVIOUS
<1>1. \A j \in Jobs : lifeBar[j] = Life!None
  BY BarFacts DEF Init, Created
<1> QED
  BY <1>1, BarFacts DEF Life!Init

LEMMA AskStep ==
    ASSUME QueueInv, LifeInv, NEW w \in Workers, NEW j \in Jobs, NEW background \in BOOLEAN,
           NEW sensitive \in BOOLEAN, NEW user \in Users,
           CreateReport(w, j, background, sensitive, user)
    PROVE  Life!Next
<1>1. PICK new : new = job'[j]
  OBVIOUS
<1>2. /\ ~Created(j) /\ new \in Job /\ new.status \in {"pending_review", "queued", "generated"}
      /\ new.status = "queued" => background
      /\ new.status = "generated" => ~background
      /\ new.background = background /\ new.by = user
      /\ new.reviewer = "nobody" /\ new.queue.attempts = 0
      /\ \A i \in Jobs : i # j => job'[i] = job[i]
      /\ raced' = raced
  BY <1>1, CreateFacts
<1>3. lifeBar[j] = Life!None /\ lifeBar'[j] = Bar(new)
  BY <1>1, <1>2, BarFacts, BarNext, NoJobIsNoJob DEF LifeInv, Created
<1>4. Bar(new) = [phase |-> new.status, background |-> background, by |-> user,
                  reviewer |-> "nobody", left |-> MaxAttempts]
  BY <1>2, Bounds DEF Bar
<1>5. lifeBar' = [lifeBar EXCEPT ![j] = lifeBar'[j]]
  BY <1>2, OneBarChanges
<1>6. Life!Ask(j, new.status, background, user)
  BY <1>2, <1>3, <1>4, <1>5 DEF Life!Ask
<1> QED
  BY <1>2, <1>6 DEF Life!Next

\* A write over a change the writer missed, or of a job that was so written before.
LEMMA LoseStep ==
    ASSUME QueueInv, LifeInv, NEW w \in Workers, NEW j \in Jobs, Writes(w, j),
           j \in raced \/ job[j] # Copy(session[w], j)
    PROVE  [Life!Next]_lifeBar
<1>1. PICK new \in Job : Write(j, Copy(session[w], j), new)
  BY WriteFacts
<1>2. /\ job'[j] = new /\ \A i \in Jobs : i # j => job'[i] = job[i]
      /\ raced' = raced \cup {j}
  BY <1>1, WrittenJob
<1>3. lifeBar' = [lifeBar EXCEPT ![j] = lifeBar'[j]]
  BY <1>2, OneBarChanges
<1>4. lifeBar'[j] = Life!Lost
  BY <1>2, BarNext, NoJobIsNoJob
<1>5. Created(j) /\ job[j] \in Job
  BY WriteAfterReview DEF QueueInv, JobsSound, Sound, Created
<1>6. CASE j \in raced
  <2>1. lifeBar[j] = lifeBar'[j]
    BY <1>4, <1>5, <1>6, BarFacts
  <2> QED
    BY <1>3, <2>1, BarFacts
<1>7. CASE j \notin raced
  <2>1. job[j].status \in {"queued", "generated", "failed"}
    BY <1>5, <1>7, WriteAfterReview DEF Job, JobStatus
  <2>2. lifeBar[j] = Bar(job[j])
    BY <1>5, <1>7, BarFacts
  <2>3. lifeBar[j].phase = job[j].status
    BY <2>2 DEF Bar
  <2>4. Life!Lose(j)
    BY <1>3, <1>4, <2>1, <2>3 DEF Life!Lose
  <2> QED
    BY <2>4 DEF Life!Next
<1> QED
  BY <1>6, <1>7

\* What the steps of an abstract job write into it.
Approved(x, phase, user) == [x EXCEPT !.phase = phase, !.reviewer = user]
AfterTry(x, phase, left) == [x EXCEPT !.phase = phase, !.left = left]

LEMMA BarUpdates ==
    ASSUME NEW old, NEW new, NEW phase, new.status = phase, new.background = old.background,
           new.by = old.by
    PROVE  /\ \A user : new.reviewer = user /\ new.queue.attempts = old.queue.attempts
                => Bar(new) = Approved(Bar(old), phase, user)
           /\ \A left : new.reviewer = old.reviewer /\ MaxAttempts - new.queue.attempts = left
                => Bar(new) = AfterTry(Bar(old), phase, left)
           /\ Bar(old).phase = old.status /\ Bar(old).by = old.by
           /\ Bar(old).background = old.background
           /\ Bar(old).left = MaxAttempts - old.queue.attempts
<1> DEFINE Fields == {"phase", "background", "by", "reviewer", "left"}
<1>1. PICK o, n : o = Bar(old) /\ n = Bar(new)
  OBVIOUS
<1>2. /\ DOMAIN o = Fields /\ o.phase = old.status /\ o.background = old.background
      /\ o.by = old.by /\ o.reviewer = old.reviewer
      /\ o.left = MaxAttempts - old.queue.attempts
  BY <1>1 DEF Bar
<1>3. /\ n = [f \in Fields |-> n[f]] /\ n.phase = phase /\ n.background = o.background
      /\ n.by = o.by /\ n.reviewer = new.reviewer
      /\ n.left = MaxAttempts - new.queue.attempts
  BY <1>1, <1>2 DEF Bar
<1>4. ASSUME NEW user, new.reviewer = user, new.queue.attempts = old.queue.attempts
      PROVE  n = Approved(o, phase, user)
  <2>1. PICK e : e = [o EXCEPT !.phase = phase, !.reviewer = user]
    OBVIOUS
  <2>2. /\ e = [f \in Fields |-> e[f]] /\ e.phase = phase /\ e.background = o.background
        /\ e.by = o.by /\ e.reviewer = user /\ e.left = o.left
    BY <1>2, <2>1
  <2> QED
    BY <1>2, <1>3, <1>4, <2>1, <2>2 DEF Approved
<1>5. ASSUME NEW left, new.reviewer = old.reviewer, MaxAttempts - new.queue.attempts = left
      PROVE  n = AfterTry(o, phase, left)
  <2>1. PICK e : e = [o EXCEPT !.phase = phase, !.left = left]
    OBVIOUS
  <2>2. /\ e = [f \in Fields |-> e[f]] /\ e.phase = phase /\ e.background = o.background
        /\ e.by = o.by /\ e.reviewer = o.reviewer /\ e.left = left
    BY <1>2, <2>1
  <2> QED
    BY <1>2, <1>3, <1>5, <2>1, <2>2 DEF AfterTry
<1> QED
  BY <1>1, <1>2, <1>4, <1>5, Zenon

\* An approval of the job as it is stored.
LEMMA ApproveStep ==
    ASSUME QueueInv, NEW w \in Workers, ApproveReview(w), NEW j \in Jobs, j = session[w].job,
           j \notin raced, job[j] = session[w].seen
    PROVE  Life!Next
<1>1. PICK old, user, queue, new :
        /\ old = job[j] /\ user = session[w].user
        /\ queue = AdvanceAfterReview(old.queue, old.background)
        /\ new = [old EXCEPT !.status = IF queue.status = "queued" THEN "queued" ELSE "generated",
                             !.review = "approved", !.reviewer = user, !.queue = queue]
  OBVIOUS
<1>2. /\ Created(j) /\ Sound(old, tries[j]) /\ old \in Job /\ old.status = "pending_review"
      /\ user \in Users \ {old.by}
  BY <1>1, CallFacts DEF QueueInv, CallsSound, CallSound, ApproveReview, Sound
<1>3. old.queue \in Queue /\ old.queue.attempts < MaxAttempts /\ old.background \in BOOLEAN
  BY <1>2 DEF Sound, Job
<1>4. /\ queue \in Queue /\ queue.attempts = old.queue.attempts
      /\ queue.status = IF old.background THEN "queued" ELSE "ready"
  BY <1>1, <1>3, QueueOperators
<1>5. PICK status : status = IF queue.status = "queued" THEN "queued" ELSE "generated"
  OBVIOUS
<1>6. new = [old EXCEPT !.status = status, !.review = "approved", !.reviewer = user, !.queue = queue]
  BY <1>1, <1>5
<1>7. /\ status = IF old.background THEN "queued" ELSE "generated"
      /\ status \in JobStatus
  BY <1>3, <1>4, <1>5 DEF JobStatus
<1>8. /\ new \in Job /\ new.status = status
      /\ new.background = old.background /\ new.by = old.by /\ new.reviewer = user
      /\ new.queue = queue
  BY <1>2, <1>4, <1>6, <1>7 DEF Job
<1>9. Write(j, job[j], new)
  BY <1>1 DEF ApproveReview
<1>10. /\ job'[j] = new /\ \A i \in Jobs : i # j => job'[i] = job[i]
       /\ raced' = raced
  BY <1>9, WrittenJob
<1>11. lifeBar[j] = Bar(old) /\ lifeBar'[j] = Bar(new)
  BY <1>1, <1>2, <1>8, <1>10, BarFacts, BarNext, NoJobIsNoJob
<1>12. lifeBar' = [lifeBar EXCEPT ![j] = lifeBar'[j]]
  BY <1>10, OneBarChanges
<1>13. new.queue.attempts = old.queue.attempts
  BY <1>4, <1>8
<1>14. /\ Bar(new) = Approved(Bar(old), status, user)
       /\ Bar(old).phase = "pending_review" /\ Bar(old).by = old.by
       /\ Bar(old).background = old.background
  BY <1>2, <1>8, <1>13, BarUpdates
<1>15. lifeBar' = [lifeBar EXCEPT ![j] = Approved(lifeBar[j], status, user)]
  BY <1>11, <1>12, <1>14, Zenon
<1>16. lifeBar' = [lifeBar EXCEPT ![j].phase = status, ![j].reviewer = user]
  BY <1>15, BarFacts DEF Approved
<1>17. Life!Approve(j, user)
  BY <1>2, <1>7, <1>11, <1>14, <1>16 DEF Life!Approve
<1> QED
  BY <1>2, <1>17 DEF Life!Next

\* An export of the job as it is stored.
LEMMA TryStep ==
    ASSUME QueueInv, NEW w \in Workers, NEW j \in Jobs, ExportJob(w, j) \/ FailJob(w, j),
           j \notin raced, job[j] = session[w].seen[j]
    PROVE  Life!Next
<1>1. PICK old : old = job[j]
  OBVIOUS
<1>2. /\ Created(j) /\ old \in Job /\ old.status = "queued"
      /\ old.queue \in Queue /\ old.queue.attempts < MaxAttempts
  BY <1>1, ExportFacts DEF ExportJob, FailJob
<1>3. ASSUME NEW new \in Job, NEW status, Write(j, job[j], new),
             new.status = status, new.background = old.background, new.by = old.by,
             new.reviewer = old.reviewer, new.queue.attempts = old.queue.attempts + 1
      PROVE  /\ lifeBar[j].phase = "queued" /\ lifeBar[j].left = MaxAttempts - old.queue.attempts
             /\ lifeBar' = [lifeBar EXCEPT ![j].phase = status, ![j].left = lifeBar[j].left - 1]
  <2>1. /\ job'[j] = new /\ \A i \in Jobs : i # j => job'[i] = job[i]
        /\ raced' = raced
    BY <1>3, WrittenJob
  <2>2. lifeBar[j] = Bar(old) /\ lifeBar'[j] = Bar(new)
    BY <1>1, <1>2, <2>1, BarFacts, BarNext, NoJobIsNoJob
  <2>3. lifeBar' = [lifeBar EXCEPT ![j] = lifeBar'[j]]
    BY <2>1, OneBarChanges
  <2>4. MaxAttempts - new.queue.attempts = (MaxAttempts - old.queue.attempts) - 1
    BY <1>2, <1>3, Bounds DEF Queue
  <2>5. PICK left : left = (MaxAttempts - old.queue.attempts) - 1
    OBVIOUS
  <2>6. Bar(new) = AfterTry(Bar(old), status, left)
    <3>1. MaxAttempts - new.queue.attempts = left
      BY <2>4, <2>5
    <3> QED
      BY <1>3, <3>1, BarUpdates
  <2>7. Bar(old).phase = "queued" /\ Bar(old).left = MaxAttempts - old.queue.attempts
    BY <1>2, <1>3, BarUpdates, Zenon
  <2>8. lifeBar' = [lifeBar EXCEPT ![j] = AfterTry(lifeBar[j], status, left)]
    BY <2>2, <2>3, <2>6, Zenon
  <2>9. lifeBar' = [lifeBar EXCEPT ![j].phase = status, ![j].left = left]
    BY <2>8, BarFacts DEF AfterTry
  <2> QED
    BY <2>2, <2>5, <2>7, <2>9
<1>4. MaxAttempts - old.queue.attempts > 0 /\ (MaxAttempts - old.queue.attempts = 1 <=> old.queue.attempts + 1 >= MaxAttempts)
  BY <1>2, Bounds DEF Queue
<1>5. CASE ExportJob(w, j)
  <2>1. PICK queue, new :
          /\ queue = MarkReady(MarkProcessing(old.queue))
          /\ new = [old EXCEPT !.status = "generated", !.queue = queue]
    OBVIOUS
  <2>2. queue \in Queue /\ queue.attempts = old.queue.attempts + 1
    BY <1>2, <2>1, QueueOperators
  <2>3. /\ new \in Job /\ new.status = "generated" /\ new.background = old.background
        /\ new.by = old.by /\ new.reviewer = old.reviewer /\ new.queue = queue
    BY <1>2, <2>1, <2>2 DEF Job, JobStatus
  <2>4. Write(j, job[j], new)
    BY <1>1, <1>5, <2>1 DEF ExportJob
  <2>5. Life!Export(j)
    BY <1>3, <1>4, <2>2, <2>3, <2>4 DEF Life!Export
  <2> QED
    BY <2>5 DEF Life!Next
<1>6. CASE FailJob(w, j)
  <2>1. PICK queue, status, new :
          /\ queue = MarkFailed(MarkProcessing(old.queue))
          /\ status = IF queue.status = "failed" THEN "failed" ELSE "queued"
          /\ new = [old EXCEPT !.status = status, !.queue = queue]
    OBVIOUS
  <2>2. /\ queue \in Queue /\ queue.attempts = old.queue.attempts + 1
        /\ status = IF old.queue.attempts + 1 >= MaxAttempts THEN "failed" ELSE "queued"
    BY <1>2, <2>1, QueueOperators
  <2>3. /\ new \in Job /\ new.status = status /\ new.background = old.background
        /\ new.by = old.by /\ new.reviewer = old.reviewer /\ new.queue = queue
    BY <1>2, <2>1, <2>2 DEF Job, JobStatus
  <2>4. Write(j, job[j], new)
    BY <1>1, <1>6, <2>1 DEF FailJob
  <2>5. /\ lifeBar[j].phase = "queued" /\ lifeBar[j].left = MaxAttempts - old.queue.attempts
        /\ lifeBar' = [lifeBar EXCEPT ![j].phase = status, ![j].left = lifeBar[j].left - 1]
    BY <1>3, <2>2, <2>3, <2>4
  <2>6. status = IF lifeBar[j].left = 1 THEN "failed" ELSE "queued"
    BY <1>4, <2>2, <2>5
  <2>7. Life!Fail(j)
    BY <1>4, <2>5, <2>6 DEF Life!Fail
  <2> QED
    BY <2>7 DEF Life!Next
<1> QED
  BY <1>5, <1>6

LEMMA LifeStep == QueueInv /\ LifeInv /\ [Next]_vars => [Life!Next]_lifeBar
<1> SUFFICES ASSUME QueueInv, LifeInv, [Next]_vars PROVE [Life!Next]_lifeBar
  OBVIOUS
<1>1. CASE job' = job /\ raced' = raced
  <2>1. \A j \in Jobs : lifeBar'[j] = lifeBar[j]
    BY <1>1, BarFacts, BarNext DEF Created
  <2> QED
    BY <2>1, BarFacts, BarNext, Zenon
<1>2. CASE \E w \in Workers, j \in Jobs : Writes(w, j)
  <2>1. PICK w \in Workers, j \in Jobs : Writes(w, j)
    BY <1>2
  <2>2. CASE j \in raced \/ job[j] # Copy(session[w], j)
    BY <2>1, <2>2, LoseStep
  <2>3. CASE j \notin raced /\ job[j] = Copy(session[w], j)
    BY <2>1, <2>3, ApproveStep, TryStep DEF Writes, Copy, ApproveReview, ExportJob, FailJob
  <2> QED
    BY <2>2, <2>3
<1>3. CASE \E j \in Jobs : RetryFallsDue(j)
  <2>1. PICK j \in Jobs : RetryFallsDue(j)
    BY <1>3
  <2>2. PICK old, new : old = job[j] /\ new = job'[j]
    OBVIOUS
  <2>3. Bar(new) = Bar(old) /\ Created(j) /\ new # NoJob
    BY <2>1, <2>2, DueFacts, NoJobIsNoJob DEF Bar
  <2>4. job'[j] = new /\ raced' = raced /\ \A i \in Jobs : i # j => job'[i] = job[i]
    BY <2>1, <2>2, DueFacts
  <2>5. \A i \in Jobs : lifeBar'[i] = lifeBar[i]
    BY <2>2, <2>3, <2>4, BarFacts, BarNext DEF Created
  <2> QED
    BY <2>5, BarFacts, BarNext, Zenon
<1> QED
  BY <1>1, <1>2, <1>3, JobSteps, AskStep

(***************************************************************************)
(* Reports live as promised up to a lost update, which never loses a       *)
(* review: every step is a step of the abstract life or leaves it alone.   *)
(***************************************************************************)
THEOREM LifeImplemented == Spec => ImplementsLife
BY LifeAlways, LifeInitial, LifeStep, PTL DEF Spec, ImplementsLife, Life!Spec

-----------------------------------------------------------------------------
(***************************************************************************)
(* No two calls hold the same job at once, as if each claimed the jobs it  *)
(* works on; calls on different jobs overlap as they like, and a retry     *)
(* falls due whenever it does.                                             *)
(***************************************************************************)
OneCallPerJob ==
    \A v, w \in Workers : v # w => Held(session[v]) \cap Held(session[w]) = {}

\* Then what a call holds is what is stored.
CopiesFresh ==
    \A v \in Workers : \A j \in Held(session[v]) :
        /\ Copy(session[v], j) = job[j]
        /\ session[v].pc = "exporting" => job[j].queue.due

AloneInv == raced = {} /\ CopiesFresh

LEMMA HeldFacts ==
    ASSUME QueueInv, NEW v \in Workers, NEW j \in Held(session[v])
    PROVE  j \in Jobs /\ Created(j)
<1>1. CASE session[v].pc = "exporting"
  BY <1>1, CallFacts DEF QueueInv, CallsSound, CallSound, Held, Exporting
<1>2. CASE session[v].pc = "reviewing"
  BY <1>2, CallFacts DEF QueueInv, CallsSound, CallSound, Held
<1> QED
  BY <1>1, <1>2 DEF Held

\* A retry falls due of no job that is held as it is stored.
LEMMA NotDueNotHeld ==
    ASSUME QueueInv, CopiesFresh, NEW v \in Workers, NEW j \in Held(session[v])
    PROVE  ~RetryFallsDue(j)
<1>1. CASE session[v].pc = "exporting"
  BY <1>1 DEF CopiesFresh, RetryFallsDue
<1>2. CASE session[v].pc = "reviewing"
  <2>1. j = session[v].job /\ Copy(session[v], j) = session[v].seen
    BY <1>2 DEF Held, Copy
  <2>2. job[j].status = "pending_review"
    BY <1>2, <2>1 DEF CopiesFresh, QueueInv, CallsSound, CallSound
  <2>3. j \in Jobs
    BY HeldFacts
  <2> QED
    BY <2>2, <2>3, DueFacts
<1> QED
  BY <1>1, <1>2 DEF Held

LEMMA AloneStep == QueueInv /\ AloneInv /\ OneCallPerJob /\ [Next]_vars => AloneInv'
<1> SUFFICES ASSUME QueueInv, AloneInv, OneCallPerJob, [Next]_vars PROVE AloneInv'
  OBVIOUS
<1>1. CASE \E w \in Workers, j \in Jobs : Writes(w, j)
  <2>1. PICK w \in Workers, j \in Jobs : Writes(w, j)
    BY <1>1
  <2>2. PICK new \in Job : Write(j, Copy(session[w], j), new)
    BY <2>1, WriteFacts
  <2>3. j \in Held(session[w]) /\ Copy(session[w], j) = job[j]
    BY <2>1, WriteFacts DEF AloneInv, CopiesFresh
  <2>4. raced' = {} /\ \A i \in Jobs : i # j => job'[i] = job[i]
    BY <2>2, <2>3, WrittenJob DEF AloneInv
  <2>5. ASSUME NEW v \in Workers, NEW i \in Held(session'[v])
        PROVE  /\ i # j /\ i \in Held(session[v])
               /\ Copy(session'[v], i) = Copy(session[v], i)
               /\ session'[v].pc = "exporting" => session[v].pc = "exporting"
    <3>1. CASE v = w
      <4>1. session'[w] # Idle
        BY <2>5, <3>1 DEF Held, Idle
      <4> QED
        BY <2>1, <2>5, <3>1, <4>1, WriteFacts
    <3>2. CASE v # w
      BY <2>1, <2>3, <2>5, <3>2, WriteFacts DEF OneCallPerJob
    <3> QED
      BY <3>1, <3>2
  <2> QED
    BY <2>4, <2>5, HeldFacts DEF AloneInv, CopiesFresh, Copy
<1>2. CASE ~ \E w \in Workers, j \in Jobs : Writes(w, j)
  <2>1. ASSUME NEW j \in Jobs, ~Created(j) \/ RetryFallsDue(j), raced' = raced,
               session' = session, \A i \in Jobs : i # j => job'[i] = job[i]
        PROVE  AloneInv'
    <3>1. \A v \in Workers : j \notin Held(session[v])
      BY <2>1, HeldFacts, NotDueNotHeld DEF AloneInv
    <3> QED
      BY <2>1, <3>1, HeldFacts DEF AloneInv, CopiesFresh, Held, Copy
  <2>2. ASSUME job' = job, raced' = raced
        PROVE  AloneInv'
    <3>1. ASSUME NEW v \in Workers, NEW j \in Held(session'[v])
          PROVE  /\ Copy(session'[v], j) = job[j]
                 /\ session'[v].pc = "exporting" => job[j].queue.due
      BY <1>2, <3>1, ReadFacts DEF AloneInv, CopiesFresh
    <3> QED
      BY <2>2, <3>1 DEF AloneInv, CopiesFresh, Copy, Held
  <2>3. ASSUME NEW w \in Workers, NEW j \in Jobs, NEW background \in BOOLEAN,
               NEW sensitive \in BOOLEAN, NEW user \in Users,
               CreateReport(w, j, background, sensitive, user)
        PROVE  AloneInv'
    BY <2>1, <2>3, CreateFacts
  <2>4. ASSUME NEW j \in Jobs, RetryFallsDue(j)
        PROVE  AloneInv'
    BY <2>1, <2>4, DueFacts
  <2> QED
    BY <1>2, <2>2, <2>3, <2>4, JobSteps
<1> QED
  BY <1>1, <1>2

(***************************************************************************)
(* If no two calls hold the same job at once, no change of a job is ever   *)
(* written over: the lost update is the only way reports can go wrong.     *)
(***************************************************************************)
THEOREM AloneNothingLost == Spec /\ []OneCallPerJob => [](raced = {})
<1>1. Init => AloneInv
  BY DEF Init, AloneInv, CopiesFresh, Held, Idle
<1>2. AloneInv => raced = {}
  BY DEF AloneInv
<1> QED
  BY <1>1, <1>2, AloneStep, QueueAlways, PTL DEF Spec

\* What the queue says of a job and what the job says of itself.
Matched ==
    \A j \in Jobs : job[j].status \in {"generated", "failed"} => job[j].queue.status # "queued"

LEMMA MatchedStep == QueueInv /\ Matched /\ [Next]_vars => Matched'
<1> SUFFICES ASSUME QueueInv, Matched, [Next]_vars PROVE Matched'
  OBVIOUS
<1>1. CASE job' = job
  BY <1>1 DEF Matched
<1>2. ASSUME NEW w \in Workers, NEW j \in Jobs, NEW background \in BOOLEAN,
             NEW sensitive \in BOOLEAN, NEW user \in Users,
             CreateReport(w, j, background, sensitive, user)
      PROVE  Matched'
  <2>1. PICK status : status = IF sensitive THEN "pending_review"
                               ELSE IF background THEN "queued" ELSE "generated"
    OBVIOUS
  <2>2. job'[j].status = status /\ job'[j].queue = NewQueue(status)
    BY <1>2, <2>1 DEF CreateReport, QueueInv, JobsSound
  <2>3. job'[j].status = "generated" => job'[j].queue.status = "ready"
    BY <2>2 DEF NewQueue
  <2>4. \A i \in Jobs : i # j => job'[i] = job[i]
    BY <1>2, CreateFacts
  <2>5. job'[j].status # "failed"
    BY <2>1, <2>2
  <2> QED
    BY <2>3, <2>4, <2>5 DEF Matched
<1>3. ASSUME NEW w \in Workers, NEW j \in Jobs, Writes(w, j)
      PROVE  Matched'
  <2>1. PICK new \in Job : /\ Write(j, Copy(session[w], j), new)
                           /\ new.queue.status = "queued" => new.status = "queued"
    BY <1>3, WriteFacts
  <2> QED
    BY <2>1, WrittenJob DEF Matched
<1>4. ASSUME NEW j \in Jobs, RetryFallsDue(j)
      PROVE  Matched'
  <2>1. job[j].queue.status = "queued" /\ job'[j].status = job[j].status
    BY <1>4, DueFacts DEF RetryFallsDue
  <2>2. \A i \in Jobs : i # j => job'[i] = job[i]
    BY <1>4, DueFacts
  <2> QED
    BY <2>1, <2>2 DEF Matched
<1> QED
  BY <1>1, <1>2, <1>3, <1>4, JobSteps

FinalForGood ==
    [][\A j \in Jobs : job[j].status \in {"generated", "failed"} => job'[j] = job[j]]_vars

(***************************************************************************)
(* Then a generated report is generated for good, and a given-up one is    *)
(* given up for good: a call that runs late undoes neither.                *)
(***************************************************************************)
THEOREM AloneFinalForGood == Spec /\ []OneCallPerJob => FinalForGood
<1> DEFINE Final == \A j \in Jobs : job[j].status \in {"generated", "failed"} => job'[j] = job[j]
<1>1. QueueInv /\ Matched /\ AloneInv /\ [Next]_vars => Final
  <2> SUFFICES ASSUME QueueInv, Matched, AloneInv, [Next]_vars,
                      NEW j \in Jobs, job[j].status \in {"generated", "failed"}
               PROVE  job'[j] = job[j]
    OBVIOUS
  <2>1. ASSUME NEW w \in Workers, NEW i \in Jobs, Writes(w, i)
        PROVE  job'[j] = job[j]
    <3>1. i \in Held(session[w]) /\ Copy(session[w], i) = job[i]
      BY <2>1, WriteFacts DEF AloneInv, CopiesFresh
    <3>2. Copy(session[w], i).status \in {"pending_review", "queued"}
      BY <3>1 DEF Held, Copy, QueueInv, CallsSound, CallSound
    <3>3. i # j
      BY <3>1, <3>2
    <3>4. \E new : Write(i, Copy(session[w], i), new)
      BY <2>1, WriteFacts
    <3> QED
      BY <3>3, <3>4, WrittenJob
  <2>2. ASSUME NEW w \in Workers, NEW i \in Jobs, NEW background \in BOOLEAN,
               NEW sensitive \in BOOLEAN, NEW user \in Users,
               CreateReport(w, i, background, sensitive, user)
        PROVE  job'[j] = job[j]
    <3>1. i # j
      BY <2>2, CreateFacts DEF Created, NoJob
    <3> QED
      BY <2>2, <3>1, CreateFacts
  <2>3. ASSUME NEW i \in Jobs, RetryFallsDue(i)
        PROVE  job'[j] = job[j]
    <3>1. i # j
      BY <2>3 DEF RetryFallsDue, Matched
    <3> QED
      BY <2>3, <3>1, DueFacts
  <2> QED
    BY <2>1, <2>2, <2>3, JobSteps
<1>2. Init => AloneInv /\ Matched
  BY DEF Init, AloneInv, CopiesFresh, Held, Idle, Matched, NoJob
<1>3. QueueInv /\ Matched /\ AloneInv /\ [Next]_vars => [Final]_vars
  BY <1>1
<1> QED
  BY <1>2, <1>3, AloneStep, MatchedStep, QueueAlways, PTL DEF Spec, FinalForGood
=============================================================================
