----------------------------- MODULE ReportQueue ----------------------------
(***************************************************************************)
(* Report jobs and their export archives: src/server/reports/builder.ts.   *)
(* A job is created, reviewed by a second person if its fields are         *)
(* sensitive, exported at once or through a queue with retries, and its    *)
(* archive is downloaded until a deadline and then marked expired.         *)
(*                                                                         *)
(* No call claims a job: each reads jobs or archives, works on what it     *)
(* read and later writes them by id, the metadata (review and queue) as a  *)
(* whole from the copy it read.  A session below is a call between these   *)
(* points.  Time enters by two events, a retry that falls due and an       *)
(* archive that passes its deadline.                                       *)
(***************************************************************************)
EXTENDS Integers, FiniteSets

CONSTANTS
    Workers,        \* server requests that may be in progress together
    Users,          \* users with report:manage
    MaxJobs,        \* bounds the number of jobs; they are numbered by age
    Limit,          \* how many jobs or archives one call takes
    MaxAttempts,    \* maxAttempts of the queue
    MaxCrashes      \* bounds the calls that are broken off

ASSUME BoundsAssumption ==
    {MaxJobs, Limit, MaxAttempts} \subseteq Nat \ {0} /\ MaxCrashes \in Nat

VARIABLES
    job,            \* the ReportJob rows
    archive,        \* the ReportExportArchive row of each job
    session,        \* the call each worker has in progress
    tries,          \* history: exports of each job tried, up to MaxAttempts
    raced,          \* history: jobs written over a change the writer missed
    crashes         \* calls broken off so far

vars == <<job, archive, session, tries, raced, crashes>>

Jobs == 1 .. MaxJobs
Idle == [pc |-> "idle"]
NoJob == [status |-> "none"]

JobStatus == {"pending_review", "queued", "generated", "failed"}
QueueStatus == {"waiting_for_review", "queued", "processing", "ready", "failed"}
Queue == [status : QueueStatus, attempts : 0 .. MaxAttempts, due : BOOLEAN]
Job == [status : JobStatus, background : BOOLEAN, review : {"not_required", "pending", "approved"},
        by : Users, reviewer : Users \cup {"nobody"}, queue : Queue]
Archive == [status : {"generated", "downloaded", "expired"}, stored : BOOLEAN, late : BOOLEAN]

Exporting == [pc : {"exporting"}, jobs : SUBSET Jobs, seen : [Jobs -> {NoJob} \cup Job],
              cleanup : BOOLEAN]
Session ==
    {Idle} \cup Exporting
    \cup [pc : {"cleaning"}, jobs : SUBSET Jobs]
    \cup [pc : {"reviewing"}, job : Jobs, seen : Job, user : Users]
    \cup [pc : {"downloading", "expiring"}, job : Jobs]

TypeOK ==
    /\ job \in [Jobs -> {NoJob} \cup Job]
    /\ archive \in [Jobs -> Archive]
    /\ \A w \in Workers :
         \/ session[w].pc = "exporting" /\ session[w].jobs \subseteq Jobs
         \/ session[w] \in Session \ Exporting
    /\ tries \in [Jobs -> 0 .. MaxAttempts]
    /\ raced \subseteq Jobs
    /\ crashes \in 0 .. MaxCrashes

Init ==
    /\ job = [j \in Jobs |-> NoJob]
    /\ archive = [j \in Jobs |-> [status |-> "generated", stored |-> FALSE, late |-> FALSE]]
    /\ session = [w \in Workers |-> Idle]
    /\ tries = [j \in Jobs |-> 0]
    /\ raced = {}
    /\ crashes = 0

Created(j) == job[j] # NoJob
Become(w, s) == session' = [session EXCEPT ![w] = s]
Write(j, seen, new) ==
    /\ job' = [job EXCEPT ![j] = new]
    /\ raced' = IF job[j] # seen THEN raced \cup {j} ELSE raced

\* The first "Limit" of a set of jobs in order of age.
Oldest(jobs) == {j \in jobs : Cardinality({i \in jobs : i < j}) < Limit}

-----------------------------------------------------------------------------
(* The states of the queue *)

\* buildReportExportQueueState
NewQueue(status) ==
    [status |-> CASE status = "queued" -> "queued"
                  [] status = "pending_review" -> "waiting_for_review"
                  [] OTHER -> "ready",
     attempts |-> 0, due |-> status = "queued"]

AdvanceAfterReview(queue, background) ==
    IF background THEN [queue EXCEPT !.status = "queued", !.due = TRUE]
    ELSE [queue EXCEPT !.status = "ready", !.due = FALSE]

\* Mutant: the attempt is not counted.
MarkProcessingUncounted(queue) == [queue EXCEPT !.status = "processing", !.due = FALSE]

MarkProcessing(queue) ==
    [queue EXCEPT !.status = "processing", !.attempts = queue.attempts + 1, !.due = FALSE]

MarkReady(queue) == [queue EXCEPT !.status = "ready"]

\* Mutant: an off-by-one gives up before the last attempt.
MarkFailedEarly(queue) ==
    [queue EXCEPT !.status = IF queue.attempts + 1 >= MaxAttempts THEN "failed" ELSE "queued"]

\* The retry falls due after the backoff.
MarkFailed(queue) ==
    [queue EXCEPT !.status = IF queue.attempts >= MaxAttempts THEN "failed" ELSE "queued"]

IsDue(queue) == queue.status = "queued" /\ queue.due

-----------------------------------------------------------------------------
(* createCustomReportJob *)

CreateReport(w, j, background, sensitive, user) ==
    LET status == IF sensitive THEN "pending_review"
                  ELSE IF background THEN "queued" ELSE "generated"
    IN  /\ session[w] = Idle
        /\ ~Created(j) /\ \A i \in 1 .. j - 1 : Created(i)
        /\ job' = [job EXCEPT ![j] =
                     [status |-> status, background |-> background,
                      review |-> IF sensitive THEN "pending" ELSE "not_required",
                      by |-> user, reviewer |-> "nobody", queue |-> NewQueue(status)]]
        /\ UNCHANGED <<archive, session, tries, raced, crashes>>

-----------------------------------------------------------------------------
(* approveDbReportJobReview *)

\* Mutant: the author of a report may approve it.
ReadForOwnReview(w, j, user) ==
    /\ session[w] = Idle
    /\ job[j].status = "pending_review" /\ job[j].review = "pending"
    /\ Become(w, [pc |-> "reviewing", job |-> j, seen |-> job[j], user |-> user])
    /\ UNCHANGED <<job, archive, tries, raced, crashes>>

ReadForReview(w, j, user) ==
    /\ session[w] = Idle
    /\ job[j].status = "pending_review" /\ job[j].review = "pending"
    /\ user # job[j].by
    /\ Become(w, [pc |-> "reviewing", job |-> j, seen |-> job[j], user |-> user])
    /\ UNCHANGED <<job, archive, tries, raced, crashes>>

\* Mutant: the job gets the status of the queue.
ApproveWithQueueStatus(w) ==
    LET s == session[w]
        queue == AdvanceAfterReview(s.seen.queue, s.seen.background)
    IN  /\ s.pc = "reviewing"
        /\ Write(s.job, s.seen,
                 [s.seen EXCEPT !.status = queue.status,
                                !.review = "approved", !.reviewer = s.user, !.queue = queue])
        /\ Become(w, Idle)
        /\ UNCHANGED <<archive, tries, crashes>>

ApproveReview(w) ==
    LET s == session[w]
        queue == AdvanceAfterReview(s.seen.queue, s.seen.background)
    IN  /\ s.pc = "reviewing"
        /\ Write(s.job, s.seen,
                 [s.seen EXCEPT !.status = IF queue.status = "queued" THEN "queued" ELSE "generated",
                                !.review = "approved", !.reviewer = s.user, !.queue = queue])
        /\ Become(w, Idle)
        /\ UNCHANGED <<archive, tries, crashes>>

-----------------------------------------------------------------------------
(* processDbReportExportQueue *)

\* Mutant: a job asked for by its id is taken whatever its status.
ReadAnyJobs(w, wanted, cleanup) ==
    /\ session[w] = Idle
    /\ Become(w, [pc |-> "exporting", cleanup |-> cleanup, seen |-> job,
                  jobs |-> Oldest({j \in wanted : job[j].status \in {"queued", "generated"}})])
    /\ UNCHANGED <<job, archive, tries, raced, crashes>>

(***************************************************************************)
(* All queued jobs, or the one asked for.  The limit applies before those  *)
(* that are not due are skipped.                                           *)
(***************************************************************************)
ReadQueue(w, wanted, cleanup) ==
    /\ session[w] = Idle
    /\ Become(w, [pc |-> "exporting", cleanup |-> cleanup, seen |-> job,
                  jobs |-> {j \in Oldest({i \in wanted : job[i].status = "queued"}) :
                               IsDue(job[j].queue)}])
    /\ UNCHANGED <<job, archive, tries, raced, crashes>>

\* The next job of a call, oldest first, and what is left of the call after it.
Current(w, j) == j \in session[w].jobs /\ \A i \in session[w].jobs : j <= i
Advance(w, j) == Become(w, [session[w] EXCEPT !.jobs = @ \ {j}])
Tried(j) == tries' = [tries EXCEPT ![j] = IF @ < MaxAttempts THEN @ + 1 ELSE @]

\* The storage metadata, the job and its queue state in one transaction.
ExportJob(w, j) ==
    /\ session[w].pc = "exporting" /\ Current(w, j)
    /\ LET seen == session[w].seen[j]
       IN  Write(j, seen,
                 [seen EXCEPT !.status = "generated", !.queue = MarkReady(MarkProcessing(@))])
    /\ archive' = [archive EXCEPT ![j].stored = TRUE]
    /\ Tried(j)
    /\ Advance(w, j)
    /\ UNCHANGED crashes

\* The storage policy refuses the export, or its transaction fails.
FailJob(w, j) ==
    /\ session[w].pc = "exporting" /\ Current(w, j)
    /\ LET seen == session[w].seen[j]
           queue == MarkFailed(MarkProcessing(seen.queue))
       IN  Write(j, seen,
                 [seen EXCEPT !.status = IF queue.status = "failed" THEN "failed" ELSE "queued",
                              !.queue = queue])
    /\ Tried(j)
    /\ Advance(w, j)
    /\ UNCHANGED <<archive, crashes>>

-----------------------------------------------------------------------------
(* runReportExportMaintenance goes on with cleanupDbExpiredReportArchives *)

\* Mutant: only archives nobody downloaded are cleaned up.
ExpiredUnread == {j \in Jobs : Created(j) /\ archive[j].status = "generated" /\ archive[j].late}

Expired == {j \in Jobs : Created(j) /\ archive[j].status # "expired" /\ archive[j].late}

EndExport(w) ==
    /\ session[w].pc = "exporting" /\ session[w].jobs = {}
    /\ Become(w, IF session[w].cleanup THEN [pc |-> "cleaning", jobs |-> Oldest(Expired)] ELSE Idle)
    /\ UNCHANGED <<job, archive, tries, raced, crashes>>

CleanUp(w, j) ==
    /\ session[w].pc = "cleaning" /\ Current(w, j)
    /\ archive' = [archive EXCEPT ![j].status = "expired"]
    /\ Advance(w, j)
    /\ UNCHANGED <<job, tries, raced, crashes>>

EndCleanUp(w) ==
    /\ session[w].pc = "cleaning" /\ session[w].jobs = {}
    /\ Become(w, Idle)
    /\ UNCHANGED <<job, archive, tries, raced, crashes>>

-----------------------------------------------------------------------------
(* downloadDbReportArchive, with a token that fits the archive *)

ReadyForDownload(j) == job[j].status = "generated" /\ job[j].review # "pending"

ReadForDownload(w, j) ==
    /\ session[w] = Idle
    /\ Created(j) /\ ReadyForDownload(j)
    /\ archive[j].late => archive[j].status # "expired"
    /\ Become(w, [pc |-> IF archive[j].late THEN "expiring" ELSE "downloading", job |-> j])
    /\ UNCHANGED <<job, archive, tries, raced, crashes>>

MarkDownloaded(w) ==
    /\ session[w].pc = "downloading"
    /\ archive' = [archive EXCEPT ![session[w].job].status = "downloaded"]
    /\ Become(w, Idle)
    /\ UNCHANGED <<job, tries, raced, crashes>>

\* The download is refused, the archive marked.
MarkExpired(w) ==
    /\ session[w].pc = "expiring"
    /\ archive' = [archive EXCEPT ![session[w].job].status = "expired"]
    /\ Become(w, Idle)
    /\ UNCHANGED <<job, tries, raced, crashes>>

-----------------------------------------------------------------------------
\* A statement fails or the server stops; what was committed stays.
Abort(w) ==
    /\ session[w] # Idle
    /\ crashes < MaxCrashes
    /\ crashes' = crashes + 1
    /\ Become(w, Idle)
    /\ UNCHANGED <<job, archive, tries, raced>>

RetryFallsDue(j) ==
    /\ Created(j) /\ job[j].queue.status = "queued" /\ ~job[j].queue.due
    /\ job' = [job EXCEPT ![j].queue.due = TRUE]
    /\ UNCHANGED <<archive, session, tries, raced, crashes>>

DeadlinePasses(j) ==
    /\ Created(j) /\ ~archive[j].late
    /\ archive' = [archive EXCEPT ![j].late = TRUE]
    /\ UNCHANGED <<job, session, tries, raced, crashes>>

-----------------------------------------------------------------------------
Maintain(w) == ReadQueue(w, Jobs, TRUE)

Call(w) ==
    \/ \E j \in Jobs, background, sensitive \in BOOLEAN, user \in Users :
           CreateReport(w, j, background, sensitive, user)
    \/ \E j \in Jobs, user \in Users : ReadForReview(w, j, user)
    \/ Maintain(w) \/ ReadQueue(w, Jobs, FALSE)
    \/ \E j \in Jobs : ReadQueue(w, {j}, FALSE)
    \/ \E j \in Jobs : ReadForDownload(w, j)

Proceed(w) ==
    \/ ApproveReview(w)
    \/ \E j \in Jobs : ExportJob(w, j) \/ FailJob(w, j) \/ CleanUp(w, j)
    \/ EndExport(w) \/ EndCleanUp(w)
    \/ MarkDownloaded(w) \/ MarkExpired(w)

Next ==
    \/ \E w \in Workers : Call(w) \/ Proceed(w) \/ Abort(w)
    \/ \E j \in Jobs : RetryFallsDue(j) \/ DeadlinePasses(j)

Spec == Init /\ [][Next]_vars

(***************************************************************************)
(* vercel.json starts the maintenance once a day, time passes, and a call  *)
(* that is not broken off goes on.                                         *)
(***************************************************************************)
Fairness ==
    /\ \A j \in Jobs : WF_vars(RetryFallsDue(j))
    /\ SF_vars(\E w \in Workers : Maintain(w))
    /\ \A w \in Workers : WF_vars(Proceed(w))

FairSpec == Spec /\ Fairness

-----------------------------------------------------------------------------
(* Properties *)

(***************************************************************************)
(* README.md:20: a sensitive report is exported or can be downloaded only  *)
(* after its review by another user than the one who asked for it, however *)
(* reviews and exports overwrite each other's metadata.                    *)
(***************************************************************************)
ReviewedBySecond ==
    \A j \in Jobs : Created(j) =>
        /\ job[j].status # "pending_review" => job[j].review # "pending"
        /\ job[j].review = "approved" => job[j].reviewer \in Users \ {job[j].by}
        /\ archive[j].stored \/ archive[j].status = "downloaded" => job[j].review # "pending"

(***************************************************************************)
(* A job is given up only after MaxAttempts exports were really tried,     *)
(* whatever other calls wrote in between.                                  *)
(***************************************************************************)
NeverGivesUpEarly ==
    \A j \in Jobs : job[j].status = "failed" => tries[j] = MaxAttempts

(***************************************************************************)
(* A generated report stays generated, unless a call that had read the job *)
(* before wrote over it.                                                   *)
(***************************************************************************)
GeneratedStays ==
    [][\A j \in Jobs : job[j].status = "generated" /\ j \notin raced' =>
                           job'[j].status = "generated"]_vars

-----------------------------------------------------------------------------
(* The abstract life of a job *)

lifeBar ==
    [j \in Jobs |->
       CASE ~Created(j) -> [phase |-> "none"]
         [] Created(j) /\ j \in raced -> [phase |-> "lost"]
         [] OTHER -> [phase |-> job[j].status, background |-> job[j].background,
                      by |-> job[j].by, reviewer |-> job[j].reviewer,
                      left |-> MaxAttempts - job[j].queue.attempts]]

Life == INSTANCE ReportLife WITH life <- lifeBar

(***************************************************************************)
(* Reviews, exports and retries make up the promised life of a report, up  *)
(* to the first lost update of the job, if there is one: then, too, it is  *)
(* never the review that gets lost.                                        *)
(***************************************************************************)
ImplementsLife == Life!Spec

-----------------------------------------------------------------------------
(***************************************************************************)
(* Every queued job is generated or given up in the end: retries, backoff, *)
(* the limit of a call and overlapping calls never leave it in the queue.  *)
(***************************************************************************)
QueuedEnds == \A j \in Jobs :
    job[j].status = "queued" ~> job[j].status \in {"generated", "failed"}

(***************************************************************************)
(* Every archive past its deadline is marked expired in the end and stays  *)
(* so, also when a download was under way.                                 *)
(***************************************************************************)
LateExpires == \A j \in Jobs :
    Created(j) /\ archive[j].late ~> [](archive[j].status = "expired")
=============================================================================
