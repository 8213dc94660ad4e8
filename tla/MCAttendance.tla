---------------------------- MODULE MCAttendance ----------------------------
(***************************************************************************)
(* A small instance of Attendance for TLC.  MCSpec is Spec within one of   *)
(* three scenarios, chosen at the start: the punches of a day, corrections *)
(* of two days with a punch, or exceptions and sign-offs around a punch.   *)
(***************************************************************************)
EXTENDS Attendance, TLC

CONSTANTS w1, w2, e1, d1, d2, r1, r2, x1, x2

VARIABLE scenario

TwoWorkers == {w1, w2}
OneEmployee == {e1}
TwoDays == {d1, d2}
TwoRequests == {r1, r2}
TwoExceptions == {x1, x2}
Symmetry == Permutations(Workers) \cup Permutations(Exceptions) \cup Permutations(Requests)

\* The punches and requests of one day only.
FirstDay ==
    /\ \A w \in Workers : session'[w].pc = "clocking" => session'[w].day = d1
    /\ \A r \in Requests : request'[r] # NoRequest => request'[r].day = d1

\* No exceptions and no sign-offs.
PunchesOnly ==
    /\ ~over'
    /\ \A x \in Exceptions : exception'[x] = NoException
    /\ \A w \in Workers : session'[w].pc \notin {"counting", "resolving"}

Within ==
    \/ scenario = "punches" /\ PunchesOnly /\ FirstDay
    \/ scenario = "days" /\ PunchesOnly /\ time' <= 1
    \/ /\ scenario = "signoff" /\ FirstDay
       /\ time' <= 1
       /\ \A r \in Requests : request'[r] = NoRequest

MCInit ==
    /\ Init
    /\ scenario \in {"punches", "days", "signoff"}
    /\ scenario # "signoff" => \A x \in Exceptions : exception[x] = NoException
MCNext == Next /\ Within /\ UNCHANGED scenario
MCSpec == MCInit /\ [][MCNext]_<<vars, scenario>>
=============================================================================
