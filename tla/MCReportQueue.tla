---------------------------- MODULE MCReportQueue ---------------------------
(***************************************************************************)
(* A small instance of ReportQueue for TLC.  FairMCSpec is FairSpec within *)
(* one of two scenarios, chosen at the start: two overlapping calls on one *)
(* job, or two jobs that share the limit of a call.                        *)
(***************************************************************************)
EXTENDS ReportQueue, TLC

CONSTANTS w1, w2, u1, u2

VARIABLE scenario

TwoWorkers == {w1, w2}
TwoUsers == {u1, u2}

\* The users are interchangeable: the first report is by u1.
Within ==
    /\ job'[1] # NoJob => job'[1].by = u1
    /\ \/ scenario = "two calls" /\ job'[2] = NoJob
       \/ scenario = "two jobs" /\ session'[w2] = Idle

MCInit == Init /\ scenario \in {"two calls", "two jobs"}
MCNext == Next /\ Within /\ UNCHANGED scenario
FairMCSpec == MCInit /\ [][MCNext]_<<vars, scenario>> /\ Fairness
=============================================================================
