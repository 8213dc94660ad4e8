------------------------------ MODULE MCStaff -------------------------------
(***************************************************************************)
(* Small instances of Staff for TLC.  Two calls at once change manager     *)
(* lines, profiles and the set of employees, or record events and edit     *)
(* profiles and tasks.                                                     *)
(***************************************************************************)
EXTENDS Staff

CONSTANTS w1, w2, e1, e2, e3, p1, p2, t1

TwoWorkers == {w1, w2}
ThreeEmployees == {e1, e2, e3}
Founder == {e1}
TwoPosts == {p1, p2}
OneTask == {t1}

VARIABLE scenario

\* One of the two saves profiles, the other lines.
InLines ==
    /\ session'[w1].pc \in {"idle", "walking"} /\ session'[w2].pc \in {"idle", "checked", "walking"}
    /\ session'[w1].pc = "walking" => session'[w1].post # Keep
    /\ session'[w2].pc = "walking" => session'[w2].post = Keep
InEvents ==
    /\ UNCHANGED manager
    /\ \A e \in Employees \ Founders : profile'[e] = NoProfile

Within ==
    /\ scenario = "lines" => InLines /\ UNCHANGED task /\
          \A e \in Employees : profile'[e] # NoProfile => profile'[e].post = p1
    /\ scenario = "events" => InEvents

MCInit ==
    /\ Init /\ scenario \in {"lines", "events"}
    /\ \A e \in Founders : profile[e].post = p1

MCNext == Next /\ UNCHANGED scenario /\ Within

MCSpec == MCInit /\ [][MCNext]_<<vars, scenario>>
FairMCSpec == MCSpec /\ Fairness
=============================================================================
