--------------------------- MODULE MCPayrollClose ---------------------------
(***************************************************************************)
(* Small instances of PayrollClose for TLC.  MCSpec is Spec within one of  *)
(* two scenarios, chosen at the start: together all calls would be out of  *)
(* reach.                                                                  *)
(***************************************************************************)
EXTENDS PayrollClose, TLC

CONSTANTS w1, w2, e1, a1

VARIABLE scenario

OneWorker == {w1}
TwoWorkers == {w1, w2}
OneEmployee == {e1}
OneAdjustment == {a1}
NoAdjustments == {}

\* One carried-over and one current-year unit are left.
CarriedUnits == [e \in Employees |-> 1]
CurrentUnits == [e \in Employees |-> 1]

AllCalls == {"create", "resolve", "recalculate", "confirm", "lock", "release",
             "prepare", "adjust", "decide", "edit", "review", "work"}
Symmetry == Permutations(Workers)

(***************************************************************************)
(* "close": the rules stay and no settlement is prepared.  "settle": two   *)
(* calculations, no adjustments, no releases, the blockers stay.           *)
(***************************************************************************)
Within ==
    \/ /\ scenario = "close"
       /\ config' = config
       /\ \A w \in Workers : session'[w].pc # "preparing"
    \/ /\ scenario = "settle"
       /\ serial' <= 2
       /\ work' = work
       /\ \A w \in Workers : session'[w].pc \notin {"requesting", "releasing"}

MCInit == Init /\ scenario \in {"close", "settle"}
MCNext == Next /\ Within /\ UNCHANGED scenario
MCSpec == MCInit /\ [][MCNext]_<<vars, scenario>>
=============================================================================
