---------------------------- MODULE MCUserAccess ----------------------------
(* Small instances of UserAccess for TLC. *)
EXTENDS UserAccess, TLC

CONSTANTS w1, w2, u1, u2, e1

TwoWorkers == {w1, w2}
TwoUsers == {u1, u2}
OneEmployee == {e1}
OwnerOrEmployee == {"owner", "employee"}
SomeUpdates ==
    {<<"active", {}>>, <<"suspended", {}>>, <<"keep", {"owner"}>>, <<"keep", {"employee"}>>,
     <<"suspended", {"employee"}>>}
OneRole == {{"owner"}, {"employee"}}
Symmetry == Permutations(Workers)
=============================================================================
