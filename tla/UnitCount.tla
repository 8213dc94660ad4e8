----------------------------- MODULE UnitCount ------------------------------
(***************************************************************************)
(* How many units a set of requests stands for, as the size of a set: one  *)
(* element per unit.  TLC counts it, and the facts about finite sets of    *)
(* the proof library apply to it.                                          *)
(***************************************************************************)
EXTENDS Integers, FiniteSets

UnitSet(S, units) == UNION {{r} \X (1 .. units[r]) : r \in S}

UnitsOf(S, units) == Cardinality(UnitSet(S, units))
=============================================================================
