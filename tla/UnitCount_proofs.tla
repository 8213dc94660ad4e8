-------------------------- MODULE UnitCount_proofs --------------------------
(***************************************************************************)
(* Adding a request to a set adds its units to the count.                  *)
(***************************************************************************)
EXTENDS UnitCount, FiniteSetTheorems, TLAPS

\* The units of one request are as many as it asks for.
LEMMA UnitsOfOne ==
    ASSUME NEW r, NEW n \in Nat
    PROVE  /\ IsFiniteSet({r} \X (1 .. n))
           /\ Cardinality({r} \X (1 .. n)) = n
<1>1. IsFiniteSet({r}) /\ Cardinality({r}) = 1
  BY FS_Singleton
<1>2. IsFiniteSet(1 .. n) /\ Cardinality(1 .. n) = n
  BY FS_Interval
<1>3. /\ IsFiniteSet({r} \X (1 .. n))
      /\ Cardinality({r} \X (1 .. n)) = Cardinality({r}) * Cardinality(1 .. n)
  BY <1>1, <1>2, FS_Product
<1>4. 1 * n = n
  OBVIOUS
<1> QED
  BY <1>1, <1>2, <1>3, <1>4

\* Finitely many requests have finitely many units.
LEMMA UnitSetFinite ==
    ASSUME NEW S, IsFiniteSet(S), NEW units, \A r \in S : units[r] \in Nat
    PROVE  IsFiniteSet(UnitSet(S, units))
<1> DEFINE part == [r \in S |-> {r} \X (1 .. units[r])]
           T == {{r} \X (1 .. units[r]) : r \in S}
<1>1. part \in Surjection(S, T)
  BY DEF Surjection
<1>2. IsFiniteSet(T)
  BY <1>1, FS_Surjection
<1>3. ASSUME NEW t \in T PROVE IsFiniteSet(t)
  <2>1. PICK r \in S : t = {r} \X (1 .. units[r])
    OBVIOUS
  <2>2. units[r] \in Nat
    OBVIOUS
  <2> QED
    BY <2>1, <2>2, UnitsOfOne
<1> QED
  BY <1>2, <1>3, FS_UNION DEF UnitSet

\* One more request adds its own units.
LEMMA UnitsOfAdd ==
    ASSUME NEW S, IsFiniteSet(S), NEW units, \A s \in S : units[s] \in Nat,
           NEW r, r \notin S, units[r] \in Nat
    PROVE  /\ UnitsOf(S, units) \in Nat
           /\ UnitsOf(S \cup {r}, units) = UnitsOf(S, units) + units[r]
<1> DEFINE own == {r} \X (1 .. units[r])
<1>1. UnitSet(S \cup {r}, units) = UnitSet(S, units) \cup own
  BY DEF UnitSet
<1>2. UnitSet(S, units) \cap own = {}
  BY DEF UnitSet
<1>3. IsFiniteSet(UnitSet(S, units))
  BY UnitSetFinite
<1>4. IsFiniteSet(own) /\ Cardinality(own) = units[r]
  BY UnitsOfOne
<1>5. Cardinality(UnitSet(S, units)) \in Nat /\ Cardinality({}) = 0
  BY <1>3, FS_CardinalityType, FS_EmptySet
<1>6. Cardinality(UnitSet(S, units) \cup own)
        = Cardinality(UnitSet(S, units)) + Cardinality(own) - Cardinality({})
  BY <1>2, <1>3, <1>4, FS_Union
<1> HIDE DEF own
<1>7. Cardinality(UnitSet(S, units) \cup own)
        = Cardinality(UnitSet(S, units)) + units[r]
  BY <1>4, <1>5, <1>6
<1>8. UnitsOf(S \cup {r}, units) = Cardinality(UnitSet(S, units) \cup own)
  BY <1>1 DEF UnitsOf
<1> QED
  BY <1>5, <1>7, <1>8 DEF UnitsOf

\* One request less takes its own units away.
LEMMA UnitsOfRemove ==
    ASSUME NEW S, IsFiniteSet(S), NEW units, \A s \in S : units[s] \in Nat,
           NEW r \in S
    PROVE  /\ UnitsOf(S \ {r}, units) \in Nat
           /\ UnitsOf(S, units) = UnitsOf(S \ {r}, units) + units[r]
<1>1. IsFiniteSet(S \ {r}) /\ S = (S \ {r}) \cup {r}
  BY FS_RemoveElement
<1> QED
  BY <1>1, UnitsOfAdd

\* Only the units of the counted requests matter.
LEMMA UnitsOfCongruent ==
    ASSUME NEW S, NEW u1, NEW u2, \A r \in S : u1[r] = u2[r]
    PROVE  UnitsOf(S, u1) = UnitsOf(S, u2)
BY DEF UnitsOf, UnitSet

\* No requests, no units.
LEMMA UnitsOfNone == ASSUME NEW units PROVE UnitsOf({}, units) = 0
BY FS_EmptySet DEF UnitsOf, UnitSet
=============================================================================
