---------------------------- MODULE TotalsProofs ----------------------------
(***************************************************************************)
(* What Total computes, for functions on any finite set: nothing for a     *)
(* function that is zero everywhere, and a change at one point changes it  *)
(* by as much.                                                             *)
(***************************************************************************)
EXTENDS Totals, Integers, FiniteSetTheorems, TLAPS

\* The units of i are as many as f charges.
LEMMA UnitsOfCount ==
  ASSUME NEW f, NEW i, f[i] \in Nat
  PROVE  IsFiniteSet(UnitsOf(f, i)) /\ Cardinality(UnitsOf(f, i)) = f[i]
<1>1. IsFiniteSet(1..f[i]) /\ Cardinality(1..f[i]) = f[i]
  BY FS_Interval
<1>2. IsFiniteSet({i}) /\ Cardinality({i}) = 1
  BY FS_Singleton
<1>3. /\ IsFiniteSet({i} \X (1..f[i]))
      /\ Cardinality({i} \X (1..f[i])) = Cardinality({i}) * Cardinality(1..f[i])
  BY <1>1, <1>2, FS_Product
<1> QED BY <1>1, <1>2, <1>3 DEF UnitsOf

\* There are finitely many units.
LEMMA UnitsFinite ==
  ASSUME NEW S, IsFiniteSet(S), NEW f \in [S -> Nat]
  PROVE  IsFiniteSet(Units(f))
<1> DEFINE g == [i \in S |-> UnitsOf(f, i)]
           T == {UnitsOf(f, i) : i \in S}
<1>1. g \in Surjection(S, T)
  BY DEF Surjection
<1>2. IsFiniteSet(T)
  BY <1>1, FS_Surjection
<1>3. \A U \in T : IsFiniteSet(U)
  BY UnitsOfCount
<1> QED BY <1>2, <1>3, FS_UNION DEF Units

\* A change at one point changes the total by as much.
LEMMA TotalChanges ==
  ASSUME NEW S, IsFiniteSet(S), NEW f \in [S -> Nat], NEW g \in [S -> Nat], NEW i \in S,
         \A j \in S \ {i} : g[j] = f[j]
  PROVE  Total(f) \in Nat /\ Total(g) \in Nat /\ Total(g) = Total(f) - f[i] + g[i]
<1> DEFINE Rest(h) == Units(h) \ UnitsOf(h, i)
<1>1. ASSUME NEW h \in [S -> Nat]
      PROVE  Total(h) \in Nat /\ Cardinality(Rest(h)) \in Nat
             /\ Total(h) = Cardinality(Rest(h)) + h[i]
  <2>1. IsFiniteSet(Units(h))
    BY UnitsFinite
  <2>2. IsFiniteSet(UnitsOf(h, i)) /\ Cardinality(UnitsOf(h, i)) = h[i] /\ h[i] \in Nat
    BY UnitsOfCount
  <2>3. Units(h) \cap UnitsOf(h, i) = UnitsOf(h, i)
    BY DEF Units
  <2>4. /\ IsFiniteSet(Rest(h))
        /\ Cardinality(Rest(h)) = Cardinality(Units(h)) - Cardinality(Units(h) \cap UnitsOf(h, i))
    BY <2>1, FS_Difference
  <2>5. Cardinality(Units(h)) \in Nat /\ Cardinality(Rest(h)) \in Nat
    BY <2>1, <2>4, FS_CardinalityType
  <2> QED BY <2>2, <2>3, <2>4, <2>5 DEF Total
<1>2. Rest(f) = Rest(g)
  <2>1. ASSUME NEW h \in [S -> Nat], NEW u
        PROVE  u \in Rest(h) <=> \E j \in S \ {i} : u \in {j} \X (1..h[j])
    BY DEF Units, UnitsOf
  <2>2. ASSUME NEW u PROVE u \in Rest(f) <=> u \in Rest(g)
    BY <2>1
  <2> QED BY <2>2
<1> HIDE DEF Rest
<1> QED BY <1>1, <1>2

\* Where nothing is charged the total is zero.
LEMMA TotalZero ==
  ASSUME NEW S, NEW f \in [S -> Nat], \A i \in S : f[i] = 0
  PROVE  Total(f) = 0
<1>1. Units(f) = {}
  BY DEF Units, UnitsOf
<1> QED BY <1>1, FS_EmptySet DEF Total

\* The total is at least what any one point is charged.
LEMMA TotalAtLeast ==
  ASSUME NEW S, IsFiniteSet(S), NEW f \in [S -> Nat], NEW i \in S
  PROVE  f[i] <= Total(f)
<1> DEFINE g == [f EXCEPT ![i] = 0]
<1>1. g \in [S -> Nat] /\ g[i] = 0 /\ \A j \in S \ {i} : g[j] = f[j]
  OBVIOUS
<1> HIDE DEF g
<1>2. Total(f) \in Nat /\ Total(g) \in Nat /\ Total(g) = Total(f) - f[i] + 0
  BY <1>1, TotalChanges
<1> QED BY <1>2
=============================================================================
