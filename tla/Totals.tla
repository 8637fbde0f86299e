------------------------------- MODULE Totals -------------------------------
(***************************************************************************)
(* The sum of a function with values in Nat over its finite domain, as the *)
(* number of units it charges.  The quota modules compare counters with    *)
(* it.                                                                     *)
(***************************************************************************)
EXTENDS Naturals, FiniteSets

\* One element for every unit that f charges to i.
UnitsOf(f, i) == {i} \X (1..f[i])

\* All of them, and how many they are.
Units(f) == UNION {UnitsOf(f, i) : i \in DOMAIN f}
Total(f) == Cardinality(Units(f))
=============================================================================
