------------------------------- MODULE Totals -------------------------------
(***************************************************************************)
(* Sums of amounts over a set.  An amount is counted unit by unit, so that *)
(* a sum is a cardinality: TotalsTheorems derives from the library's facts *)
(* about finite sets how a total moves when an entry does.                 *)
(***************************************************************************)
EXTENDS Integers, FiniteSets

\* The units of the entries in S, where x stands for f[x] of them.
UnitsOf(f, S) == UNION {{x} \X (1..f[x]) : x \in S}

\* The sum of f[x] for x in S, each f[x] a natural number.
Total(f, S) == Cardinality(UnitsOf(f, S))
=============================================================================
