--------------------------- MODULE TotalsTheorems ---------------------------
(***************************************************************************)
(* How a total moves: the lemmas every proof about balances, budgets and   *)
(* books in this project rests on.                                         *)
(***************************************************************************)
EXTENDS Totals, TLAPS, FiniteSetTheorems, FunctionTheorems, WellFoundedInduction

Amounts(f, S) == IsFiniteSet(S) /\ \A x \in S : f[x] \in Nat

\* One entry has as many units as its amount.
LEMMA UnitsOfOne ==
    ASSUME NEW x, NEW n \in Nat
    PROVE  IsFiniteSet({x} \X (1..n)) /\ Cardinality({x} \X (1..n)) = n
<1> DEFINE h == [k \in 1..n |-> <<x, k>>]
<1>1. h \in Injection(1..n, {x} \X (1..n)) /\ h \in Surjection(1..n, {x} \X (1..n))
    BY DEF Injection, IsInjective, Surjection
<1>2. ExistsBijection(1..n, {x} \X (1..n))
    BY <1>1 DEF Bijection, ExistsBijection
<1>3. IsFiniteSet(1..n) /\ Cardinality(1..n) = n
    BY FS_Interval
<1> QED
    BY <1>2, <1>3, FS_Bijection

\* Finitely many entries have finitely many units.
LEMMA UnitsFinite ==
    ASSUME NEW f, NEW S, Amounts(f, S)
    PROVE  IsFiniteSet(UnitsOf(f, S))
<1> DEFINE U == {{x} \X (1..f[x]) : x \in S}
           h == [x \in S |-> {x} \X (1..f[x])]
<1>1. h \in Surjection(S, U)
    BY DEF Surjection
<1>2. IsFiniteSet(U)
    BY <1>1, FS_Surjection DEF Amounts
<1>3. ASSUME NEW T \in U
      PROVE  IsFiniteSet(T)
  <2>1. PICK x \in S : T = {x} \X (1..f[x])
      OBVIOUS
  <2> QED
      BY <2>1, UnitsOfOne DEF Amounts
<1> HIDE DEF U
<1>4. IsFiniteSet(UNION U)
    BY <1>2, <1>3, FS_UNION
<1> QED
    BY <1>4 DEF UnitsOf, U

\* A total of natural numbers is one.
LEMMA TotalNat ==
    ASSUME NEW f, NEW S, Amounts(f, S)
    PROVE  Total(f, S) \in Nat
    BY UnitsFinite, FS_CardinalityType DEF Total

\* Nothing adds up to nothing.
LEMMA TotalEmpty ==
    ASSUME NEW f
    PROVE  Total(f, {}) = 0
<1>1. UnitsOf(f, {}) = {}
    BY DEF UnitsOf
<1> QED
    BY <1>1, FS_EmptySet DEF Total

\* The total depends on the amounts of its entries only.
LEMMA TotalSame ==
    ASSUME NEW f, NEW g, NEW S, \A x \in S : f[x] = g[x]
    PROVE  Total(f, S) = Total(g, S)
<1>1. UnitsOf(f, S) = UnitsOf(g, S)
    BY DEF UnitsOf
<1> QED
    BY <1>1 DEF Total

\* Totals of separate entries add up.
LEMMA TotalUnion ==
    ASSUME NEW f, NEW S, NEW T, Amounts(f, S), Amounts(f, T), S \cap T = {}
    PROVE  Total(f, S \cup T) = Total(f, S) + Total(f, T)
<1>1. UnitsOf(f, S \cup T) = UnitsOf(f, S) \cup UnitsOf(f, T)
    BY DEF UnitsOf
<1>2. UnitsOf(f, S) \cap UnitsOf(f, T) = {}
    BY DEF UnitsOf
<1>3. IsFiniteSet(UnitsOf(f, S)) /\ IsFiniteSet(UnitsOf(f, T))
    BY UnitsFinite
<1>4. Cardinality(UnitsOf(f, S) \cup UnitsOf(f, T))
        = Cardinality(UnitsOf(f, S)) + Cardinality(UnitsOf(f, T)) - Cardinality({})
    BY <1>2, <1>3, FS_Union
<1>5. Cardinality({}) = 0
    BY FS_EmptySet
<1>6. Cardinality(UnitsOf(f, S)) \in Nat /\ Cardinality(UnitsOf(f, T)) \in Nat
    BY <1>3, FS_CardinalityType
<1>7. Cardinality(UnitsOf(f, S) \cup UnitsOf(f, T)) = Cardinality(UnitsOf(f, S)) + Cardinality(UnitsOf(f, T))
    BY <1>4, <1>5, <1>6
<1> QED
    BY <1>1, <1>7, Zenon DEF Total

\* The total of a single entry.
LEMMA TotalOne ==
    ASSUME NEW f, NEW x, f[x] \in Nat
    PROVE  Total(f, {x}) = f[x]
<1>1. UnitsOf(f, {x}) = {x} \X (1..f[x])
    BY DEF UnitsOf
<1> QED
    BY <1>1, UnitsOfOne DEF Total

\* A new entry adds its amount.
LEMMA TotalAdd ==
    ASSUME NEW f, NEW S, NEW x, Amounts(f, S), f[x] \in Nat, x \notin S
    PROVE  Amounts(f, S \cup {x}) /\ Total(f, S \cup {x}) = Total(f, S) + f[x]
<1>1. IsFiniteSet({x}) /\ IsFiniteSet(S \cup {x})
    BY FS_Singleton, FS_AddElement DEF Amounts
<1>2. Amounts(f, {x}) /\ Amounts(f, S \cup {x})
    BY <1>1 DEF Amounts
<1>3. S \cap {x} = {}
    OBVIOUS
<1>4. Total(f, S \cup {x}) = Total(f, S) + Total(f, {x})
    BY <1>2, <1>3, TotalUnion
<1>5. Total(f, {x}) = f[x]
    BY TotalOne
<1> QED
    BY <1>2, <1>4, <1>5

\* An entry that goes takes its amount along.
LEMMA TotalRemove ==
    ASSUME NEW f, NEW S, NEW x \in S, Amounts(f, S)
    PROVE  Amounts(f, S \ {x}) /\ Total(f, S \ {x}) = Total(f, S) - f[x] /\ f[x] <= Total(f, S)
<1>1. Amounts(f, S \ {x}) /\ f[x] \in Nat
    BY FS_RemoveElement DEF Amounts
<1>2. (S \ {x}) \cup {x} = S
    OBVIOUS
<1>3. Total(f, S) = Total(f, S \ {x}) + f[x]
    BY <1>1, <1>2, TotalAdd
<1> QED
    BY <1>1, <1>3, TotalNat

\* A part adds up to no more than the whole.
LEMMA TotalPart ==
    ASSUME NEW f, NEW S, NEW T \in SUBSET S, Amounts(f, S)
    PROVE  Amounts(f, T) /\ Total(f, T) \in Nat /\ Total(f, T) <= Total(f, S)
<1>1. Amounts(f, T) /\ Amounts(f, S \ T)
    BY FS_Subset DEF Amounts
<1>2. T \cup (S \ T) = S /\ T \cap (S \ T) = {}
    OBVIOUS
<1>3. Total(f, S) = Total(f, T) + Total(f, S \ T)
    BY <1>1, <1>2, TotalUnion
<1> QED
    BY <1>1, <1>3, TotalNat

\* Entries of nothing add up to nothing.
LEMMA TotalZero ==
    ASSUME NEW f, NEW S, \A x \in S : f[x] = 0
    PROVE  Total(f, S) = 0
<1>1. UnitsOf(f, S) = {}
    BY DEF UnitsOf
<1> QED
    BY <1>1, FS_EmptySet DEF Total

\* Smaller amounts add up to less.
LEMMA TotalLess ==
    ASSUME NEW f, NEW g, NEW S, Amounts(f, S), Amounts(g, S), \A x \in S : f[x] <= g[x]
    PROVE  Total(f, S) <= Total(g, S)
<1>1. UnitsOf(f, S) \in SUBSET UnitsOf(g, S)
    BY DEF UnitsOf, Amounts
<1> QED
    BY <1>1, UnitsFinite, FS_Subset DEF Total

\* All entries but c have the same amount in f and g, and are in S exactly if they are in T.
OnlyEntry(f, g, S, T, all, c) ==
    /\ IsFiniteSet(all) /\ S \in SUBSET all /\ T \in SUBSET all /\ c \in all
    /\ \A x \in all : f[x] \in Nat /\ g[x] \in Nat /\ (x # c => g[x] = f[x] /\ (x \in T <=> x \in S))

\* The total moves by what its one entry does, whether that entry comes, goes or has another amount.
LEMMA TotalMoves ==
    ASSUME NEW f, NEW g, NEW S, NEW T, NEW all, NEW c, OnlyEntry(f, g, S, T, all, c)
    PROVE  /\ Total(g, T) = Total(f, S) + (IF c \in T THEN g[c] ELSE 0) - (IF c \in S THEN f[c] ELSE 0)
           /\ Total(f, S) \in Nat /\ Total(g, T) \in Nat
<1> USE DEF OnlyEntry
<1> DEFINE R == S \ {c}
<1>1. Amounts(f, S) /\ Amounts(g, T) /\ Amounts(f, R) /\ Amounts(g, R)
    BY FS_Subset DEF Amounts
<1>2. R = T \ {c}
    OBVIOUS
<1>3. Total(g, R) = Total(f, R)
    BY TotalSame
<1>4. f[c] \in Nat /\ g[c] \in Nat /\ Total(f, S) \in Nat /\ Total(g, T) \in Nat /\ Total(f, R) \in Nat
    BY <1>1, TotalNat
<1>5. Total(f, R) = Total(f, S) - (IF c \in S THEN f[c] ELSE 0)
  <2>1. CASE c \in S
      BY <1>1, <2>1, TotalRemove
  <2>2. CASE c \notin S
    <3>1. R = S
        BY <2>2
    <3> QED
        BY <1>4, <2>2, <3>1
  <2> QED
      BY <2>1, <2>2
<1>6. Total(g, R) = Total(g, T) - (IF c \in T THEN g[c] ELSE 0)
  <2>1. CASE c \in T
      BY <1>1, <1>2, <2>1, TotalRemove
  <2>2. CASE c \notin T
    <3>1. R = T
        BY <1>2, <2>2
    <3> QED
        BY <1>4, <2>2, <3>1
  <2> QED
      BY <2>1, <2>2
<1> HIDE DEF R
<1> QED
    BY <1>3, <1>4, <1>5, <1>6

\* A function takes finitely many values on a finite set.
LEMMA FiniteImage ==
    ASSUME NEW S, IsFiniteSet(S), NEW g
    PROVE  IsFiniteSet({g[x] : x \in S})
<1> DEFINE T == {g[x] : x \in S}
           f == [x \in S |-> g[x]]
<1>1. f \in Surjection(S, T)
    BY DEF Surjection
<1> HIDE DEF T, f
<1>2. IsFiniteSet(T)
    BY <1>1, FS_Surjection
<1> QED
    BY <1>2 DEF T

\* A nonempty set of numbers has a least one: what takes the place of induction in these proofs.
LEMMA LeastOf ==
    ASSUME NEW S \in SUBSET Nat, S # {}
    PROVE  \E i \in S : \A j \in S : i <= j
<1> DEFINE R == OpToRel(<, Nat)
<1>1. IsWellFoundedOn(R, Nat)
    BY NatLessThanWellFounded
<1>2. \E i \in S : \A j \in S : ~(<<j, i>> \in R)
  <2> HIDE DEF R
  <2> QED
      BY <1>1, WFMin
<1>3. \A i, j \in Nat : <<j, i>> \in R <=> j < i
    BY DEF OpToRel
<1> HIDE DEF R
<1>4. \A i, j \in S : i \in Nat /\ j \in Nat /\ (~(j < i) => i <= j)
    OBVIOUS
<1> QED
    BY <1>2, <1>3, <1>4

\* A set of numbers up to n has a greatest one.
LEMMA Greatest ==
    ASSUME NEW n \in Nat, NEW S \in SUBSET (1..n), S # {}
    PROVE  \E i \in S : \A j \in S : j <= i
<1> DEFINE T == {n - i : i \in S}
<1>1. T \in SUBSET Nat /\ T # {}
  <2>1. \A i \in S : i \in Int /\ i <= n
      OBVIOUS
  <2>2. \A i \in S : n - i \in Nat
      BY <2>1
  <2> QED
      BY <2>2
<1>2. PICK x \in T : \A y \in T : x <= y
  <2> HIDE DEF T
  <2> QED
      BY <1>1, LeastOf
<1>3. PICK i \in S : x = n - i
    OBVIOUS
<1>4. \A j \in S : n - i <= n - j
    BY <1>2, <1>3
<1> QED
    BY <1>4
=============================================================================
