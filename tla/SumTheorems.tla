----------------------------- MODULE SumTheorems -----------------------------
(***************************************************************************)
(* Theorems about SumFunctionOnSet for functions to the naturals.  The sum *)
(* is the number of pairs <<x, k>> with k in 1..f[x], which gives the laws *)
(* of its recursive definition without a recursion.                        *)
(***************************************************************************)
EXTENDS Functions, FiniteSetTheorems, WellFoundedInduction, TLAPS

-----------------------------------------------------------------------------
(* Quotients and factors. *)

\* A quotient of naturals is a natural; the divisor takes it back to the dividend up to a rest.
LEMMA Quotient ==
  ASSUME NEW x \in Nat, NEW n \in Nat \ {0}
  PROVE  /\ x \div n \in Nat
         /\ n * (x \div n) <= x
         /\ x < n * (x \div n) + n
<1>1. x \div n \in Int /\ x = n * (x \div n) + (x % n) /\ x % n \in 0..(n - 1)
  OBVIOUS
<1> QED
  BY <1>1

\* A factor cancels from a comparison.
LEMMA Cancel ==
  ASSUME NEW n \in Nat \ {0}, NEW x \in Int, NEW y \in Int, n * x <= n * y
  PROVE  x <= y
OBVIOUS

\* So it does from a strict comparison.
LEMMA CancelStrict ==
  ASSUME NEW n \in Nat \ {0}, NEW x \in Int, NEW y \in Int, n * x < n * y
  PROVE  x < y
OBVIOUS

-----------------------------------------------------------------------------
(* Induction over the subsets of a finite set, for a set P of them. *)

\* If a set is in P whenever its strict subsets are, S is in P.
THEOREM StrongSubsetInduction ==
  ASSUME NEW S, IsFiniteSet(S), NEW P,
         \A s \in SUBSET S : (\A t \in SUBSET s : t # s => t \in P) => s \in P
  PROVE  S \in P
<1> DEFINE R == StrictSubsetOrdering(S)
           Bad == {s \in SUBSET S : s \notin P}
<1>1. IsWellFoundedOn(R, SUBSET S)
  BY FS_StrictSubsetOrderingWellFounded, FS_FiniteSubsetsOfFinite
<1>2. SUFFICES ASSUME S \notin P PROVE FALSE
  OBVIOUS
<1>3. Bad \subseteq SUBSET S /\ Bad # {}
  BY <1>2
<1>4. PICK s \in Bad : \A t \in Bad : <<t, s>> \notin R
  <2> HIDE DEF R, Bad
  <2> QED
    BY <1>1, <1>3, WFMin
<1>5. ASSUME NEW t \in SUBSET s, t # s PROVE t \in P
  <2>1. <<t, s>> \in R
    BY <1>4, <1>5 DEF StrictSubsetOrdering
  <2> QED
    BY <1>4, <1>5, <2>1
<1> QED
  BY <1>4, <1>5

\* If the empty set is in P and P is closed under adding an element, S is in P.
THEOREM SubsetInduction ==
  ASSUME NEW S, IsFiniteSet(S), NEW P, {} \in P,
         \A s \in SUBSET S : \A x \in S \ s : s \in P => s \cup {x} \in P
  PROVE  S \in P
<1>1. ASSUME NEW s \in SUBSET S, \A t \in SUBSET s : t # s => t \in P
      PROVE  s \in P
  <2>1. CASE s = {}
    BY <2>1
  <2>2. ASSUME NEW x \in s PROVE s \in P
    <3>1. s \ {x} \in P /\ s \ {x} \in SUBSET S /\ x \in S \ (s \ {x})
      BY <1>1, <2>2
    <3>2. (s \ {x}) \cup {x} = s
      BY <2>2
    <3> QED
      BY <3>1, <3>2
  <2> QED
    BY <2>1, <2>2
<1> QED
  BY <1>1, StrongSubsetInduction

-----------------------------------------------------------------------------
(* The sum as the number of pairs. *)

Column(f, x) == {x} \X (1..f[x])
Columns(f, s) == UNION {Column(f, x) : x \in s}

\* The column of x has f[x] elements.
LEMMA ColumnSize ==
  ASSUME NEW f, NEW x, f[x] \in Nat
  PROVE  IsFiniteSet(Column(f, x)) /\ Cardinality(Column(f, x)) = f[x]
<1>1. IsFiniteSet({x}) /\ Cardinality({x}) = 1
  BY FS_Singleton
<1>2. IsFiniteSet(1..f[x]) /\ Cardinality(1..f[x]) = f[x]
  <2> DEFINE n == f[x]
  <2>1. n \in Nat
    OBVIOUS
  <2> HIDE DEF n
  <2>2. IsFiniteSet(1..n) /\ Cardinality(1..n) = IF 1 > n THEN 0 ELSE n - 1 + 1
    BY <2>1, FS_Interval
  <2>3. IsFiniteSet(1..n) /\ Cardinality(1..n) = n
    BY <2>1, <2>2
  <2> QED
    BY <2>3 DEF n
<1>3. /\ IsFiniteSet({x} \X (1..f[x]))
      /\ Cardinality({x} \X (1..f[x])) = Cardinality({x}) * Cardinality(1..f[x])
  <2> DEFINE one == {x}
             many == 1..f[x]
  <2> HIDE DEF one, many
  <2>1. IsFiniteSet(one) /\ IsFiniteSet(many)
    BY <1>1, <1>2 DEF one, many
  <2>2. IsFiniteSet(one \X many) /\ Cardinality(one \X many) = Cardinality(one) * Cardinality(many)
    BY <2>1, FS_Product
  <2> QED
    BY <2>2 DEF one, many
<1> QED
  BY <1>1, <1>2, <1>3 DEF Column

\* Finitely many columns are a finite set.
LEMMA ColumnsFinite ==
  ASSUME NEW f, NEW s, IsFiniteSet(s), \A x \in s : f[x] \in Nat
  PROVE  IsFiniteSet(Columns(f, s))
<1> DEFINE P == {t \in SUBSET s : IsFiniteSet(Columns(f, t))}
<1>1. {} \in P
  <2>1. Columns(f, {}) = {}
    BY DEF Columns
  <2> QED
    BY <2>1, FS_EmptySet
<1>2. ASSUME NEW t \in SUBSET s, NEW x \in s \ t, t \in P PROVE t \cup {x} \in P
  <2>1. Columns(f, t \cup {x}) = Columns(f, t) \cup Column(f, x)
    BY DEF Columns
  <2> QED
    BY <1>2, <2>1, ColumnSize, FS_Union
<1> HIDE DEF P
<1>3. s \in P
  BY <1>1, <1>2, SubsetInduction
<1> QED
  BY <1>3 DEF P

\* One more column adds its size.
LEMMA ColumnsAdd ==
  ASSUME NEW f, NEW s, IsFiniteSet(s), \A x \in s : f[x] \in Nat,
         NEW y, y \notin s, f[y] \in Nat
  PROVE  Cardinality(Columns(f, s \cup {y})) = Cardinality(Columns(f, s)) + f[y]
<1>1. Columns(f, s \cup {y}) = Columns(f, s) \cup Column(f, y)
  BY DEF Columns
<1>2. Columns(f, s) \cap Column(f, y) = {}
  BY DEF Columns, Column
<1>3. IsFiniteSet(Columns(f, s)) /\ IsFiniteSet(Column(f, y)) /\ Cardinality(Column(f, y)) = f[y]
  BY ColumnsFinite, ColumnSize
<1>4. Cardinality(Columns(f, s)) \in Nat /\ Cardinality({}) = 0
  BY <1>3, FS_CardinalityType, FS_EmptySet
<1>5. Cardinality(Columns(f, s) \cup Column(f, y))
        = Cardinality(Columns(f, s)) + f[y] - Cardinality(Columns(f, s) \cap Column(f, y))
  BY <1>3, FS_Union
<1>6. Cardinality(Columns(f, s) \cap Column(f, y)) = 0
  BY <1>2, <1>4
<1>7. Cardinality(Columns(f, s \cup {y})) = Cardinality(Columns(f, s)) + f[y] - 0
  BY <1>1, <1>5, <1>6
<1> QED
  BY <1>4, <1>7

\* The fold over the set counts the pairs.
LEMMA SumIsColumns ==
  ASSUME NEW f, NEW S, IsFiniteSet(S), \A x \in S : f[x] \in Nat
  PROVE  SumFunctionOnSet(f, S) = Cardinality(Columns(f, S))
<1> DEFINE ch(s) == CHOOSE x \in s : TRUE
           Eq(h) == h = [s \in SUBSET S |-> IF s = {} THEN 0 ELSE f[ch(s)] + h[s \ {ch(s)}]]
           g == [s \in SUBSET S |-> Cardinality(Columns(f, s))]
           it == CHOOSE h : Eq(h)
<1>1. SumFunctionOnSet(f, S) = it[S]
  BY DEF SumFunctionOnSet, FoldFunctionOnSet, MapThenFoldSet
<1>2. ASSUME NEW s \in SUBSET S, s # {}
      PROVE  /\ ch(s) \in s /\ s \ {ch(s)} \in SUBSET S
             /\ Cardinality(Columns(f, s)) = f[ch(s)] + Cardinality(Columns(f, s \ {ch(s)}))
  <2>1. ch(s) \in s
    BY <1>2
  <2> HIDE DEF ch
  <2> DEFINE r == s \ {ch(s)}
  <2>2. IsFiniteSet(r) /\ (\A x \in r : f[x] \in Nat) /\ ch(s) \notin r /\ s = r \cup {ch(s)}
    BY <2>1, FS_Subset
  <2>3. f[ch(s)] \in Nat
    BY <2>1
  <2> HIDE DEF r
  <2>4. Cardinality(Columns(f, r)) \in Nat
    BY <2>2, ColumnsFinite, FS_CardinalityType
  <2>5. Cardinality(Columns(f, r \cup {ch(s)})) = Cardinality(Columns(f, r)) + f[ch(s)]
    BY <2>2, <2>3, ColumnsAdd
  <2>6. Cardinality(Columns(f, s)) = f[ch(s)] + Cardinality(Columns(f, r))
    <3>1. Cardinality(Columns(f, s)) = Cardinality(Columns(f, r)) + f[ch(s)]
      BY <2>2, <2>5
    <3> QED
      BY <2>3, <2>4, <3>1
  <2> QED
    BY <2>1, <2>6 DEF r
<1>3. Cardinality(Columns(f, {})) = 0
  <2>1. Columns(f, {}) = {}
    BY DEF Columns
  <2> QED
    BY <2>1, FS_EmptySet
<1>4. Eq(g)
  <2> HIDE DEF ch
  <2> QED
    BY <1>2, <1>3
<1>5. Eq(it)
  <2> HIDE DEF Eq, g
  <2> QED
    BY <1>4
<1> DEFINE P == {s \in SUBSET S : it[s] = g[s]}
<1>6. ASSUME NEW s \in SUBSET S, \A t \in SUBSET s : t # s => t \in P
      PROVE  s \in P
  <2> HIDE DEF it, ch
  <2>1. CASE s = {}
    BY <1>3, <1>5, <2>1
  <2>2. CASE s # {}
    <3>1. ch(s) \in s /\ s \ {ch(s)} \in SUBSET S
          /\ Cardinality(Columns(f, s)) = f[ch(s)] + Cardinality(Columns(f, s \ {ch(s)}))
      BY <1>2, <2>2
    <3>2. s \ {ch(s)} \in P
      BY <1>6, <3>1
    <3>3. it[s] = f[ch(s)] + it[s \ {ch(s)}]
      BY <1>5, <2>2
    <3> QED
      BY <3>1, <3>2, <3>3
  <2> QED
    BY <2>1, <2>2
<1>7. S \in P
  <2> HIDE DEF P
  <2> QED
    BY <1>6, StrongSubsetInduction
<1> QED
  BY <1>1, <1>7

-----------------------------------------------------------------------------
(* The laws of the sum. *)

\* A sum of naturals is a natural.
THEOREM SumType ==
  ASSUME NEW f, NEW S, IsFiniteSet(S), \A x \in S : f[x] \in Nat
  PROVE  SumFunctionOnSet(f, S) \in Nat
BY SumIsColumns, ColumnsFinite, FS_CardinalityType

\* Nothing sums to nothing.
THEOREM SumEmpty == \A f : SumFunctionOnSet(f, {}) = 0
<1> SUFFICES ASSUME NEW f PROVE SumFunctionOnSet(f, {}) = 0
  OBVIOUS
<1>1. IsFiniteSet({}) /\ Cardinality({}) = 0
  BY FS_EmptySet
<1>2. SumFunctionOnSet(f, {}) = Cardinality(Columns(f, {}))
  BY <1>1, SumIsColumns
<1>3. Columns(f, {}) = {}
  BY DEF Columns
<1> QED
  BY <1>1, <1>2, <1>3

\* One more element adds its value.
THEOREM SumAdd ==
  ASSUME NEW f, NEW S, IsFiniteSet(S), \A x \in S : f[x] \in Nat,
         NEW y, y \notin S, f[y] \in Nat
  PROVE  SumFunctionOnSet(f, S \cup {y}) = SumFunctionOnSet(f, S) + f[y]
<1>1. IsFiniteSet(S \cup {y}) /\ \A x \in S \cup {y} : f[x] \in Nat
  BY FS_AddElement
<1>2. SumFunctionOnSet(f, S \cup {y}) = Cardinality(Columns(f, S \cup {y}))
  BY <1>1, SumIsColumns
<1>3. SumFunctionOnSet(f, S) = Cardinality(Columns(f, S))
  BY SumIsColumns
<1> QED
  BY <1>2, <1>3, ColumnsAdd

\* An element contributes its value.
THEOREM SumRemove ==
  ASSUME NEW f, NEW S, IsFiniteSet(S), \A x \in S : f[x] \in Nat, NEW y \in S
  PROVE  SumFunctionOnSet(f, S) = SumFunctionOnSet(f, S \ {y}) + f[y]
<1> DEFINE r == S \ {y}
<1>1. IsFiniteSet(r) /\ (\A x \in r : f[x] \in Nat) /\ y \notin r /\ f[y] \in Nat /\ S = r \cup {y}
  BY FS_Subset
<1> HIDE DEF r
<1>2. SumFunctionOnSet(f, r \cup {y}) = SumFunctionOnSet(f, r) + f[y]
  BY <1>1, SumAdd
<1>3. SumFunctionOnSet(f, S) = SumFunctionOnSet(f, r) + f[y]
  BY <1>1, <1>2
<1> QED
  BY <1>3 DEF r

\* Functions that agree on a set have the same sum over it.
THEOREM SumSame ==
  ASSUME NEW f, NEW g, NEW S, IsFiniteSet(S), \A x \in S : f[x] \in Nat /\ g[x] = f[x]
  PROVE  SumFunctionOnSet(g, S) = SumFunctionOnSet(f, S)
<1>1. Columns(g, S) = Columns(f, S)
  BY DEF Columns, Column
<1>2. SumFunctionOnSet(f, S) = Cardinality(Columns(f, S))
  BY SumIsColumns
<1>3. SumFunctionOnSet(g, S) = Cardinality(Columns(g, S))
  BY SumIsColumns
<1> QED
  BY <1>1, <1>2, <1>3

\* A change of one value changes the sum by as much.
THEOREM SumChange ==
  ASSUME NEW f, NEW g, NEW S, IsFiniteSet(S), \A x \in S : f[x] \in Nat /\ g[x] \in Nat,
         NEW y \in S, \A x \in S \ {y} : g[x] = f[x]
  PROVE  SumFunctionOnSet(g, S) = SumFunctionOnSet(f, S) + g[y] - f[y]
<1> DEFINE r == S \ {y}
<1>1. IsFiniteSet(r) /\ \A x \in r : f[x] \in Nat /\ g[x] = f[x]
  BY FS_Subset
<1>2. SumFunctionOnSet(f, S) = SumFunctionOnSet(f, r) + f[y]
  BY SumRemove
<1>3. SumFunctionOnSet(g, S) = SumFunctionOnSet(g, r) + g[y]
  BY SumRemove
<1> HIDE DEF r
<1>4. SumFunctionOnSet(g, r) = SumFunctionOnSet(f, r) /\ SumFunctionOnSet(f, r) \in Nat
  BY <1>1, SumSame, SumType
<1>5. f[y] \in Nat /\ g[y] \in Nat
  OBVIOUS
<1> QED
  BY <1>2, <1>3, <1>4, <1>5

\* The sum of zeros.
THEOREM SumZero ==
  ASSUME NEW f, NEW S, IsFiniteSet(S), \A x \in S : f[x] = 0
  PROVE  SumFunctionOnSet(f, S) = 0
<1> DEFINE P == {s \in SUBSET S : SumFunctionOnSet(f, s) = 0}
<1>1. {} \in P
  BY SumEmpty
<1>2. ASSUME NEW s \in SUBSET S, NEW x \in S \ s, s \in P PROVE s \cup {x} \in P
  <2>1. IsFiniteSet(s)
    BY FS_Subset
  <2> QED
    BY <1>2, <2>1, SumAdd
<1> HIDE DEF P
<1>3. S \in P
  BY <1>1, <1>2, SubsetInduction
<1> QED
  BY <1>3 DEF P

\* Each value is at most the sum.
THEOREM SumMember ==
  ASSUME NEW f, NEW S, IsFiniteSet(S), \A x \in S : f[x] \in Nat, NEW y \in S
  PROVE  f[y] <= SumFunctionOnSet(f, S)
<1>1. IsFiniteSet(S \ {y}) /\ \A x \in S \ {y} : f[x] \in Nat
  BY FS_Subset
<1>2. SumFunctionOnSet(f, S \ {y}) \in Nat /\ f[y] \in Nat
  BY <1>1, SumType
<1>3. SumFunctionOnSet(f, S) = SumFunctionOnSet(f, S \ {y}) + f[y]
  BY SumRemove
<1> QED
  BY <1>2, <1>3

\* The sum of f + c * h is the sum of f and c times the sum of h.
THEOREM SumLinear ==
  ASSUME NEW f, NEW g, NEW h, NEW c \in Nat, NEW S, IsFiniteSet(S),
         \A x \in S : f[x] \in Nat /\ h[x] \in Nat /\ g[x] = f[x] + c * h[x]
  PROVE  SumFunctionOnSet(g, S) = SumFunctionOnSet(f, S) + c * SumFunctionOnSet(h, S)
<1> DEFINE P == {s \in SUBSET S :
                   SumFunctionOnSet(g, s) = SumFunctionOnSet(f, s) + c * SumFunctionOnSet(h, s)}
<1>1. {} \in P
  BY SumEmpty
<1>2. ASSUME NEW s \in SUBSET S, NEW y \in S \ s, s \in P
      PROVE  s \cup {y} \in P
  <2>1. IsFiniteSet(s)
    BY FS_Subset
  <2>2. \A x \in S : g[x] \in Nat
    OBVIOUS
  <2>3. /\ SumFunctionOnSet(f, s \cup {y}) = SumFunctionOnSet(f, s) + f[y]
        /\ SumFunctionOnSet(h, s \cup {y}) = SumFunctionOnSet(h, s) + h[y]
        /\ SumFunctionOnSet(g, s \cup {y}) = SumFunctionOnSet(g, s) + g[y]
    BY <2>1, <2>2, SumAdd
  <2>4. SumFunctionOnSet(f, s) \in Nat /\ SumFunctionOnSet(h, s) \in Nat /\ f[y] \in Nat /\ h[y] \in Nat
    BY <2>1, SumType
  <2>5. c * (SumFunctionOnSet(h, s) + h[y]) = c * SumFunctionOnSet(h, s) + c * h[y]
    BY <2>4
  <2>6. SumFunctionOnSet(g, s) = SumFunctionOnSet(f, s) + c * SumFunctionOnSet(h, s) /\ g[y] = f[y] + c * h[y]
    BY <1>2
  <2> DEFINE ch == c * SumFunctionOnSet(h, s)
             cy == c * h[y]
  <2>7. ch \in Nat /\ cy \in Nat
    BY <2>4
  <2> HIDE DEF ch, cy
  <2>8. SumFunctionOnSet(g, s \cup {y})
          = SumFunctionOnSet(f, s \cup {y}) + c * SumFunctionOnSet(h, s \cup {y})
    BY <2>3, <2>4, <2>5, <2>6, <2>7 DEF ch, cy
  <2> QED
    BY <2>8
<1> HIDE DEF P
<1>3. S \in P
  BY <1>1, <1>2, SubsetInduction
<1> QED
  BY <1>3 DEF P

\* If c * f is at most g at each element, it is in the sums.
THEOREM SumScaledBound ==
  ASSUME NEW f, NEW g, NEW c \in Nat, NEW S, IsFiniteSet(S),
         \A x \in S : f[x] \in Nat /\ g[x] \in Nat /\ c * f[x] <= g[x]
  PROVE  c * SumFunctionOnSet(f, S) <= SumFunctionOnSet(g, S)
<1> DEFINE P == {s \in SUBSET S : c * SumFunctionOnSet(f, s) <= SumFunctionOnSet(g, s)}
<1>1. {} \in P
  BY SumEmpty
<1>2. ASSUME NEW s \in SUBSET S, NEW y \in S \ s, s \in P
      PROVE  s \cup {y} \in P
  <2>1. IsFiniteSet(s)
    BY FS_Subset
  <2>2. /\ SumFunctionOnSet(f, s \cup {y}) = SumFunctionOnSet(f, s) + f[y]
        /\ SumFunctionOnSet(g, s \cup {y}) = SumFunctionOnSet(g, s) + g[y]
    BY <2>1, SumAdd
  <2>3. SumFunctionOnSet(f, s) \in Nat /\ SumFunctionOnSet(g, s) \in Nat /\ f[y] \in Nat /\ g[y] \in Nat
    BY <2>1, SumType
  <2>4. c * (SumFunctionOnSet(f, s) + f[y]) = c * SumFunctionOnSet(f, s) + c * f[y]
    BY <2>3
  <2>5. c * SumFunctionOnSet(f, s) <= SumFunctionOnSet(g, s) /\ c * f[y] <= g[y]
    BY <1>2
  <2>6. c * SumFunctionOnSet(f, s) \in Nat /\ c * f[y] \in Nat
    BY <2>3
  <2>7. c * SumFunctionOnSet(f, s \cup {y}) <= SumFunctionOnSet(g, s \cup {y})
    BY <2>2, <2>3, <2>4, <2>5, <2>6
  <2> QED
    BY <2>7
<1> HIDE DEF P
<1>3. S \in P
  BY <1>1, <1>2, SubsetInduction
<1> QED
  BY <1>3 DEF P
\* The sum over two disjoint sets is the sum of both sums.
THEOREM SumDisjoint ==
  ASSUME NEW f, NEW S, NEW T, IsFiniteSet(S), IsFiniteSet(T), S \cap T = {},
         \A x \in S \cup T : f[x] \in Nat
  PROVE  SumFunctionOnSet(f, S \cup T) = SumFunctionOnSet(f, S) + SumFunctionOnSet(f, T)
<1> DEFINE P == {t \in SUBSET T :
                   SumFunctionOnSet(f, S \cup t) = SumFunctionOnSet(f, S) + SumFunctionOnSet(f, t)}
<1>1. {} \in P
  <2>1. SumFunctionOnSet(f, S) \in Nat
    BY SumType
  <2>2. S \cup {} = S
    OBVIOUS
  <2> QED
    BY <2>1, <2>2, SumEmpty
<1>2. ASSUME NEW t \in SUBSET T, NEW y \in T \ t, t \in P
      PROVE  t \cup {y} \in P
  <2>1. IsFiniteSet(t) /\ IsFiniteSet(S \cup t)
    BY FS_Subset, FS_Union
  <2>2. y \notin S \cup t /\ f[y] \in Nat /\ \A x \in S \cup t : f[x] \in Nat
    OBVIOUS
  <2>3. SumFunctionOnSet(f, (S \cup t) \cup {y}) = SumFunctionOnSet(f, S \cup t) + f[y]
    BY <2>1, <2>2, SumAdd
  <2>4. SumFunctionOnSet(f, t \cup {y}) = SumFunctionOnSet(f, t) + f[y]
    BY <2>1, <2>2, SumAdd
  <2>5. SumFunctionOnSet(f, S) \in Nat /\ SumFunctionOnSet(f, t) \in Nat
    BY <2>1, <2>2, SumType
  <2>6. SumFunctionOnSet(f, S \cup t) = SumFunctionOnSet(f, S) + SumFunctionOnSet(f, t)
    BY <1>2
  <2>7. S \cup (t \cup {y}) = (S \cup t) \cup {y}
    OBVIOUS
  <2>8. f[y] \in Nat
    OBVIOUS
  <2>9. SumFunctionOnSet(f, (S \cup t) \cup {y})
          = SumFunctionOnSet(f, S) + SumFunctionOnSet(f, t \cup {y})
    BY <2>3, <2>4, <2>5, <2>6, <2>8
  <2>10. SumFunctionOnSet(f, S \cup (t \cup {y}))
          = SumFunctionOnSet(f, S) + SumFunctionOnSet(f, t \cup {y})
    BY <2>7, <2>9
  <2> QED
    BY <2>10
<1> HIDE DEF P
<1>3. T \in P
  BY <1>1, <1>2, SubsetInduction
<1> QED
  BY <1>3 DEF P

\* Summing over a set or over the images of its elements under a map that takes
\* no two of them to the same image is the same.
THEOREM SumImage ==
  ASSUME NEW f, NEW g, NEW h, NEW S, IsFiniteSet(S),
         \A x \in S : h[x] \in Nat /\ f[g[x]] = h[x],
         \A x, y \in S : g[x] = g[y] => x = y
  PROVE  SumFunctionOnSet(f, {g[x] : x \in S}) = SumFunctionOnSet(h, S)
<1> DEFINE image(s) == {g[x] : x \in s}
           P == {s \in SUBSET S : /\ IsFiniteSet(image(s))
                                  /\ SumFunctionOnSet(f, image(s)) = SumFunctionOnSet(h, s)}
<1>1. {} \in P
  <2>1. image({}) = {}
    OBVIOUS
  <2> QED
    BY <2>1, SumEmpty, FS_EmptySet
<1>2. ASSUME NEW s \in SUBSET S, NEW y \in S \ s, s \in P
      PROVE  s \cup {y} \in P
  <2>1. IsFiniteSet(s)
    BY FS_Subset
  <2>2. /\ IsFiniteSet(image(s))
        /\ SumFunctionOnSet(f, image(s)) = SumFunctionOnSet(h, s)
    BY <1>2
  <2>3. image(s \cup {y}) = image(s) \cup {g[y]}
    OBVIOUS
  <2>4. g[y] \notin image(s)
    OBVIOUS
  <2>5. (\A z \in image(s) : f[z] \in Nat) /\ f[g[y]] \in Nat
    OBVIOUS
  <2> DEFINE i == image(s)
             z == g[y]
  <2>6. f[z] = h[y] /\ h[y] \in Nat /\ \A x \in s : h[x] \in Nat
    OBVIOUS
  <2>7. SumFunctionOnSet(h, s \cup {y}) = SumFunctionOnSet(h, s) + h[y]
    BY <2>1, <2>6, SumAdd
  <2>8. IsFiniteSet(i) /\ z \notin i /\ (\A x \in i : f[x] \in Nat) /\ f[z] \in Nat
    BY <2>2, <2>4, <2>5
  <2>9. image(s \cup {y}) = i \cup {z} /\ SumFunctionOnSet(f, i) = SumFunctionOnSet(h, s)
    BY <2>2, <2>3
  <2> HIDE DEF i, z
  <2>10. SumFunctionOnSet(f, i \cup {z}) = SumFunctionOnSet(f, i) + f[z] /\ IsFiniteSet(i \cup {z})
    BY <2>8, SumAdd, FS_AddElement
  <2>11. /\ IsFiniteSet(image(s \cup {y}))
         /\ SumFunctionOnSet(f, image(s \cup {y})) = SumFunctionOnSet(h, s \cup {y})
    BY <2>6, <2>7, <2>9, <2>10
  <2> QED
    BY <2>11
<1> HIDE DEF P
<1>3. S \in P
  BY <1>1, <1>2, SubsetInduction
<1> QED
  BY <1>3 DEF P

\* A map that takes no two elements to the same image keeps their number.
THEOREM ImageSize ==
  ASSUME NEW g, NEW S, IsFiniteSet(S), \A x, y \in S : g[x] = g[y] => x = y
  PROVE  IsFiniteSet({g[x] : x \in S}) /\ Cardinality({g[x] : x \in S}) = Cardinality(S)
<1> DEFINE T == {g[x] : x \in S}
           k == [x \in S |-> g[x]]
<1>1. k \in Bijection(S, T)
  BY DEF Bijection, Injection, Surjection, IsInjective
<1> HIDE DEF T, k
<1>2. ExistsBijection(S, T)
  BY <1>1 DEF ExistsBijection
<1>3. IsFiniteSet(T) /\ Cardinality(T) = Cardinality(S)
  BY <1>2, FS_Bijection
<1> QED
  BY <1>3 DEF T
=============================================================================
