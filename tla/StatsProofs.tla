----------------------------- MODULE StatsProofs -----------------------------
(***************************************************************************)
(* The statistics for any counters, addresses, readers, hours and windows. *)
(* The sums of the code are folds over functions, so the first part is     *)
(* about what those compute; then the slice of addresses, the buckets, and *)
(* what a report sums up.                                                  *)
(***************************************************************************)
EXTENDS Stats, SequenceTheorems, FiniteSetTheorems, TLAPS

(* Induction over the natural numbers, for a set instead of an operator.   *)
LEMMA NatInductionOnSets ==
    ASSUME NEW S, 0 \in S, \A n \in Nat : n \in S => n + 1 \in S
    PROVE  Nat \subseteq S
<1> DEFINE R == OpToRel(<,Nat)
           T == Nat \ S
<1> SUFFICES ASSUME T # {} PROVE FALSE
  OBVIOUS
<1>1. IsWellFoundedOn(R, Nat)
  BY NatLessThanWellFounded
<1>2. \A x, y \in Nat : y < x => <<y, x>> \in R
  BY DEF OpToRel
<1> HIDE DEF R
<1>3. PICK x \in T : \A y \in T : ~(<<y, x>> \in R)
  BY <1>1, WFMin
<1>4. x \in Nat /\ x # 0 /\ x - 1 \in Nat /\ x - 1 < x
  OBVIOUS
<1>5. x - 1 \in S
  BY <1>2, <1>3, <1>4
<1>6. (x - 1) + 1 \in S
  BY <1>4, <1>5
<1> QED
  BY <1>3, <1>4, <1>6

(* Induction over the subsets of a finite set.                             *)
LEMMA SubsetInduction ==
    ASSUME NEW U, IsFiniteSet(U), NEW P, {} \in P,
           \A s \in SUBSET U : s # {} /\ (\A x \in s : s \ {x} \in P) => s \in P
    PROVE  SUBSET U \subseteq P
<1> DEFINE N == {n \in Nat : \A s \in SUBSET U : Cardinality(s) = n => s \in P}
<1>1. \A s \in SUBSET U : IsFiniteSet(s) /\ Cardinality(s) \in Nat
  BY FS_Subset, FS_CardinalityType
<1>2. 0 \in N
  BY <1>1, FS_EmptySet
<1>3. ASSUME NEW n \in Nat, n \in N
      PROVE  n + 1 \in N
  <2> SUFFICES ASSUME NEW s \in SUBSET U, Cardinality(s) = n + 1
               PROVE  s \in P
    OBVIOUS
  <2>1. s # {}
    <3>1. n + 1 # 0
      OBVIOUS
    <3> QED
      BY ONLY <3>1, FS_EmptySet, Cardinality(s) = n + 1
  <2>2. ASSUME NEW x \in s
        PROVE  s \ {x} \in P
    <3>1. Cardinality(s \ {x}) = n
      BY <1>1, FS_RemoveElement
    <3> QED
      BY <1>3, <3>1
  <2> QED
    BY <2>1, <2>2
<1> HIDE DEF N
<1>4. Nat \subseteq N
  BY <1>2, <1>3, NatInductionOnSets
<1> QED
  BY <1>1, <1>4 DEF N

-----------------------------------------------------------------------------
(* Sums: what the recursive function inside SumFunctionOnSet computes.     *)
Any(s) == CHOOSE x \in s : TRUE

(* The recursion over the elements of a set, in the order of the choice.   *)
Unfolded(f, it, s) == IF s = {} THEN 0 ELSE f[Any(s)] + it[s \ {Any(s)}]

IsIter(f, S, it) == it = [s \in SUBSET S |-> Unfolded(f, it, s)]

(* SumFunctionOnSet is such a function, which exists (IterExists).         *)
LEMMA SumIsIter ==
    ASSUME NEW f, NEW S
    PROVE  SumFunctionOnSet(f, S) = (CHOOSE it : IsIter(f, S, it))[S]
BY DEF SumFunctionOnSet, FoldFunctionOnSet, MapThenFoldSet, IsIter, Unfolded, Any

(* The functions are the same where they are summed: so are the results.   *)
LEMMA ItersAgree ==
    ASSUME NEW S, IsFiniteSet(S), NEW T, S \subseteq T,
           NEW f, NEW g, \A x \in S : f[x] = g[x],
           NEW i, IsIter(f, S, i), NEW j, IsIter(g, T, j)
    PROVE  i[S] = j[S]
<1> DEFINE P == {s \in SUBSET S : i[s] = j[s]}
<1>1. \A s \in SUBSET S : s # {} => Any(s) \in s
  BY DEF Any
<1>2. \A s \in SUBSET S : i[s] = Unfolded(f, i, s) /\ j[s] = Unfolded(g, j, s)
  BY DEF IsIter
<1>3. {} \in P
  BY <1>2 DEF Unfolded
<1>4. ASSUME NEW s \in SUBSET S, s # {}, \A x \in s : s \ {x} \in P
      PROVE  s \in P
  <2>1. PICK c : c = Any(s) /\ c \in s
    BY <1>1, <1>4
  <2>2. i[s] = f[c] + i[s \ {c}] /\ j[s] = g[c] + j[s \ {c}]
    BY <1>2, <1>4, <2>1 DEF Unfolded
  <2>3. i[s \ {c}] = j[s \ {c}] /\ f[c] = g[c]
    BY <1>4, <2>1
  <2> QED
    BY <2>2, <2>3
<1> HIDE DEF P
<1>5. SUBSET S \subseteq P
  BY <1>3, <1>4, SubsetInduction
<1> QED
  BY <1>5 DEF P

(* The recursion as far as sets of n elements.                             *)
IsPartIter(f, S, n, it) ==
    it = [s \in {x \in SUBSET S : Cardinality(x) <= n} |-> Unfolded(f, it, s)]

(* There is a function that satisfies the recursion.                       *)
LEMMA IterExists ==
    ASSUME NEW f, NEW S, IsFiniteSet(S)
    PROVE  \E it : IsIter(f, S, it)
<1> DEFINE Sub(n) == {x \in SUBSET S : Cardinality(x) <= n}
           N == {n \in Nat : \E it : IsPartIter(f, S, n, it)}
<1>1. \A s \in SUBSET S : IsFiniteSet(s) /\ Cardinality(s) \in Nat
  BY FS_Subset, FS_CardinalityType
<1>2. \A s \in SUBSET S : s # {} =>
         Any(s) \in s /\ Cardinality(s \ {Any(s)}) = Cardinality(s) - 1
  BY <1>1, FS_RemoveElement DEF Any
<1>3. 0 \in N
  <2> DEFINE it == [s \in Sub(0) |-> 0]
  <2>1. \A s \in Sub(0) : s = {}
    BY <1>1, FS_EmptySet
  <2>2. \A s \in Sub(0) : Unfolded(f, it, s) = 0
    BY <2>1 DEF Unfolded
  <2>3. it = [s \in Sub(0) |-> Unfolded(f, it, s)]
    BY <2>2
  <2> QED
    BY <2>3 DEF IsPartIter
<1>4. ASSUME NEW n \in Nat, n \in N
      PROVE  n + 1 \in N
  <2>1. PICK it : IsPartIter(f, S, n, it)
    BY <1>4
  <2> DEFINE new == [s \in Sub(n + 1) |-> Unfolded(f, it, s)]
  <2>2. \A s \in Sub(n) : it[s] = Unfolded(f, it, s)
    BY <2>1 DEF IsPartIter
  <2>3. \A s \in Sub(n) : s \in Sub(n + 1) /\ new[s] = it[s]
    BY <1>1, <2>2
  <2>4. ASSUME NEW s \in Sub(n + 1)
        PROVE  Unfolded(f, it, s) = Unfolded(f, new, s)
    <3>1. CASE s = {}
      BY <3>1 DEF Unfolded
    <3>2. CASE s # {}
      <4>1. s \ {Any(s)} \in Sub(n)
        BY <1>1, <1>2, <3>2
      <4>2. new[s \ {Any(s)}] = it[s \ {Any(s)}]
        BY <2>3, <4>1
      <4> HIDE DEF new
      <4> QED
        BY <3>2, <4>2 DEF Unfolded
    <3> QED
      BY <3>1, <3>2
  <2>5. new = [s \in Sub(n + 1) |-> Unfolded(f, new, s)]
    BY <2>4
  <2>6. IsPartIter(f, S, n + 1, new)
    BY <2>5 DEF IsPartIter
  <2> HIDE DEF new
  <2> QED
    BY <2>6
<1> HIDE DEF N
<1>5. Nat \subseteq N
  BY <1>3, <1>4, NatInductionOnSets
<1>6. Cardinality(S) \in N
  BY <1>1, <1>5
<1>7. PICK it : IsPartIter(f, S, Cardinality(S), it)
  BY <1>6 DEF N
<1>8. Sub(Cardinality(S)) = SUBSET S
  BY FS_Subset
<1>9. IsIter(f, S, it)
  BY <1>7, <1>8 DEF IsIter, IsPartIter
<1> QED
  BY <1>9

(* The sum of nothing.                                                     *)
LEMMA EmptySum ==
    ASSUME NEW f
    PROVE  SumFunctionOnSet(f, {}) = 0
<1>1. PICK i : i = (CHOOSE it : IsIter(f, {}, it)) /\ IsIter(f, {}, i)
  BY IterExists, FS_EmptySet
<1>2. i[{}] = 0
  BY <1>1 DEF IsIter, Unfolded
<1> QED
  BY <1>1, <1>2, SumIsIter

(* A sum depends on the values at the elements of its set alone.           *)
LEMMA SumCongruence ==
    ASSUME NEW S, IsFiniteSet(S), NEW f, NEW g, \A x \in S : f[x] = g[x]
    PROVE  SumFunctionOnSet(f, S) = SumFunctionOnSet(g, S)
<1>1. PICK i : i = (CHOOSE it : IsIter(f, S, it)) /\ IsIter(f, S, i)
  BY IterExists
<1>2. PICK j : j = (CHOOSE it : IsIter(g, S, it)) /\ IsIter(g, S, j)
  BY IterExists
<1>3. i[S] = j[S]
  BY <1>1, <1>2, ItersAgree
<1> QED
  BY <1>1, <1>2, <1>3, SumIsIter

(* The recursion, for sums.                                                *)
LEMMA SumUnfolds ==
    ASSUME NEW S, IsFiniteSet(S), S # {}, NEW f
    PROVE  /\ Any(S) \in S
           /\ SumFunctionOnSet(f, S)
                 = f[Any(S)] + SumFunctionOnSet(f, S \ {Any(S)})
<1>1. PICK i : i = (CHOOSE it : IsIter(f, S, it)) /\ IsIter(f, S, i)
  BY IterExists
<1>2. PICK T : T = S \ {Any(S)} /\ IsFiniteSet(T) /\ T \subseteq S
  BY FS_RemoveElement
<1>3. PICK j : j = (CHOOSE it : IsIter(f, T, it)) /\ IsIter(f, T, j)
  BY <1>2, IterExists
<1>4. i[T] = j[T]
  BY <1>1, <1>2, <1>3, ItersAgree
<1>5. i[S] = f[Any(S)] + i[T]
  BY <1>1, <1>2 DEF IsIter, Unfolded
<1> QED
  BY <1>1, <1>2, <1>3, <1>4, <1>5, SumIsIter DEF Any

-----------------------------------------------------------------------------
(* What a sum is, whatever the order it is taken in.                       *)
Sum(f, S) == SumFunctionOnSet(f, S)

(* A function with natural numbers on S.                                   *)
Numbers(f, S) == \A x \in S : f[x] \in Nat

(* The sum of natural numbers is one.                                      *)
LEMMA SumType ==
    ASSUME NEW S, IsFiniteSet(S), NEW f, Numbers(f, S)
    PROVE  Sum(f, S) \in Nat
<1> DEFINE P == {s \in SUBSET S : Sum(f, s) \in Nat}
<1>1. {} \in P
  BY EmptySum DEF Sum
<1>2. ASSUME NEW s \in SUBSET S, s # {}, \A x \in s : s \ {x} \in P
      PROVE  s \in P
  <2>1. PICK c \in s : Sum(f, s) = f[c] + Sum(f, s \ {c})
    BY <1>2, FS_Subset, SumUnfolds DEF Sum
  <2>2. f[c] \in Nat /\ Sum(f, s \ {c}) \in Nat
    BY <1>2 DEF Numbers
  <2> QED
    BY <2>1, <2>2
<1> HIDE DEF P
<1>3. SUBSET S \subseteq P
  BY <1>1, <1>2, SubsetInduction
<1> QED
  BY <1>3 DEF P

(* Any element can be taken out of a sum, not only the one chosen.         *)
SplitsAt(f, s) == \A x \in s : Sum(f, s) = f[x] + Sum(f, s \ {x})

LEMMA SumSplits ==
    ASSUME NEW S, IsFiniteSet(S), NEW f, Numbers(f, S)
    PROVE  SplitsAt(f, S)
<1> DEFINE P == {s \in SUBSET S : SplitsAt(f, s)}
<1>1. {} \in P
  BY DEF SplitsAt
<1>2. ASSUME NEW s \in SUBSET S, s # {}, \A x \in s : s \ {x} \in P
      PROVE  s \in P
  <2>1. PICK c \in s : Sum(f, s) = f[c] + Sum(f, s \ {c})
    BY <1>2, FS_Subset, SumUnfolds DEF Sum
  <2>2. ASSUME NEW x \in s, x # c
        PROVE  Sum(f, s) = f[x] + Sum(f, s \ {x})
    <3>1. PICK r : r = Sum(f, (s \ {c}) \ {x}) /\ r \in Nat
      <4>1. IsFiniteSet((s \ {c}) \ {x}) /\ Numbers(f, (s \ {c}) \ {x})
        BY FS_Subset DEF Numbers
      <4> QED
        BY <4>1, SumType
    <3>2. Sum(f, s \ {c}) = f[x] + r
      BY <1>2, <2>2, <3>1 DEF SplitsAt
    <3>3. (s \ {x}) \ {c} = (s \ {c}) \ {x}
      OBVIOUS
    <3>4. Sum(f, s \ {x}) = f[c] + r
      BY <1>2, <2>2, <3>1, <3>3 DEF SplitsAt
    <3>5. f[c] \in Nat /\ f[x] \in Nat
      BY DEF Numbers
    <3> QED
      BY <2>1, <3>1, <3>2, <3>4, <3>5
  <2> QED
    BY <2>1, <2>2 DEF SplitsAt
<1> HIDE DEF P
<1>3. SUBSET S \subseteq P
  BY <1>1, <1>2, SubsetInduction
<1> QED
  BY <1>3 DEF P

(* One element more.                                                       *)
LEMMA SumOfMore ==
    ASSUME NEW S, IsFiniteSet(S), NEW f, NEW x, x \notin S, Numbers(f, S \cup {x})
    PROVE  Sum(f, S \cup {x}) = f[x] + Sum(f, S)
<1>1. IsFiniteSet(S \cup {x}) /\ (S \cup {x}) \ {x} = S
  BY FS_AddElement
<1> QED
  BY <1>1, SumSplits DEF SplitsAt

(* Larger terms make a larger sum.                                         *)
LEMMA SumMonotone ==
    ASSUME NEW S, IsFiniteSet(S), NEW f, Numbers(f, S), NEW g, Numbers(g, S),
           \A x \in S : f[x] <= g[x]
    PROVE  Sum(f, S) <= Sum(g, S)
<1> DEFINE P == {s \in SUBSET S : Sum(f, s) <= Sum(g, s)}
<1>1. {} \in P
  BY EmptySum DEF Sum
<1>2. ASSUME NEW s \in SUBSET S, s # {}, \A x \in s : s \ {x} \in P
      PROVE  s \in P
  <2>1. PICK c \in s : TRUE
    BY <1>2
  <2>2. PICK t : t = s \ {c}
    OBVIOUS
  <2>3. IsFiniteSet(s) /\ IsFiniteSet(t) /\ Numbers(f, s) /\ Numbers(g, s)
        /\ Numbers(f, t) /\ Numbers(g, t)
    BY <2>2, FS_Subset DEF Numbers
  <2>4. Sum(f, s) = f[c] + Sum(f, t) /\ Sum(g, s) = g[c] + Sum(g, t)
    BY <2>2, <2>3, SumSplits DEF SplitsAt
  <2>5. Sum(f, t) \in Nat /\ Sum(g, t) \in Nat /\ Sum(f, t) <= Sum(g, t)
    BY <1>2, <2>2, <2>3, SumType
  <2>6. f[c] \in Nat /\ g[c] \in Nat /\ f[c] <= g[c]
    BY DEF Numbers
  <2> QED
    BY <2>4, <2>5, <2>6
<1> HIDE DEF P
<1>3. SUBSET S \subseteq P
  BY <1>1, <1>2, SubsetInduction
<1> QED
  BY <1>3 DEF P

(* A larger set: the sum only grows, by nothing where the rest is zero.    *)
LEMMA SumOfSubset ==
    ASSUME NEW S, IsFiniteSet(S), NEW T \in SUBSET S, NEW f, Numbers(f, S)
    PROVE  /\ Sum(f, T) <= Sum(f, S)
           /\ (\A x \in S \ T : f[x] = 0) => Sum(f, T) = Sum(f, S)
<1> DEFINE More(s) == /\ Sum(f, T) <= Sum(f, T \cup s)
                      /\ (\A x \in S \ T : f[x] = 0) => Sum(f, T) = Sum(f, T \cup s)
           P == {s \in SUBSET (S \ T) : More(s)}
<1>0. IsFiniteSet(S \ T) /\ IsFiniteSet(T) /\ Numbers(f, T)
  BY FS_Subset DEF Numbers
<1>1. {} \in P
  <2>1. T \cup {} = T /\ Sum(f, T) \in Nat
    BY <1>0, SumType
  <2> QED
    BY <2>1
<1>2. ASSUME NEW s \in SUBSET (S \ T), s # {}, \A x \in s : s \ {x} \in P
      PROVE  s \in P
  <2>1. PICK c \in s : TRUE
    BY <1>2
  <2>2. PICK t : t = s \ {c}
    OBVIOUS
  <2>3. IsFiniteSet(T \cup t) /\ (T \cup t) \cup {c} = T \cup s /\ c \notin T \cup t
        /\ Numbers(f, T \cup t) /\ Numbers(f, (T \cup t) \cup {c})
    BY <2>2, FS_Subset DEF Numbers
  <2>4. Sum(f, T \cup s) = f[c] + Sum(f, T \cup t)
    BY <2>3, SumOfMore
  <2>5. Sum(f, T \cup t) \in Nat /\ Sum(f, T) \in Nat /\ f[c] \in Nat
    BY <1>0, <2>3, SumType DEF Numbers
  <2>6. More(t)
    BY <1>2, <2>2
  <2> QED
    BY <2>4, <2>5, <2>6
<1> HIDE DEF P
<1>3. SUBSET (S \ T) \subseteq P
  <2>1. PICK U : U = S \ T /\ IsFiniteSet(U)
    BY <1>0
  <2>2. \A s \in SUBSET U : s # {} /\ (\A x \in s : s \ {x} \in P) => s \in P
    BY <1>2, <2>1
  <2>3. SUBSET U \subseteq P
    BY <1>1, <2>1, <2>2, SubsetInduction
  <2> QED
    BY <2>1, <2>3
<1>4. T \cup (S \ T) = S
  OBVIOUS
<1>5. More(S \ T)
  BY <1>3 DEF P
<1> QED
  BY <1>4, <1>5

(* Disjoint sets are summed one after the other.                           *)
LEMMA SumOfUnion ==
    ASSUME NEW S, IsFiniteSet(S), NEW T, IsFiniteSet(T), S \cap T = {},
           NEW f, Numbers(f, S \cup T)
    PROVE  Sum(f, S \cup T) = Sum(f, S) + Sum(f, T)
<1> DEFINE P == {s \in SUBSET S : Sum(f, s \cup T) = Sum(f, s) + Sum(f, T)}
<1>0. Numbers(f, S) /\ Numbers(f, T) /\ IsFiniteSet(S \cup T)
  BY FS_Union DEF Numbers
<1>1. {} \in P
  <2>1. {} \cup T = T /\ Sum(f, T) \in Nat /\ Sum(f, {}) = 0
    BY <1>0, SumType, EmptySum DEF Sum
  <2> QED
    BY <2>1
<1>2. ASSUME NEW s \in SUBSET S, s # {}, \A x \in s : s \ {x} \in P
      PROVE  s \in P
  <2>1. PICK c \in s : TRUE
    BY <1>2
  <2>2. PICK t : t = s \ {c}
    OBVIOUS
  <2>3. /\ IsFiniteSet(t) /\ t \cup {c} = s /\ c \notin t
        /\ (t \cup T) \cup {c} = s \cup T /\ c \notin t \cup T
        /\ Numbers(f, t) /\ Numbers(f, s) /\ Numbers(f, s \cup T)
    BY <2>2, FS_Subset DEF Numbers
  <2>4. IsFiniteSet(t \cup T)
    BY <1>0, <2>3, FS_Subset
  <2>5. Sum(f, s) = f[c] + Sum(f, t)
    BY <2>3, SumOfMore
  <2>6. Sum(f, s \cup T) = f[c] + Sum(f, t \cup T)
    BY <2>3, <2>4, SumOfMore
  <2>7. Sum(f, t) \in Nat /\ Sum(f, T) \in Nat /\ f[c] \in Nat
    BY <1>0, <2>3, SumType DEF Numbers
  <2>8. Sum(f, t \cup T) = Sum(f, t) + Sum(f, T)
    BY <1>2, <2>2
  <2> QED
    BY <2>5, <2>6, <2>7, <2>8
<1> HIDE DEF P
<1>3. S \in P
  BY <1>1, <1>2, SubsetInduction
<1> QED
  BY <1>3 DEF P

(* One term grows by d.                                                    *)
OneTermGrows(f, g, S, d) ==
    \E x \in S : g[x] = f[x] + d /\ \A y \in S \ {x} : g[y] = f[y]

(* Then the sum grows by d.                                                *)
LEMMA SumGrows ==
    ASSUME NEW S, IsFiniteSet(S), NEW f, Numbers(f, S), NEW g, NEW d \in Nat,
           OneTermGrows(f, g, S, d)
    PROVE  Sum(g, S) = Sum(f, S) + d
<1>0. PICK x \in S : g[x] = f[x] + d /\ \A y \in S \ {x} : g[y] = f[y]
  BY DEF OneTermGrows
<1>1. PICK T : T = S \ {x}
  OBVIOUS
<1>a. IsFiniteSet(T) /\ T \subseteq S /\ Numbers(f, T)
  BY <1>1, FS_Subset DEF Numbers
<1>2. f[x] \in Nat /\ Numbers(g, S)
  BY <1>0 DEF Numbers
<1>3. Sum(f, S) = f[x] + Sum(f, T) /\ Sum(g, S) = g[x] + Sum(g, T)
  BY <1>1, <1>a, <1>2, SumSplits DEF SplitsAt
<1>4. Sum(f, T) = Sum(g, T)
  BY <1>0, <1>1, <1>a, SumCongruence DEF Sum
<1>5. Sum(f, T) \in Nat
  BY <1>a, SumType
<1> QED
  BY <1>0, <1>2, <1>3, <1>4, <1>5

-----------------------------------------------------------------------------
(* Hours.                                                                  *)
Quotient(n, t) == t \div n

(* Truncation to the hour, for hours of any length.                        *)
LEMMA Division ==
    ASSUME NEW t \in Int, NEW n \in Nat \ {0}
    PROVE  /\ Quotient(n, t) \in Int
           /\ t = (n * Quotient(n, t)) + (t % n)
           /\ t % n \in 0..n - 1
BY DEF Quotient

(* An hour starts at a multiple of its length, less than an hour ago.      *)
LEMMA HourFacts ==
    ASSUME NEW t \in Nat
    PROVE  /\ TruncateToHour(t) \in 0..t
           /\ t - TruncateToHour(t) < HourLength
           /\ TruncateToHour(t) % HourLength = 0
<1> PICK n : n = HourLength /\ n \in Nat \ {0}
  BY StatsAssumption
<1>1. PICK q, u : /\ q \in Int /\ u = t % n /\ t = (n * q) + u /\ u \in 0..n - 1
  <2>1. t \in Int
    OBVIOUS
  <2> QED
    BY <2>1, Division
<1>2. PICK m \in Int : m = t - u
  BY <1>1
<1>3. PICK p, r : /\ p \in Int /\ r = m % n /\ m = (n * p) + r /\ r \in 0..n - 1
  BY Division
<1>4. u <= t
  BY <1>1
<1>5. n * q = (n * p) + r
  <2>1. PICK a \in Int : a = n * q
    BY <1>1
  <2>2. PICK b \in Int : b = n * p
    BY <1>3
  <2>3. t = a + u /\ m = b + r /\ u \in Int /\ r \in Int
    BY <1>1, <1>3, <2>1, <2>2
  <2>4. a = b + r
    BY <1>2, <2>1, <2>2, <2>3
  <2> QED
    BY <2>1, <2>2, <2>4
<1>6. PICK d \in Int : d = q - p
  BY <1>1, <1>3
<1>7. n * d = r
  BY <1>1, <1>3, <1>5, <1>6
<1>8. r = 0
  <2>1. d = 0
    BY <1>3, <1>6, <1>7
  <2> QED
    BY <1>7, <2>1
<1> QED
  BY <1>1, <1>2, <1>3, <1>4, <1>8 DEF TruncateToHour

(* A window has an hour at least.                                          *)
LEMMA WindowFacts == WindowLength \in Nat /\ WindowLength >= HourLength
<1>1. PICK w : w = WindowHours /\ w \in Nat /\ w >= 1
  BY StatsAssumption
<1>2. PICK n : n = HourLength /\ n \in Nat
  BY StatsAssumption
<1>3. w * n \in Nat /\ w * n >= n
  BY <1>1, <1>2
<1> QED
  BY <1>1, <1>2, <1>3 DEF WindowLength

-----------------------------------------------------------------------------
(* The list of addresses and the arrays it lives in.                       *)
Entries == [ip : IPs, requests : Nat]
Slices  == [array : Nat, len : Nat]
Arrays  == Seq([cap : Nat, elems : Seq(Entries)])

(* What a slice shows of the arrays.                                       *)
View(arr, slice) ==
    IF slice.len = 0 THEN <<>> ELSE SubSeq(arr[slice.array].elems, 1, slice.len)

(* A slice lies within its array.                                          *)
PointsInto(slice, arr) ==
    /\ slice \in Slices
    /\ slice.len > 0 => /\ slice.array \in DOMAIN arr
                        /\ slice.len <= Len(arr[slice.array].elems)

(* No address twice.                                                       *)
OnePerIP(elems) == \A i, j \in DOMAIN elems : elems[i].ip = elems[j].ip => i = j

(* The same addresses in the same places, none with fewer requests.        *)
Behind(old, new) ==
    \A i \in DOMAIN old : /\ i \in DOMAIN new
                          /\ new[i].ip = old[i].ip
                          /\ new[i].requests >= old[i].requests

(* Arrays are added, and entries added or counted up: nothing is lost.     *)
Grew(old, new) ==
    /\ DOMAIN old \subseteq DOMAIN new
    /\ \A i \in DOMAIN old : Behind(old[i].elems, new[i].elems)

(* Types of the elements of arrays.                                        *)
LEMMA ArrayFacts ==
    ASSUME NEW arr \in Arrays, NEW i \in DOMAIN arr
    PROVE  /\ arr[i].elems \in Seq(Entries)
           /\ arr[i].cap \in Nat
           /\ Len(arr[i].elems) \in Nat
           /\ DOMAIN arr[i].elems = 1..Len(arr[i].elems)
<1>1. arr[i] \in [cap : Nat, elems : Seq(Entries)]
  <2>1. PICK A : A = [cap : Nat, elems : Seq(Entries)] /\ arr \in Seq(A)
    BY DEF Arrays
  <2>2. arr[i] \in A
    <3>1. i \in 1..Len(arr)
      BY <2>1
    <3> QED
      BY ONLY <2>1, <3>1, ElementOfSeq
  <2> QED
    BY <2>1, <2>2
<1>2. arr[i].elems \in Seq(Entries) /\ arr[i].cap \in Nat
  BY <1>1
<1> QED
  BY <1>1, <1>2

LEMMA EntriesTyped ==
    ASSUME NEW elems \in Seq(Entries)
    PROVE  \A j \in DOMAIN elems : elems[j].requests \in Nat
<1>1. \A j \in DOMAIN elems : elems[j] \in Entries
  OBVIOUS
<1> QED
  BY <1>1 DEF Entries

(* Elements, for arrays that are named.                                    *)
LEMMA ElementsIsView == \A slice : Elements(slice) = View(arrays, slice)
BY DEF Elements, View

(* A slice within its array shows its first elements.                      *)
LEMMA ViewFacts ==
    ASSUME NEW arr \in Arrays, NEW slice, PointsInto(slice, arr)
    PROVE  /\ View(arr, slice) \in Seq(Entries)
           /\ DOMAIN View(arr, slice) = 1..slice.len
           /\ Len(View(arr, slice)) = slice.len
           /\ \A i \in 1..slice.len : View(arr, slice)[i] = arr[slice.array].elems[i]
<1>1. CASE slice.len = 0
  BY <1>1 DEF View, PointsInto
<1>2. CASE slice.len # 0
  <2>0. PICK n, elems : n = slice.len /\ elems = arr[slice.array].elems
    OBVIOUS
  <2>1. /\ n = slice.len /\ elems = arr[slice.array].elems
        /\ n \in Nat /\ elems \in Seq(Entries) /\ n <= Len(elems)
    BY <1>2, <2>0, ArrayFacts DEF PointsInto, Slices
  <2>2. View(arr, slice) = SubSeq(elems, 1, n)
    BY <1>2, <2>1 DEF View
  <2>3. /\ SubSeq(elems, 1, n) \in Seq(Entries)
        /\ Len(SubSeq(elems, 1, n)) = n
        /\ DOMAIN SubSeq(elems, 1, n) = 1..n
        /\ \A i \in 1..n : SubSeq(elems, 1, n)[i] = elems[i]
    BY <2>1
  <2> QED
    BY <2>1, <2>2, <2>3
<1> QED
  BY <1>1, <1>2

(* The slice of all elements shows the array.                              *)
LEMMA WholeView ==
    ASSUME NEW arr \in Arrays, NEW slice, PointsInto(slice, arr), slice.len > 0,
           slice.len = Len(arr[slice.array].elems)
    PROVE  View(arr, slice) = arr[slice.array].elems
<1>1. PICK elems : elems = arr[slice.array].elems /\ elems \in Seq(Entries)
  BY ArrayFacts DEF PointsInto
<1>2. SubSeq(elems, 1, Len(elems)) = elems
  BY <1>1
<1>3. View(arr, slice) = SubSeq(elems, 1, Len(elems))
  BY <1>1 DEF View, PointsInto, Slices
<1> QED
  BY <1>1, <1>2, <1>3

(* The requests of a list of entries, summed up.                           *)
RequestsOf(elems) == [i \in DOMAIN elems |-> elems[i].requests]

LEMMA RequestsFacts ==
    ASSUME NEW elems \in Seq(Entries)
    PROVE  /\ Requests(elems) = Sum(RequestsOf(elems), 1..Len(elems))
           /\ IsFiniteSet(1..Len(elems))
           /\ Numbers(RequestsOf(elems), 1..Len(elems))
           /\ Requests(elems) \in Nat
<1>1. DOMAIN elems = 1..Len(elems) /\ DOMAIN RequestsOf(elems) = 1..Len(elems)
      /\ \A i \in 1..Len(elems) : elems[i] \in Entries
  BY DEF RequestsOf
<1>2. Requests(elems) = Sum(RequestsOf(elems), 1..Len(elems))
  BY <1>1 DEF Requests, SumFunction, Sum, RequestsOf
<1>3. IsFiniteSet(1..Len(elems))
  BY FS_Interval
<1>4. Numbers(RequestsOf(elems), 1..Len(elems))
  BY <1>1 DEF Numbers, RequestsOf, Entries
<1> QED
  BY <1>2, <1>3, <1>4, SumType

LEMMA NoRequests == Requests(<<>>) = 0
<1>1. <<>> \in Seq(Entries) /\ 1..Len(<<>>) = {}
  OBVIOUS
<1> QED
  BY <1>1, RequestsFacts, EmptySum DEF Sum

(* One entry more.                                                         *)
LEMMA RequestsAppended ==
    ASSUME NEW elems \in Seq(Entries), NEW e \in Entries
    PROVE  Requests(Append(elems, e)) = Requests(elems) + e.requests
<1>0. PICK new, n : new = Append(elems, e) /\ n = Len(elems)
  OBVIOUS
<1>1. /\ new = Append(elems, e) /\ new \in Seq(Entries)
      /\ n = Len(elems) /\ n \in Nat /\ Len(new) = n + 1
      /\ \A i \in 1..n : new[i] = elems[i]
      /\ new[n + 1] = e
      /\ DOMAIN elems = 1..n /\ DOMAIN new = 1..n + 1
  BY <1>0
<1>2. PICK S : S = 1..n /\ IsFiniteSet(S) /\ n + 1 \notin S /\ S \cup {n + 1} = 1..n + 1
  <2>1. IsFiniteSet(1..n)
    BY <1>1, FS_Interval
  <2>2. n + 1 \notin 1..n /\ (1..n) \cup {n + 1} = 1..n + 1
    BY <1>1
  <2> QED
    BY <2>1, <2>2
<1>3. PICK f, g : f = RequestsOf(elems) /\ g = RequestsOf(new)
  OBVIOUS
<1>4. /\ Requests(elems) = Sum(f, S) /\ Numbers(f, S)
      /\ Requests(new) = Sum(g, S \cup {n + 1}) /\ Numbers(g, S \cup {n + 1})
  BY <1>1, <1>2, <1>3, RequestsFacts
<1>5. Requests(new) = g[n + 1] + Sum(g, S)
  BY <1>2, <1>4, SumOfMore
<1>6. g[n + 1] = e.requests /\ \A i \in S : f[i] = g[i]
  BY <1>1, <1>2, <1>3 DEF RequestsOf
<1>7. Sum(f, S) = Sum(g, S)
  BY <1>2, <1>6, SumCongruence DEF Sum
<1>8. e.requests \in Nat /\ Requests(elems) \in Nat
  BY RequestsFacts DEF Entries
<1> QED
  BY <1>1, <1>4, <1>5, <1>6, <1>7, <1>8

(* One request more.                                                       *)
LEMMA RequestsOfOneMore ==
    ASSUME NEW elems \in Seq(Entries), NEW new \in Seq(Entries), Len(new) = Len(elems),
           NEW i \in 1..Len(elems), new[i].requests = elems[i].requests + 1,
           \A j \in 1..Len(elems) : j # i => new[j] = elems[j]
    PROVE  Requests(new) = Requests(elems) + 1
<1>1. PICK f, g, S : f = RequestsOf(elems) /\ g = RequestsOf(new) /\ S = 1..Len(elems)
  OBVIOUS
<1>2. /\ Requests(elems) = Sum(f, S) /\ Numbers(f, S) /\ IsFiniteSet(S)
      /\ Requests(new) = Sum(g, S)
  BY <1>1, RequestsFacts
<1>3. i \in S /\ g[i] = f[i] + 1 /\ \A j \in S \ {i} : g[j] = f[j]
  BY <1>1 DEF RequestsOf
<1>4. Sum(g, S) = Sum(f, S) + 1
  <2>1. PICK d \in Nat : d = 1
    OBVIOUS
  <2>2. OneTermGrows(f, g, S, d)
    BY <1>3, <2>1 DEF OneTermGrows
  <2>3. Sum(g, S) = Sum(f, S) + d
    BY <1>2, <2>2, SumGrows
  <2> QED
    BY <2>1, <2>3
<1> QED
  BY <1>2, <1>4

(* A list that is behind another has no more requests.                     *)
LEMMA RequestsBehind ==
    ASSUME NEW old \in Seq(Entries), NEW new \in Seq(Entries), Len(new) = Len(old),
           Behind(old, new)
    PROVE  Requests(old) <= Requests(new)
<1>1. PICK f, g, S : f = RequestsOf(old) /\ g = RequestsOf(new) /\ S = 1..Len(old)
  OBVIOUS
<1>2. /\ Requests(old) = Sum(f, S) /\ Numbers(f, S) /\ IsFiniteSet(S)
      /\ Requests(new) = Sum(g, S) /\ Numbers(g, S)
  BY <1>1, RequestsFacts
<1>3. \A j \in S : f[j] <= g[j]
  <2>1. DOMAIN old = S /\ DOMAIN new = S
    BY <1>1
  <2>2. \A j \in S : f[j] = old[j].requests /\ g[j] = new[j].requests
    BY <1>1, <2>1 DEF RequestsOf
  <2>3. \A j \in S : new[j].requests >= old[j].requests
    BY <2>1 DEF Behind
  <2>4. \A j \in S : f[j] \in Nat /\ g[j] \in Nat
    BY <1>2 DEF Numbers
  <2> QED
    BY <2>2, <2>3, <2>4
<1> QED
  BY <1>2, <1>3, SumMonotone

(* What a reader holds.                                                    *)
ReportHolds(rep, arr) ==
    /\ PointsInto(rep.ips, arr)
    /\ rep.seen \in Seq(Entries)
    /\ Len(rep.seen) = rep.ips.len
    /\ Requests(rep.seen) = rep.hits
    /\ Behind(rep.seen, View(arr, rep.ips))

(* Growing arrays leave a report true: its slice shows at least what it    *)
(* did.                                                                    *)
LEMMA ReportsKeepHolding ==
    ASSUME NEW arr \in Arrays, NEW new \in Arrays, Grew(arr, new),
           NEW rep, ReportHolds(rep, arr)
    PROVE  ReportHolds(rep, new)
<1>1. PICK s : s = rep.ips
  OBVIOUS
<1>2. PointsInto(s, arr)
  BY <1>1 DEF ReportHolds
<1>3. PointsInto(s, new)
  <2>1. SUFFICES ASSUME s.len > 0
                 PROVE  s.array \in DOMAIN new /\ s.len <= Len(new[s.array].elems)
    BY <1>2 DEF PointsInto
  <2>2. PICK a, b : /\ a = arr[s.array].elems /\ b = new[s.array].elems
                    /\ s.array \in DOMAIN new /\ Behind(a, b)
                    /\ s.len \in Nat /\ s.len <= Len(a)
    BY <1>2, <2>1 DEF PointsInto, Grew, Slices
  <2>3. a \in Seq(Entries) /\ b \in Seq(Entries)
    BY <1>2, <2>1, <2>2, ArrayFacts DEF PointsInto
  <2>4. s.len \in DOMAIN a
    BY <2>1, <2>2, <2>3
  <2>5. s.len \in DOMAIN b
    BY <2>2, <2>4 DEF Behind
  <2> QED
    BY <2>2, <2>3, <2>5
<1>4. Behind(rep.seen, View(new, s))
  <2>1. SUFFICES ASSUME NEW i \in DOMAIN rep.seen
                 PROVE  /\ i \in DOMAIN View(new, s)
                        /\ View(new, s)[i].ip = rep.seen[i].ip
                        /\ View(new, s)[i].requests >= rep.seen[i].requests
    BY DEF Behind
  <2>2. i \in 1..s.len /\ s.len > 0 /\ s.len \in Nat
    BY <1>1, <1>2 DEF ReportHolds, PointsInto, Slices
  <2>0. PICK a, b : a = arr[s.array].elems /\ b = new[s.array].elems
    OBVIOUS
  <2>a. s.array \in DOMAIN arr /\ s.array \in DOMAIN new /\ s.len <= Len(a)
    BY <1>2, <1>3, <2>0, <2>2 DEF PointsInto
  <2>b. a \in Seq(Entries) /\ b \in Seq(Entries) /\ DOMAIN a = 1..Len(a) /\ Len(a) \in Nat
    BY <2>0, <2>a, ArrayFacts
  <2>3. /\ a = arr[s.array].elems /\ b = new[s.array].elems
        /\ Behind(a, b) /\ a \in Seq(Entries) /\ b \in Seq(Entries)
        /\ i \in DOMAIN a /\ s.len <= Len(a)
    BY <2>0, <2>2, <2>a, <2>b DEF Grew
  <2>4. View(arr, s)[i] = a[i] /\ View(new, s)[i] = b[i] /\ i \in DOMAIN View(new, s)
    BY <1>2, <1>3, <2>2, <2>3, ViewFacts
  <2>5. View(arr, s)[i].ip = rep.seen[i].ip /\ View(arr, s)[i].requests >= rep.seen[i].requests
    BY <1>1 DEF ReportHolds, Behind
  <2>6. b[i].ip = a[i].ip /\ b[i].requests >= a[i].requests /\ i \in DOMAIN b
    BY <2>3 DEF Behind
  <2>7. a[i].requests \in Nat /\ b[i].requests \in Nat /\ rep.seen[i].requests \in Nat
    <3>1. a[i] \in Entries /\ b[i] \in Entries
      BY <2>3, <2>6
    <3>2. rep.seen[i] \in Entries
      BY DEF ReportHolds
    <3> QED
      BY <3>1, <3>2 DEF Entries
  <2> QED
    BY <2>4, <2>5, <2>6, <2>7
<1> QED
  BY <1>1, <1>3, <1>4 DEF ReportHolds

(* No array has more elements than room.                                   *)
ArraysFit(arr) == \A i \in DOMAIN arr : Len(arr[i].elems) <= arr[i].cap

(* The list s of the addresses, whose requests are h hits.                 *)
ListHolds(s, arr, h) ==
    /\ arr \in Arrays /\ ArraysFit(arr)
    /\ PointsInto(s, arr)
    /\ s.array <= Len(arr)
    /\ s.len > 0 => s.len = Len(arr[s.array].elems)
    /\ OnePerIP(View(arr, s))
    /\ Requests(View(arr, s)) = h

(* Array a has elements ne now, and nothing else has changed.              *)
Replaced(arr, a, ne, new) ==
    /\ new \in Arrays /\ Len(new) = Len(arr) /\ DOMAIN new = DOMAIN arr
    /\ new[a].elems = ne /\ new[a].cap = arr[a].cap
    /\ \A j \in DOMAIN arr : j # a => new[j] = arr[j]

LEMMA ReplacedFacts ==
    ASSUME NEW arr \in Arrays, NEW a \in DOMAIN arr, NEW ne \in Seq(Entries),
           NEW new, new = [arr EXCEPT ![a].elems = ne]
    PROVE  Replaced(arr, a, ne, new)
<1>1. PICK A : A = [cap : Nat, elems : Seq(Entries)] /\ arr \in Seq(A)
  BY DEF Arrays
<1>2. PICK e : e = [arr[a] EXCEPT !.elems = ne]
  OBVIOUS
<1>3. arr[a] \in A
  <2>1. a \in 1..Len(arr)
    BY <1>1
  <2> QED
    BY ONLY <1>1, <2>1, ElementOfSeq
<1>4. e \in A /\ e.elems = ne /\ e.cap = arr[a].cap
  BY <1>1, <1>2, <1>3
<1>5. new = [arr EXCEPT ![a] = e]
  BY <1>2
<1>6. new \in Seq(A) /\ Len(new) = Len(arr) /\ DOMAIN new = DOMAIN arr
  <2>1. a \in 1..Len(arr)
    BY <1>1
  <2>2. new \in Seq(A) /\ Len(new) = Len(arr)
    BY ONLY <1>1, <1>4, <1>5, <2>1, ExceptSeq
  <2> QED
    BY <1>1, <2>2
<1>7. new[a] = e /\ \A j \in DOMAIN arr : j # a => new[j] = arr[j]
  BY <1>1, <1>5
<1> QED
  BY <1>1, <1>4, <1>6, <1>7 DEF Replaced, Arrays

LEMMA ReplacedGrew ==
    ASSUME NEW arr \in Arrays, NEW a \in DOMAIN arr, NEW ne \in Seq(Entries),
           NEW new, Replaced(arr, a, ne, new), ArraysFit(arr),
           Behind(arr[a].elems, ne), Len(ne) <= arr[a].cap
    PROVE  Grew(arr, new) /\ ArraysFit(new)
<1>1. Grew(arr, new)
  <2>1. ASSUME NEW i \in DOMAIN arr
        PROVE  Behind(arr[i].elems, new[i].elems)
    <3>1. CASE i = a
      BY <3>1 DEF Replaced
    <3>2. CASE i # a
      <4>1. new[i] = arr[i]
        BY <3>2 DEF Replaced
      <4>2. \A j \in DOMAIN arr[i].elems : arr[i].elems[j].requests \in Nat
        <5>1. \A j \in DOMAIN arr[i].elems : arr[i].elems[j] \in Entries
          BY ArrayFacts
        <5> QED
          BY <5>1 DEF Entries
      <4> QED
        BY <4>1, <4>2 DEF Behind
    <3> QED
      BY <3>1, <3>2
  <2> QED
    BY <2>1 DEF Grew, Replaced
<1>2. ArraysFit(new)
  BY DEF ArraysFit, Replaced
<1> QED
  BY <1>1, <1>2

(* The address is in the list: its requests are counted up in place.       *)
LEMMA HitOfKnown ==
    ASSUME NEW s, NEW arr, NEW h \in Nat, ListHolds(s, arr, h),
           NEW i \in 1..s.len,
           NEW new, new = [arr EXCEPT ![s.array].elems[i].requests = @ + 1]
    PROVE  ListHolds(s, new, h + 1) /\ Grew(arr, new)
<1>1. PICK a, elems : a = s.array /\ elems = arr[s.array].elems
  OBVIOUS
<1>2. /\ arr \in Arrays /\ ArraysFit(arr) /\ PointsInto(s, arr)
      /\ s.len \in Nat /\ s.len > 0 /\ a \in DOMAIN arr /\ s.len = Len(elems)
  BY <1>1 DEF ListHolds, PointsInto, Slices
<1>3. elems \in Seq(Entries) /\ DOMAIN elems = 1..s.len
  BY <1>1, <1>2, ArrayFacts
<1>4. PICK e : e = [elems[i] EXCEPT !.requests = @ + 1]
  OBVIOUS
<1>5. /\ elems[i] \in Entries /\ e \in Entries /\ e.ip = elems[i].ip
      /\ e.requests = elems[i].requests + 1 /\ elems[i].requests \in Nat
  <2>1. elems[i] \in Entries
    BY <1>2, <1>3, ElementOfSeq
  <2> QED
    BY <1>4, <2>1 DEF Entries
<1>6. PICK ne : ne = [elems EXCEPT ![i] = e]
  OBVIOUS
<1>7. /\ ne \in Seq(Entries) /\ Len(ne) = Len(elems) /\ DOMAIN ne = 1..s.len
      /\ ne[i] = e /\ \A j \in 1..Len(elems) : j # i => ne[j] = elems[j]
  BY <1>2, <1>3, <1>5, <1>6
<1>8. new = [arr EXCEPT ![a].elems = ne]
  BY <1>1, <1>4, <1>6
<1>9. Replaced(arr, a, ne, new)
  BY <1>2, <1>7, <1>8, ReplacedFacts
<1>10. Behind(elems, ne)
  <2>1. \A j \in DOMAIN elems : elems[j].requests \in Nat
    BY <1>3, EntriesTyped
  <2> QED
    BY <1>2, <1>3, <1>5, <1>7, <2>1 DEF Behind
<1>11. Grew(arr, new) /\ ArraysFit(new)
  <2>1. Len(ne) <= arr[a].cap /\ Behind(arr[a].elems, ne)
    BY <1>1, <1>2, <1>7, <1>10 DEF ArraysFit
  <2> QED
    BY <1>2, <1>7, <1>9, <2>1, ReplacedGrew
<1>12. new \in Arrays /\ PointsInto(s, new) /\ s.len = Len(new[s.array].elems)
       /\ new[s.array].elems = ne
  BY <1>1, <1>2, <1>7, <1>9 DEF PointsInto, Replaced
<1>13. View(arr, s) = elems /\ View(new, s) = ne
  BY <1>1, <1>2, <1>12, WholeView
<1>14. Requests(elems) = h /\ OnePerIP(elems)
  BY <1>13 DEF ListHolds
<1>15. Requests(ne) = h + 1
  <2>1. i \in 1..Len(elems)
    BY <1>2
  <2> QED
    BY <1>3, <1>5, <1>7, <1>14, <2>1, RequestsOfOneMore
<1>16. OnePerIP(ne)
  <2>1. \A j \in 1..s.len : ne[j].ip = elems[j].ip
    BY <1>2, <1>5, <1>7
  <2> QED
    BY <1>3, <1>7, <1>14, <2>1 DEF OnePerIP
<1>17. s.array <= Len(new)
  BY <1>9 DEF ListHolds, Replaced
<1> QED
  BY <1>11, <1>12, <1>13, <1>15, <1>16, <1>17 DEF ListHolds

(* The address is not in the list.                                         *)
NewTo(elems, e) == \A i \in DOMAIN elems : elems[i].ip # e.ip

LEMMA EntryAppended ==
    ASSUME NEW elems \in Seq(Entries), NEW e \in Entries, NewTo(elems, e), OnePerIP(elems),
           NEW ne, ne = Append(elems, e)
    PROVE  /\ ne \in Seq(Entries) /\ Len(ne) = Len(elems) + 1
           /\ OnePerIP(ne) /\ Behind(elems, ne)
           /\ Requests(ne) = Requests(elems) + e.requests
<1>1. /\ ne \in Seq(Entries) /\ Len(ne) = Len(elems) + 1 /\ Len(elems) \in Nat
      /\ DOMAIN elems = 1..Len(elems) /\ DOMAIN ne = 1..Len(elems) + 1
      /\ \A i \in 1..Len(elems) : ne[i] = elems[i]
      /\ ne[Len(elems) + 1] = e
  OBVIOUS
<1>2. OnePerIP(ne)
  BY <1>1 DEF OnePerIP, NewTo
<1>3. Behind(elems, ne)
  <2>1. \A j \in DOMAIN elems : elems[j].requests \in Nat
    BY EntriesTyped
  <2> QED
    BY <1>1, <2>1 DEF Behind
<1> QED
  BY <1>1, <1>2, <1>3, RequestsAppended

(* There is room: the array the reports may also point into is written.    *)
LEMMA HitInPlace ==
    ASSUME NEW s, NEW arr, NEW h \in Nat, ListHolds(s, arr, h),
           s.len > 0, s.len < arr[s.array].cap,
           NEW e \in Entries, e.requests = 1, NewTo(View(arr, s), e),
           NEW new, new = [arr EXCEPT ![s.array].elems = Append(View(arr, s), e)],
           NEW t, t = [s EXCEPT !.len = @ + 1]
    PROVE  ListHolds(t, new, h + 1) /\ Grew(arr, new)
<1>1. PICK a, elems : a = s.array /\ elems = arr[s.array].elems
  OBVIOUS
<1>2. /\ arr \in Arrays /\ ArraysFit(arr) /\ PointsInto(s, arr)
      /\ s \in Slices /\ s.len \in Nat /\ a \in DOMAIN arr /\ s.len = Len(elems)
  BY <1>1 DEF ListHolds, PointsInto, Slices
<1>3. elems \in Seq(Entries) /\ arr[a].cap \in Nat
  BY <1>1, <1>2, ArrayFacts
<1>4. View(arr, s) = elems
  BY <1>1, <1>2, WholeView
<1>5. Requests(elems) = h /\ OnePerIP(elems) /\ NewTo(elems, e) /\ a <= Len(arr)
  BY <1>1, <1>4 DEF ListHolds
<1>6. PICK ne : ne = Append(elems, e)
  OBVIOUS
<1>7. /\ ne \in Seq(Entries) /\ Len(ne) = Len(elems) + 1 /\ OnePerIP(ne)
      /\ Behind(elems, ne) /\ Requests(ne) = h + 1
  BY <1>3, <1>5, <1>6, EntryAppended
<1>8. new = [arr EXCEPT ![a].elems = ne]
  BY <1>1, <1>4, <1>6
<1>9. Replaced(arr, a, ne, new)
  BY <1>2, <1>7, <1>8, ReplacedFacts
<1>10. Grew(arr, new) /\ ArraysFit(new)
  <2>1. Len(ne) <= arr[a].cap /\ Behind(arr[a].elems, ne)
    BY <1>1, <1>2, <1>3, <1>7
  <2> QED
    BY <1>2, <1>7, <1>9, <2>1, ReplacedGrew
<1>11. t \in Slices /\ t.array = a /\ t.len = Len(ne) /\ t.len > 0
  BY <1>1, <1>2, <1>7 DEF Slices
<1>12. new \in Arrays /\ new[t.array].elems = ne /\ PointsInto(t, new)
       /\ t.array <= Len(new)
  <2>1. new \in Arrays /\ new[a].elems = ne /\ a \in DOMAIN new /\ Len(new) = Len(arr)
    BY <1>2, <1>9 DEF Replaced
  <2>2. Len(ne) \in Nat /\ Len(ne) <= Len(ne)
    BY <1>7
  <2> QED
    BY <1>5, <1>11, <2>1, <2>2 DEF PointsInto
<1>13. View(new, t) = ne
  BY <1>11, <1>12, WholeView
<1> QED
  BY <1>7, <1>10, <1>11, <1>12, <1>13 DEF ListHolds

(* There is none: a larger array is taken, the old one stays as it was.    *)
LEMMA HitMoves ==
    ASSUME NEW s, NEW arr, NEW h \in Nat, ListHolds(s, arr, h),
           NEW e \in Entries, e.requests = 1, NewTo(View(arr, s), e),
           NEW cap, cap = IF s.len = 0 THEN 1 ELSE 2 * s.len,
           NEW new, new = Append(arr, [cap |-> cap, elems |-> Append(View(arr, s), e)]),
           NEW t, t = [array |-> Len(arr) + 1, len |-> s.len + 1]
    PROVE  ListHolds(t, new, h + 1) /\ Grew(arr, new)
<1>1. PICK elems, ne : elems = View(arr, s) /\ ne = Append(elems, e)
  OBVIOUS
<1>2. /\ arr \in Arrays /\ ArraysFit(arr) /\ PointsInto(s, arr)
      /\ s \in Slices /\ s.len \in Nat
  BY DEF ListHolds, PointsInto, Slices
<1>3. elems \in Seq(Entries) /\ s.len = Len(elems)
  BY <1>1, <1>2, ViewFacts
<1>4. Requests(elems) = h /\ OnePerIP(elems) /\ NewTo(elems, e)
  BY <1>1 DEF ListHolds
<1>5. /\ ne \in Seq(Entries) /\ Len(ne) = Len(elems) + 1 /\ OnePerIP(ne)
      /\ Requests(ne) = h + 1
  BY <1>1, <1>3, <1>4, EntryAppended
<1>6. cap \in Nat /\ Len(ne) <= cap
  BY <1>2, <1>3, <1>5
<1>7. PICK x : x = [cap |-> cap, elems |-> ne] /\ new = Append(arr, x)
  BY <1>1
<1>8. PICK A : A = [cap : Nat, elems : Seq(Entries)] /\ arr \in Seq(A)
  BY <1>2 DEF Arrays
<1>9. x \in A /\ x.cap = cap /\ x.elems = ne
  BY <1>5, <1>6, <1>7, <1>8
<1>10. /\ new \in Seq(A) /\ Len(arr) \in Nat /\ Len(new) = Len(arr) + 1
       /\ DOMAIN arr = 1..Len(arr) /\ DOMAIN new = 1..Len(arr) + 1
       /\ \A i \in 1..Len(arr) : new[i] = arr[i]
       /\ new[Len(arr) + 1] = x
  <2>1. /\ new \in Seq(A) /\ Len(new) = Len(arr) + 1
        /\ \A i \in 1..Len(arr) : new[i] = arr[i]
        /\ new[Len(arr) + 1] = x
    BY ONLY <1>7, <1>8, <1>9, AppendProperties
  <2>2. Len(arr) \in Nat /\ DOMAIN arr = 1..Len(arr) /\ DOMAIN new = 1..Len(new)
    BY <1>8, <2>1
  <2> QED
    BY <2>1, <2>2
<1>11. new \in Arrays
  BY <1>8, <1>10 DEF Arrays
<1>12. ArraysFit(new)
  BY <1>2, <1>6, <1>9, <1>10 DEF ArraysFit
<1>13. Grew(arr, new)
  <2>1. ASSUME NEW i \in DOMAIN arr
        PROVE  Behind(arr[i].elems, new[i].elems)
    <3>1. \A j \in DOMAIN arr[i].elems : arr[i].elems[j].requests \in Nat
      <4>1. \A j \in DOMAIN arr[i].elems : arr[i].elems[j] \in Entries
        BY <1>2, ArrayFacts
      <4> QED
        BY <4>1 DEF Entries
    <3>2. new[i] = arr[i]
      BY <1>10
    <3> QED
      BY <3>1, <3>2 DEF Behind
  <2> QED
    BY <1>10, <2>1 DEF Grew
<1>14. t \in Slices /\ t.array = Len(arr) + 1 /\ t.len = Len(ne) /\ t.len > 0
  BY <1>2, <1>3, <1>5, <1>10 DEF Slices
<1>15. new[t.array].elems = ne /\ PointsInto(t, new) /\ t.array <= Len(new)
  <2>1. t.array \in DOMAIN new /\ new[t.array].elems = ne
    BY <1>9, <1>10, <1>14
  <2>2. t.len <= Len(new[t.array].elems)
    BY <1>5, <1>14, <2>1
  <2> QED
    BY <1>10, <1>14, <2>1, <2>2 DEF PointsInto
<1>16. View(new, t) = ne
  BY <1>11, <1>14, <1>15, WholeView
<1> QED
  BY <1>5, <1>11, <1>12, <1>13, <1>14, <1>15, <1>16 DEF ListHolds
-----------------------------------------------------------------------------
(* The inductive invariant.                                                *)
NumbersOK ==
    /\ count \in [Counters -> 0..MaxEvents]
    /\ hits \in 0..MaxHits
    /\ now \in 0..MaxNow

(* The list the server goes on writing to.                                 *)
ListOK == ListHolds(ips, arrays, hits)

(* What the readers hold is true still.                                    *)
ReportsOK ==
    /\ DOMAIN reports = Readers
    /\ \A r \in Readers : reports[r] # NoReport => ReportHolds(reports[r], arrays)

(* There are no events to come.                                            *)
LogOK ==
    /\ log \in [Counters -> [0..MaxNow -> Nat]]
    /\ \A c \in Counters : \A t \in 0..MaxNow : t > now => log[c][t] = 0

(* The times within the hour that starts at h.                             *)
HourTicks(h) == {t \in 0..MaxNow : TruncateToHour(t) = h}

(* What a bucket counts: the events of its hour, and no more than ever.    *)
BucketHolds(h, bucket, l, total) ==
    /\ bucket \in [Counters -> Nat]
    /\ \A c \in Counters : bucket[c] <= total[c] /\ bucket[c] = Sum(l[c], HourTicks(h))

(* An hour with events has its bucket, or is too old for any report.       *)
HourKept(t, hours, n) ==
    TruncateToHour(t) \in hours \/ TruncateToHour(t) < n - WindowLength

(* Every bucket counts its hour, and every event that matters has one.     *)
BucketsOK ==
    /\ DOMAIN last24h \subseteq {TruncateToHour(t) : t \in 0..now}
    /\ \A h \in DOMAIN last24h : BucketHolds(h, last24h[h], log, count)
    /\ \A c \in Counters : \A t \in 0..MaxNow :
          log[c][t] # 0 => HourKept(t, DOMAIN last24h, now)

(* The inductive invariant.                                                *)
IInv == NumbersOK /\ ListOK /\ ReportsOK /\ LogOK /\ BucketsOK

(* Nothing has been counted.                                               *)
LEMMA InitIInv == Init => IInv
<1> SUFFICES ASSUME Init PROVE IInv
  OBVIOUS
<1>1. NumbersOK
  BY StatsAssumption DEF Init, NumbersOK
<1>2. ListOK
  <2>1. View(arrays, ips) = <<>>
    BY DEF Init, View
  <2>2. Requests(View(arrays, ips)) = hits
    BY <2>1, NoRequests DEF Init
  <2>3. arrays \in Arrays /\ DOMAIN arrays = {} /\ Len(arrays) = 0
    BY DEF Init, Arrays
  <2>4. PointsInto(ips, arrays) /\ ips.array <= Len(arrays) /\ ips.len = 0
    BY <2>3 DEF Init, PointsInto, Slices
  <2>5. OnePerIP(View(arrays, ips))
    BY <2>1 DEF OnePerIP
  <2> QED
    BY <2>2, <2>3, <2>4, <2>5 DEF ListOK, ListHolds, ArraysFit
<1>3. ReportsOK
  BY DEF Init, ReportsOK
<1>4. LogOK
  BY DEF Init, LogOK
<1>5. BucketsOK
  <2>1. DOMAIN last24h = {}
    BY DEF Init
  <2>2. \A c \in Counters : \A t \in 0..MaxNow : log[c][t] = 0
    BY DEF Init
  <2> QED
    BY <2>1, <2>2 DEF BucketsOK
<1> QED
  BY <1>1, <1>2, <1>3, <1>4, <1>5 DEF IInv

-----------------------------------------------------------------------------
(* The steps of the list.                                                  *)
LEMMA HitStep ==
    ASSUME IInv, NEW ip \in IPs, RecordRateLimitHit(ip)
    PROVE  ListOK' /\ Grew(arrays, arrays')
<1>1. PICK e : e = Entry(ip, 1) /\ e \in Entries /\ e.requests = 1 /\ e.ip = ip
  <2>1. Entry(ip, 1) = [ip |-> ip, requests |-> 1]
    BY DEF Entry
  <2> QED
    BY <2>1 DEF Entries
<1>2. PICK h : h = hits /\ h \in Nat /\ hits' = h + 1 /\ ListHolds(ips, arrays, h)
  BY StatsAssumption DEF IInv, NumbersOK, ListOK, RecordRateLimitHit
<1>3. arrays \in Arrays /\ PointsInto(ips, arrays) /\ ips \in Slices /\ ips.len \in Nat
  BY <1>2 DEF ListHolds, PointsInto, Slices
<1>4. SUFFICES \E s, arr : /\ s = ips' /\ arr = arrays'
                           /\ ListHolds(s, arr, h + 1) /\ Grew(arrays, arr)
  BY <1>2 DEF ListOK
<1>5. CASE \E i \in Position(ip) :
              /\ arrays' = [arrays EXCEPT ![ips.array].elems[i].requests = @ + 1]
              /\ UNCHANGED ips
  <2>1. PICK i : /\ i \in 1..ips.len /\ ips' = ips
                 /\ arrays' = [arrays EXCEPT ![ips.array].elems[i].requests = @ + 1]
    BY <1>5 DEF Position
  <2>2. PICK new : new = arrays'
    OBVIOUS
  <2>3. ListHolds(ips, new, h + 1) /\ Grew(arrays, new)
    BY <1>2, <2>1, <2>2, HitOfKnown
  <2> QED
    BY <2>1, <2>2, <2>3
<1>6. CASE Position(ip) = {} /\ AppendEntry(e)
  <2>1. NewTo(View(arrays, ips), e)
    <3>1. DOMAIN View(arrays, ips) = 1..ips.len
      BY <1>3, ViewFacts
    <3> QED
      BY <1>1, <1>6, <3>1, ElementsIsView DEF Position, NewTo
  <2>2. PICK new, t : new = arrays' /\ t = ips'
    OBVIOUS
  <2>3. CASE Room(ips)
    <3>1. /\ new = [arrays EXCEPT ![ips.array].elems = Append(View(arrays, ips), e)]
          /\ t = [ips EXCEPT !.len = @ + 1]
      BY <1>6, <2>2, <2>3, ElementsIsView DEF AppendEntry, Added
    <3>2. ips.len > 0 /\ ips.len < arrays[ips.array].cap
      BY <2>3 DEF Room
    <3>3. ListHolds(t, new, h + 1) /\ Grew(arrays, new)
      BY <1>1, <1>2, <2>1, <3>1, <3>2, HitInPlace
    <3> QED
      BY <2>2, <3>3
  <2>4. CASE ~Room(ips)
    <3>1. PICK cap : cap = IF ips.len = 0 THEN 1 ELSE 2 * ips.len
      OBVIOUS
    <3>2. /\ new = Append(arrays, [cap |-> cap, elems |-> Append(View(arrays, ips), e)])
          /\ t = [array |-> Len(arrays) + 1, len |-> ips.len + 1]
      BY <1>6, <2>2, <2>4, <3>1, ElementsIsView DEF AppendEntry, Added
    <3>3. ListHolds(t, new, h + 1) /\ Grew(arrays, new)
      BY <1>1, <1>2, <2>1, <3>1, <3>2, HitMoves
    <3> QED
      BY <2>2, <3>3
  <2> QED
    BY <2>3, <2>4
<1> QED
  BY <1>1, <1>5, <1>6 DEF RecordRateLimitHit

(* Hits leave the reports true.                                            *)
LEMMA ReportsSurvive ==
    ASSUME IInv, reports' = reports, Grew(arrays, arrays'), ListOK'
    PROVE  ReportsOK'
<1>1. PICK arr, new : arr = arrays /\ new = arrays'
  OBVIOUS
<1>2. arr \in Arrays /\ new \in Arrays /\ Grew(arr, new)
  BY <1>1 DEF IInv, ListOK, ListHolds
<1>3. ASSUME NEW r \in Readers, reports[r] # NoReport
      PROVE  ReportHolds(reports[r], new)
  <2>1. PICK rep : rep = reports[r] /\ ReportHolds(rep, arr)
    BY <1>1, <1>3 DEF IInv, ReportsOK
  <2>2. ReportHolds(rep, new)
    BY <1>2, <2>1, ReportsKeepHolding
  <2> QED
    BY <2>1, <2>2
<1> QED
  BY <1>1, <1>3 DEF IInv, ReportsOK

LEMMA NoGrowth ==
    ASSUME NEW arr \in Arrays
    PROVE  Grew(arr, arr)
<1>1. ASSUME NEW i \in DOMAIN arr
      PROVE  Behind(arr[i].elems, arr[i].elems)
  BY ArrayFacts, EntriesTyped DEF Behind
<1> QED
  BY <1>1 DEF Grew

-----------------------------------------------------------------------------
(* The steps of the buckets.                                               *)
Logs == [Counters -> [0..MaxNow -> Nat]]

(* Types of the clock and the history.                                     *)
LEMMA NowFacts ==
    ASSUME IInv
    PROVE  /\ now \in Nat /\ now \in 0..MaxNow /\ MaxNow \in Nat /\ IsFiniteSet(0..MaxNow)
           /\ log \in Logs
           /\ \A h : HourTicks(h) \subseteq 0..MaxNow /\ IsFiniteSet(HourTicks(h))
           /\ \A c \in Counters, T \in SUBSET (0..MaxNow) : Numbers(log[c], T)
<1>1. now \in Nat /\ now \in 0..MaxNow /\ MaxNow \in Nat
  BY StatsAssumption DEF IInv, NumbersOK
<1>2. IsFiniteSet(0..MaxNow)
  BY <1>1, FS_Interval
<1>3. \A h : HourTicks(h) \subseteq 0..MaxNow
  BY DEF HourTicks
<1>4. \A h : IsFiniteSet(HourTicks(h))
  BY <1>2, <1>3, FS_Subset
<1>5. log \in Logs
  BY DEF IInv, LogOK, Logs
<1>6. \A c \in Counters, T \in SUBSET (0..MaxNow) : Numbers(log[c], T)
  BY <1>5 DEF Numbers, Logs
<1> QED
  BY <1>1, <1>2, <1>3, <1>4, <1>5, <1>6

(* The sum of zeros.                                                       *)
LEMMA ZeroSum ==
    ASSUME NEW S, IsFiniteSet(S), NEW f, \A x \in S : f[x] = 0
    PROVE  Sum(f, S) = 0
<1>1. Numbers(f, S)
  BY DEF Numbers
<1>2. PICK T : T = {}
  OBVIOUS
<1>3. Sum(f, T) = Sum(f, S)
  <2>1. T \in SUBSET S
    BY <1>2
  <2> QED
    BY <1>1, <2>1, SumOfSubset
<1> QED
  BY <1>2, <1>3, EmptySum DEF Sum

(* The history has one event of c at n more.                               *)
OneMoreEvent(l, c, n, m) ==
    /\ m \in Logs
    /\ \A d \in Counters : d # c => m[d] = l[d]
    /\ m[c][n] = l[c][n] + 1
    /\ \A t \in 0..MaxNow : t # n => m[c][t] = l[c][t]

LEMMA OneMoreEventFacts ==
    ASSUME NEW l \in Logs, NEW c \in Counters, NEW n \in 0..MaxNow,
           NEW m, m = [l EXCEPT ![c][n] = @ + 1]
    PROVE  OneMoreEvent(l, c, n, m)
<1>1. PICK f : f = [l[c] EXCEPT ![n] = @ + 1]
  OBVIOUS
<1>2. PICK g : g = l[c] /\ g \in [0..MaxNow -> Nat]
  BY DEF Logs
<1>3. /\ f \in [0..MaxNow -> Nat] /\ f[n] = l[c][n] + 1
      /\ \A t \in 0..MaxNow : t # n => f[t] = l[c][t]
  <2>1. f = [g EXCEPT ![n] = g[n] + 1] /\ g[n] + 1 \in Nat
    <3>1. f = [g EXCEPT ![n] = g[n] + 1]
      BY <1>1, <1>2, Zenon
    <3>2. g[n] \in Nat
      BY <1>2
    <3> QED
      BY <3>1, <3>2
  <2>2. f \in [0..MaxNow -> Nat] /\ f[n] = g[n] + 1
    BY <1>2, <2>1
  <2>3. \A t \in 0..MaxNow : t # n => f[t] = g[t]
    BY <1>2, <2>1
  <2> QED
    BY <1>2, <2>2, <2>3
<1>4. m = [l EXCEPT ![c] = f]
  BY <1>1
<1>5. m \in Logs /\ m[c] = f /\ \A d \in Counters : d # c => m[d] = l[d]
  BY <1>3, <1>4 DEF Logs
<1> QED
  BY <1>3, <1>5 DEF OneMoreEvent

(* The bucket of the hour, there or not: what the hour had so far.         *)
LEMMA OldBucket ==
    ASSUME IInv, NEW hour, hour = TruncateToHour(now),
           NEW old, old = IF hour \in DOMAIN last24h THEN last24h[hour] ELSE EmptyBucket
    PROVE  BucketHolds(hour, old, log, count)
<1>1. CASE hour \in DOMAIN last24h
  BY <1>1 DEF IInv, BucketsOK
<1>2. CASE hour \notin DOMAIN last24h
  <2>1. \A c \in Counters : \A t \in HourTicks(hour) : log[c][t] = 0
    <3>1. SUFFICES ASSUME NEW c \in Counters, NEW t \in HourTicks(hour), log[c][t] # 0
                   PROVE  FALSE
      OBVIOUS
    <3>2. t \in 0..MaxNow /\ TruncateToHour(t) = hour
      BY DEF HourTicks
    <3>3. hour < now - WindowLength
      BY <1>2, <3>1, <3>2 DEF IInv, BucketsOK, HourKept
    <3>4. now - hour < HourLength /\ hour \in 0..now /\ now \in Nat
      BY NowFacts, HourFacts
    <3> QED
      BY <3>3, <3>4, WindowFacts, StatsAssumption
  <2>2. \A c \in Counters : Sum(log[c], HourTicks(hour)) = 0
    BY <2>1, NowFacts, ZeroSum
  <2>3. old = [c \in Counters |-> 0]
    BY <1>2 DEF EmptyBucket
  <2>4. \A c \in Counters : count[c] \in Nat
    BY StatsAssumption DEF IInv, NumbersOK
  <2> QED
    BY <2>2, <2>3, <2>4 DEF BucketHolds
<1> QED
  BY <1>1, <1>2

(* An event goes into the bucket of its hour, which had all of them.       *)
LEMMA IncrementStep ==
    ASSUME IInv, NEW c \in Counters, Increment(c)
    PROVE  NumbersOK' /\ LogOK' /\ BucketsOK'
<1>1. PICK hour, old, nb : /\ hour = TruncateToHour(now)
                           /\ old = IF hour \in DOMAIN last24h THEN last24h[hour] ELSE EmptyBucket
                           /\ nb = [old EXCEPT ![c] = @ + 1]
  OBVIOUS
<1>2. PICK cc, l, m, n : cc = count' /\ l = log /\ m = log' /\ n = now
  OBVIOUS
<1>3. BucketHolds(hour, old, l, count)
  BY <1>1, <1>2, OldBucket
<1>4. /\ DOMAIN last24h' = DOMAIN last24h \cup {hour}
      /\ last24h'[hour] = nb
      /\ \A h \in DOMAIN last24h : h # hour => last24h'[h] = last24h[h]
  BY <1>1 DEF Increment, AddToLast24h
<1>5. /\ now' = now /\ hits' = hits /\ n \in 0..MaxNow /\ n \in Nat /\ l \in Logs
      /\ hour \in 0..n
  BY <1>1, <1>2, NowFacts, HourFacts DEF Increment
<1>6. OneMoreEvent(l, c, n, m)
  BY <1>2, <1>5, OneMoreEventFacts DEF Increment
<1>7. /\ count \in [Counters -> 0..MaxEvents] /\ MaxEvents \in Nat
      /\ cc \in [Counters -> 0..MaxEvents]
      /\ cc[c] = count[c] + 1
      /\ \A d \in Counters : d # c => cc[d] = count[d]
  BY <1>2, StatsAssumption DEF IInv, NumbersOK, Increment
<1>8. NumbersOK'
  BY <1>2, <1>5, <1>7 DEF IInv, NumbersOK
<1>9. LogOK'
  <2>1. \A d \in Counters : \A t \in 0..MaxNow : t > n => l[d][t] = 0
    BY <1>2 DEF IInv, LogOK
  <2>2. \A d \in Counters : \A t \in 0..MaxNow : t > n => m[d][t] = 0
    BY <1>5, <1>6, <2>1 DEF OneMoreEvent
  <2> QED
    BY <1>2, <1>5, <1>6, <2>2 DEF LogOK, OneMoreEvent, Logs
<1>10. BucketHolds(hour, nb, m, cc)
  <2>1. /\ old \in [Counters -> Nat] /\ nb \in [Counters -> Nat]
        /\ nb[c] = old[c] + 1 /\ \A d \in Counters : d # c => nb[d] = old[d]
    BY <1>1, <1>3 DEF BucketHolds
  <2>2. \A d \in Counters : nb[d] <= cc[d]
    BY <1>3, <1>7, <2>1 DEF BucketHolds
  <2>3. PICK S : /\ S = HourTicks(hour) /\ IsFiniteSet(S) /\ n \in S
                 /\ S \subseteq 0..MaxNow /\ Numbers(l[c], S)
    BY <1>1, <1>2, <1>5, NowFacts DEF HourTicks
  <2>4. PICK one \in Nat : one = 1
    OBVIOUS
  <2>5. OneTermGrows(l[c], m[c], S, one)
    BY <1>6, <2>3, <2>4 DEF OneMoreEvent, OneTermGrows
  <2>6. Sum(m[c], S) = Sum(l[c], S) + 1
    BY <2>3, <2>4, <2>5, SumGrows
  <2>7. \A d \in Counters : nb[d] = Sum(m[d], S)
    BY <1>3, <1>6, <2>1, <2>3, <2>6 DEF BucketHolds, OneMoreEvent
  <2> QED
    BY <2>1, <2>2, <2>3, <2>7 DEF BucketHolds
<1>11. ASSUME NEW h \in DOMAIN last24h, h # hour
       PROVE  BucketHolds(h, last24h[h], m, cc)
  <2>1. PICK b : b = last24h[h] /\ BucketHolds(h, b, l, count)
    BY <1>2 DEF IInv, BucketsOK
  <2>2. PICK S : S = HourTicks(h) /\ IsFiniteSet(S) /\ n \notin S /\ S \subseteq 0..MaxNow
    BY <1>1, <1>2, <1>11, NowFacts DEF HourTicks
  <2>3. \A x \in S : l[c][x] = m[c][x]
    BY <1>6, <2>2 DEF OneMoreEvent
  <2>4. Sum(l[c], S) = Sum(m[c], S)
    BY <2>2, <2>3, SumCongruence DEF Sum
  <2>5. \A d \in Counters : Sum(l[d], S) = Sum(m[d], S)
    BY <1>6, <2>4 DEF OneMoreEvent
  <2>6. \A d \in Counters : b[d] <= cc[d]
    BY <1>7, <2>1 DEF BucketHolds
  <2> QED
    BY <2>1, <2>2, <2>5, <2>6 DEF BucketHolds
<1>12. ASSUME NEW d \in Counters, NEW t \in 0..MaxNow, m[d][t] # 0
       PROVE  HourKept(t, DOMAIN last24h \cup {hour}, n)
  <2>1. CASE t = n
    BY <1>1, <1>2, <2>1 DEF HourKept
  <2>2. CASE t # n
    <3>1. l[d][t] # 0
      BY <1>6, <1>12, <2>2 DEF OneMoreEvent
    <3> QED
      BY <1>2, <3>1 DEF IInv, BucketsOK, HourKept
  <2> QED
    BY <2>1, <2>2
<1>13. BucketsOK'
  <2>1. DOMAIN last24h' \subseteq {TruncateToHour(t) : t \in 0..now'}
    BY <1>1, <1>2, <1>4, <1>5 DEF IInv, BucketsOK
  <2>2. \A h \in DOMAIN last24h' : BucketHolds(h, last24h'[h], m, cc)
    BY <1>4, <1>10, <1>11
  <2>3. \A d \in Counters : \A t \in 0..MaxNow :
           m[d][t] # 0 => HourKept(t, DOMAIN last24h', n)
    BY <1>4, <1>12
  <2> QED
    BY <1>2, <1>5, <2>1, <2>2, <2>3 DEF BucketsOK
<1> QED
  BY <1>8, <1>9, <1>13

(* Time passes: more hours are too old.                                    *)
LEMMA TickStep ==
    ASSUME IInv, Tick
    PROVE  NumbersOK' /\ LogOK' /\ BucketsOK'
<1>1. PICK n : n = now /\ now' = n + 1 /\ n \in Nat /\ n + 1 \in 0..MaxNow
  BY NowFacts DEF Tick
<1>2. NumbersOK' /\ LogOK'
  BY <1>1, NowFacts DEF IInv, NumbersOK, LogOK, Tick
<1>3. DOMAIN last24h \subseteq {TruncateToHour(t) : t \in 0..n + 1}
  BY <1>1 DEF IInv, BucketsOK
<1>4. ASSUME NEW t \in 0..MaxNow, HourKept(t, DOMAIN last24h, n)
      PROVE  HourKept(t, DOMAIN last24h, n + 1)
  <2>1. TruncateToHour(t) \in Int /\ WindowLength \in Int
    BY HourFacts, WindowFacts
  <2> QED
    BY <1>1, <1>4, <2>1 DEF HourKept
<1>5. BucketsOK'
  BY <1>1, <1>3, <1>4 DEF IInv, BucketsOK, Tick
<1> QED
  BY <1>2, <1>5

(* A report drops only buckets that are too old.                           *)
LEMMA GetStep ==
    ASSUME IInv, NEW r \in Readers, GetCurrentStats(r)
    PROVE  NumbersOK' /\ LogOK' /\ BucketsOK'
<1>1. /\ DOMAIN last24h' = Kept /\ \A h \in Kept : last24h'[h] = last24h[h]
      /\ UNCHANGED <<count, hits, now, log>>
  BY DEF GetCurrentStats
<1>2. Kept \subseteq DOMAIN last24h
  BY DEF Kept
<1>3. NumbersOK' /\ LogOK'
  BY <1>1 DEF IInv, NumbersOK, LogOK
<1>4. ASSUME NEW t \in 0..MaxNow, HourKept(t, DOMAIN last24h, now)
      PROVE  HourKept(t, Kept, now)
  <2>1. TruncateToHour(t) \in Int /\ WindowLength \in Int /\ now \in Int
    BY NowFacts, HourFacts, WindowFacts
  <2> QED
    BY <1>4, <2>1 DEF HourKept, Kept, Cutoff
<1>5. BucketsOK'
  <2>1. Kept \subseteq {TruncateToHour(t) : t \in 0..now}
    BY <1>2 DEF IInv, BucketsOK
  <2>2. \A h \in Kept : BucketHolds(h, last24h[h], log, count)
    BY <1>2 DEF IInv, BucketsOK
  <2>3. \A c \in Counters : \A t \in 0..MaxNow : log[c][t] # 0 => HourKept(t, Kept, now)
    BY <1>4 DEF IInv, BucketsOK
  <2> QED
    BY <1>1, <2>1, <2>2, <2>3 DEF BucketsOK
<1> QED
  BY <1>3, <1>5

(* A report is true when it is made.                                       *)
LEMMA ReportStep ==
    ASSUME IInv, NEW r \in Readers, GetCurrentStats(r)
    PROVE  ListOK' /\ ReportsOK'
<1>1. PICK rep : rep = reports'[r]
  OBVIOUS
<1>2. /\ rep.ips = ips /\ rep.seen = View(arrays, ips) /\ rep.hits = hits
      /\ DOMAIN reports' = Readers
      /\ \A q \in Readers : q # r => reports'[q] = reports[q]
      /\ arrays' = arrays /\ ips' = ips /\ hits' = hits
  BY <1>1, ElementsIsView DEF GetCurrentStats, IInv, ReportsOK
<1>3. ListHolds(ips, arrays, hits)
  BY DEF IInv, ListOK
<1>4. ListOK'
  BY <1>2, <1>3 DEF ListOK
<1>5. ReportHolds(rep, arrays)
  <2>1. /\ View(arrays, ips) \in Seq(Entries) /\ Len(View(arrays, ips)) = ips.len
        /\ PointsInto(ips, arrays) /\ Requests(View(arrays, ips)) = hits
    BY <1>3, ViewFacts DEF ListHolds
  <2>2. Behind(View(arrays, ips), View(arrays, ips))
    BY <2>1, EntriesTyped DEF Behind
  <2> QED
    BY <1>2, <2>1, <2>2 DEF ReportHolds
<1>6. \A q \in Readers : reports'[q] # NoReport => ReportHolds(reports'[q], arrays)
  BY <1>1, <1>2, <1>5 DEF IInv, ReportsOK
<1> QED
  BY <1>2, <1>4, <1>6 DEF ReportsOK

(* Together: every step keeps the invariant.                               *)
LEMMA NextIInv == IInv /\ [Next]_vars => IInv'
<1> SUFFICES ASSUME IInv, [Next]_vars PROVE IInv'
  OBVIOUS
<1>0. Grew(arrays, arrays)
  BY NoGrowth DEF IInv, ListOK, ListHolds
<1>1. ASSUME NEW c \in Counters, Increment(c)
      PROVE  IInv'
  <2>1. arrays' = arrays /\ ips' = ips /\ hits' = hits /\ reports' = reports
    BY <1>1 DEF Increment
  <2>2. ListOK'
    BY <2>1 DEF IInv, ListOK
  <2>3. ReportsOK'
    BY <2>1 DEF IInv, ReportsOK
  <2> QED
    BY <1>1, <2>2, <2>3, IncrementStep DEF IInv
<1>2. ASSUME NEW ip \in IPs, RecordRateLimitHit(ip)
      PROVE  IInv'
  <2>1. /\ count' = count /\ last24h' = last24h /\ now' = now /\ reports' = reports
        /\ log' = log /\ hits' = hits + 1 /\ hits < MaxHits
    BY <1>2 DEF RecordRateLimitHit
  <2>2. NumbersOK'
    BY <2>1, StatsAssumption DEF IInv, NumbersOK
  <2>3. LogOK' /\ BucketsOK'
    BY <2>1 DEF IInv, LogOK, BucketsOK
  <2>4. ListOK' /\ ReportsOK'
    BY <1>2, <2>1, HitStep, ReportsSurvive
  <2> QED
    BY <2>2, <2>3, <2>4 DEF IInv
<1>3. ASSUME NEW r \in Readers, GetCurrentStats(r)
      PROVE  IInv'
  BY <1>3, GetStep, ReportStep DEF IInv
<1>4. ASSUME Tick
      PROVE  IInv'
  <2>1. arrays' = arrays /\ ips' = ips /\ hits' = hits /\ reports' = reports
    BY <1>4 DEF Tick
  <2>2. ListOK' /\ ReportsOK'
    BY <2>1 DEF IInv, ListOK, ReportsOK
  <2> QED
    BY <1>4, <2>2, TickStep DEF IInv
<1>5. ASSUME UNCHANGED vars
      PROVE  IInv'
  BY <1>5 DEF vars, IInv, NumbersOK, ListOK, ReportsOK, LogOK, BucketsOK
<1> QED
  BY <1>1, <1>2, <1>3, <1>4, <1>5 DEF Next

(* It holds in every run of the recorders and readers (stats.go:50-133).   *)
THEOREM StatsInvariant == Spec => []IInv
<1>1. Init => IInv
  BY InitIInv
<1>2. IInv /\ [Next]_vars => IInv'
  BY NextIInv
<1> QED
  BY <1>1, <1>2, PTL DEF Spec

-----------------------------------------------------------------------------
(* The invariant contains the type invariant.                              *)
LEMMA IInvTypes == IInv => TypeOK
<1> SUFFICES ASSUME IInv PROVE TypeOK
  OBVIOUS
<1>1. ASSUME NEW h \in DOMAIN last24h
      PROVE  h \in 0..MaxNow /\ h % HourLength = 0 /\ last24h[h] \in [Counters -> 0..MaxEvents]
  <2>1. PICK t \in 0..now : h = TruncateToHour(t)
    BY DEF IInv, BucketsOK
  <2>2. h \in 0..t /\ h % HourLength = 0
    BY <2>1, NowFacts, HourFacts
  <2>3. PICK b : b = last24h[h] /\ b \in [Counters -> Nat] /\ \A c \in Counters : b[c] <= count[c]
    BY DEF IInv, BucketsOK, BucketHolds
  <2>4. \A c \in Counters : count[c] \in 0..MaxEvents
    BY DEF IInv, NumbersOK
  <2>5. b \in [Counters -> 0..MaxEvents]
    BY <2>3, <2>4, StatsAssumption
  <2> QED
    BY <2>1, <2>2, <2>3, <2>5, NowFacts
<1>2. ips.array \in 0..Len(arrays)
  BY DEF IInv, ListOK, ListHolds, PointsInto, Slices, Arrays
<1>3. \A i \in DOMAIN arrays : Len(arrays[i].elems) <= arrays[i].cap
  BY DEF IInv, ListOK, ListHolds, ArraysFit
<1> QED
  BY <1>1, <1>2, <1>3 DEF TypeOK, IInv, NumbersOK

(* Counters stay in their types, buckets start on the hour                 *)
(* (stats.go:106-113) and no slice is longer than its array.               *)
THEOREM TypeCorrect == Spec => []TypeOK
<1>1. IInv => TypeOK
  BY IInvTypes
<1> QED
  BY <1>1, StatsInvariant, PTL

(* Every rate limit hit is attributed to exactly one address, whose entry  *)
(* is unique, through all moves of the list (stats.go:88-104).             *)
THEOREM HitsAttributed == Spec => []HitsAreAttributed
<1>1. IInv => HitsAreAttributed
  BY ElementsIsView DEF IInv, ListOK, ListHolds, HitsAreAttributed, OnePerIP
<1> QED
  BY <1>1, StatsInvariant, PTL

(* A report is true: so its slice shows no fewer requests.                 *)
LEMMA IInvViews == IInv => ViewsNeverLoseHits
<1> SUFFICES ASSUME IInv, NEW r \in Readers, reports[r] # NoReport,
                    NEW view, view = Elements(reports[r].ips),
                    NEW seen, seen = reports[r].seen
             PROVE  /\ Len(view) = Len(seen)
                    /\ \A i \in DOMAIN seen : /\ view[i].ip = seen[i].ip
                                              /\ view[i].requests >= seen[i].requests
                    /\ Requests(view) >= reports[r].hits
  BY DEF ViewsNeverLoseHits
<1>1. PICK rep : rep = reports[r] /\ ReportHolds(rep, arrays)
  BY DEF IInv, ReportsOK
<1>2. arrays \in Arrays /\ PointsInto(rep.ips, arrays) /\ view = View(arrays, rep.ips)
  BY <1>1, ElementsIsView DEF IInv, ListOK, ListHolds, ReportHolds
<1>3. view \in Seq(Entries) /\ seen \in Seq(Entries) /\ Len(view) = Len(seen)
      /\ Behind(seen, view) /\ Requests(seen) = rep.hits
  BY <1>1, <1>2, ViewFacts DEF ReportHolds
<1>4. Requests(seen) <= Requests(view) /\ Requests(seen) \in Nat /\ Requests(view) \in Nat
  BY <1>3, RequestsBehind, RequestsFacts
<1> QED
  BY <1>1, <1>3, <1>4 DEF Behind

(* What a reader finds in the slice it was returned (stats.go:50-56),      *)
(* while RecordRateLimitHit goes on writing to its array, has the          *)
(* addresses of its report in their order, never with fewer requests.      *)
THEOREM ViewsKeepHits == Spec => []ViewsNeverLoseHits
<1>1. IInv => ViewsNeverLoseHits
  BY IInvViews
<1> QED
  BY <1>1, StatsInvariant, PTL

-----------------------------------------------------------------------------
(* What a report sums up.                                                  *)
Covered(K) == {t \in 0..MaxNow : TruncateToHour(t) \in K}

(* Summing the buckets of hours is summing the events of these hours.      *)
LEMMA CoveredSum ==
    ASSUME IInv, NEW f, Numbers(f, 0..MaxNow), NEW K, IsFiniteSet(K),
           NEW b, \A h \in K : b[h] = Sum(f, HourTicks(h))
    PROVE  Sum(b, K) = Sum(f, Covered(K))
<1> DEFINE P == {s \in SUBSET K : Sum(b, s) = Sum(f, Covered(s))}
<1>0. \A S \in SUBSET (0..MaxNow) : IsFiniteSet(S) /\ Numbers(f, S)
  BY NowFacts, FS_Subset DEF Numbers
<1>a. \A h \in K : b[h] \in Nat /\ HourTicks(h) \in SUBSET (0..MaxNow)
  BY <1>0, SumType DEF HourTicks
<1>1. {} \in P
  <2>1. Covered({}) = {}
    BY DEF Covered
  <2> QED
    BY <2>1, EmptySum DEF Sum
<1>2. ASSUME NEW s \in SUBSET K, s # {}, \A x \in s : s \ {x} \in P
      PROVE  s \in P
  <2>1. PICK h \in s : TRUE
    BY <1>2
  <2>2. PICK t : t = s \ {h}
    OBVIOUS
  <2>3. IsFiniteSet(t) /\ t \cup {h} = s /\ h \notin t /\ Numbers(b, s)
    BY <1>a, <2>2, FS_Subset DEF Numbers
  <2>4. Sum(b, s) = b[h] + Sum(b, t)
    BY <2>3, SumOfMore
  <2>5. PICK S, T : S = HourTicks(h) /\ T = Covered(t)
    OBVIOUS
  <2>6. S \subseteq 0..MaxNow /\ T \subseteq 0..MaxNow /\ S \cap T = {} /\ S \cup T = Covered(s)
    BY <2>2, <2>3, <2>5 DEF HourTicks, Covered
  <2>7. IsFiniteSet(S) /\ IsFiniteSet(T) /\ Numbers(f, S \cup T)
    BY <1>0, <2>6
  <2>8. Sum(f, Covered(s)) = Sum(f, S) + Sum(f, T)
    <3>1. Sum(f, S \cup T) = Sum(f, S) + Sum(f, T)
      BY <2>6, <2>7, SumOfUnion
    <3> QED
      BY <2>6, <3>1
  <2>9. Sum(b, t) = Sum(f, T)
    BY <1>2, <2>2, <2>5
  <2> QED
    BY <2>4, <2>5, <2>8, <2>9
<1> HIDE DEF P
<1>3. K \in P
  BY <1>1, <1>2, SubsetInduction
<1> QED
  BY <1>3 DEF P

(* The buckets kept are those of hours within the window: all but the      *)
(* first hour, which may have begun before it.                             *)
LEMMA ReportIsRecent ==
    ASSUME IInv, NEW r \in Readers, GetCurrentStats(r), NEW c \in Counters
    PROVE  /\ reports'[r].recent[c] <= Events(c, now - WindowLength)
           /\ reports'[r].recent[c] >= Events(c, now - WindowLength + HourLength - 1)
<1>1. PICK f : f = log[c] /\ Numbers(f, 0..MaxNow)
  BY NowFacts
<1>2. PICK b : b = [h \in Kept |-> last24h[h][c]]
  OBVIOUS
<1>3. IsFiniteSet(Kept) /\ Kept \subseteq DOMAIN last24h /\ Kept \subseteq 0..MaxNow
  <2>1. Kept \subseteq DOMAIN last24h /\ DOMAIN last24h \subseteq 0..MaxNow
    BY IInvTypes DEF Kept, TypeOK
  <2> QED
    BY <2>1, NowFacts, FS_Subset
<1>4. \A h \in Kept : b[h] = Sum(f, HourTicks(h))
  BY <1>1, <1>2, <1>3 DEF IInv, BucketsOK, BucketHolds
<1>5. reports'[r].recent[c] = Sum(b, Kept)
  <2>1. reports'[r].recent = [d \in Counters |-> SumFunction([h \in Kept |-> last24h[h][d]])]
    BY DEF GetCurrentStats, IInv, ReportsOK
  <2>2. reports'[r].recent[c] = SumFunction(b)
    BY <1>2, <2>1
  <2>3. DOMAIN b = Kept
    BY <1>2
  <2> QED
    BY <2>2, <2>3 DEF SumFunction, Sum
<1>6. Sum(b, Kept) = Sum(f, Covered(Kept))
  BY <1>1, <1>3, <1>4, CoveredSum
<1>7. PICK lo, hi : lo = now - WindowLength /\ hi = now - WindowLength + HourLength - 1
                    /\ lo \in Int /\ hi \in Int
  BY NowFacts, WindowFacts, StatsAssumption
<1> DEFINE From(x) == {t \in x..MaxNow : t >= 0}
<1>8. \A S \in SUBSET (0..MaxNow) : IsFiniteSet(S) /\ Numbers(f, S) /\ Sum(f, S) \in Nat
  BY <1>1, NowFacts, FS_Subset, SumType DEF Numbers
<1>9. From(lo) \in SUBSET (0..MaxNow) /\ From(hi) \in SUBSET (0..MaxNow)
      /\ Covered(Kept) \in SUBSET (0..MaxNow)
  BY <1>7, NowFacts DEF Covered
<1>10. Events(c, lo) = Sum(f, From(lo)) /\ Events(c, hi) = Sum(f, From(hi))
  BY <1>1 DEF Events, Sum
<1>11. Covered(Kept) \subseteq From(lo)
  <2>1. SUFFICES ASSUME NEW t \in 0..MaxNow, TruncateToHour(t) \in Kept
                 PROVE  t \in From(lo)
    BY DEF Covered
  <2>2. TruncateToHour(t) >= lo /\ TruncateToHour(t) \in 0..t
    BY <1>7, <2>1, HourFacts DEF Kept, Cutoff
  <2> QED
    BY <1>7, <2>2, NowFacts
<1>12. \A t \in From(hi) \ Covered(Kept) : f[t] = 0
  <2>1. SUFFICES ASSUME NEW t \in From(hi), f[t] # 0
                 PROVE  TruncateToHour(t) \in Kept
    BY <1>9 DEF Covered
  <2>2. t \in 0..MaxNow
    BY <1>9
  <2>3. HourKept(t, DOMAIN last24h, now)
    BY <1>1, <2>1, <2>2 DEF IInv, BucketsOK
  <2>4. TruncateToHour(t) \in 0..t /\ t - TruncateToHour(t) < HourLength /\ t >= hi
    BY <1>7, <2>2, HourFacts
  <2>5. TruncateToHour(t) >= now - WindowLength
    BY <1>7, <2>2, <2>4, NowFacts, WindowFacts, StatsAssumption
  <2>6. TruncateToHour(t) \in DOMAIN last24h
    <3>1. now - WindowLength \in Int /\ TruncateToHour(t) \in Int
      BY <1>7, <2>4
    <3> QED
      BY <2>3, <2>5, <3>1 DEF HourKept
  <2> QED
    BY <2>5, <2>6 DEF Kept, Cutoff
<1>13. Sum(f, Covered(Kept)) <= Sum(f, From(lo))
  BY <1>8, <1>9, <1>11, SumOfSubset
<1>14. Sum(f, From(hi)) <= Sum(f, Covered(Kept))
  <2>1. PICK A, B, U : A = Covered(Kept) /\ B = From(hi) /\ U = A \cup B
    OBVIOUS
  <2>2. /\ IsFiniteSet(U) /\ Numbers(f, U) /\ A \in SUBSET U /\ B \in SUBSET U
        /\ \A t \in U \ A : f[t] = 0
    BY <1>8, <1>9, <1>12, <2>1
  <2>3. Sum(f, B) <= Sum(f, U)
    BY <2>2, SumOfSubset
  <2>4. Sum(f, A) = Sum(f, U)
    BY <2>2, SumOfSubset
  <2> QED
    BY <2>1, <2>3, <2>4
<1> HIDE DEF From
<1>15. /\ Sum(f, Covered(Kept)) \in Nat /\ Sum(f, From(lo)) \in Nat
       /\ Sum(f, From(hi)) \in Nat
  BY <1>8, <1>9
<1> QED
  BY <1>5, <1>6, <1>7, <1>10, <1>13, <1>14, <1>15

(* A report (stats.go:50-56, 116-133) counts no event older than the       *)
(* window and every event of the window but for its first hour.            *)
THEOREM ReportsRecent == Spec => ReportsAreRecent
<1>1. ASSUME IInv, [Next]_vars
      PROVE  [\A r \in Readers : reports'[r] # reports[r] =>
                \A c \in Counters :
                   /\ reports'[r].recent[c] <= Events(c, now - WindowLength)
                   /\ reports'[r].recent[c] >= Events(c, now - WindowLength + HourLength - 1)]_vars
  <2>1. ASSUME NEW r \in Readers, reports'[r] # reports[r]
        PROVE  GetCurrentStats(r)
    <3>1. ASSUME NEW q \in Readers, GetCurrentStats(q)
          PROVE  GetCurrentStats(r)
      <4>1. q = r
        BY <2>1, <3>1 DEF GetCurrentStats, IInv, ReportsOK
      <4> QED
        BY <3>1, <4>1
    <3>2. \/ reports' = reports
          \/ \E q \in Readers : GetCurrentStats(q)
      BY <1>1 DEF Next, Increment, RecordRateLimitHit, Tick, vars
    <3> QED
      BY <2>1, <3>1, <3>2
  <2> QED
    BY <1>1, <2>1, ReportIsRecent
<1> QED
  BY <1>1, StatsInvariant, PTL DEF Spec, ReportsAreRecent
=============================================================================
