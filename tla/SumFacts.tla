------------------------------ MODULE SumFacts ------------------------------
(***************************************************************************)
(* What SumFunction of the community modules computes: the sums over the   *)
(* entries of a cache and the sentences of a queue that the byte counters  *)
(* are compared with.  Induction is by the least counterexample, as the    *)
(* induction theorems of the library take an operator.                     *)
(***************************************************************************)
EXTENDS Integers, Sequences, Functions, FiniteSetTheorems, WellFoundedInduction, TLAPS

\* A set of numbers that is not empty has a least one.
LEMMA LeastNat ==
  ASSUME NEW T \in SUBSET Nat, T # {}
  PROVE  \E n \in T : \A m \in T : n <= m
<1> DEFINE R == {p \in Nat \X Nat : p[1] < p[2]}
<1>1. IsWellFoundedOn(R, Nat)
  BY NatLessThanWellFounded DEF OpToRel
<1>2. \A x, y \in Nat : <<y, x>> \in R <=> y < x
  OBVIOUS
<1> HIDE DEF R
<1>3. PICK x \in T : \A y \in T : ~(<<y, x>> \in R)
  BY <1>1, WFMin
<1>4. \A y \in T : ~(y < x)
  BY <1>2, <1>3
<1>5. \A y \in T : x <= y
  BY <1>4
<1> QED
  BY <1>5

LEMMA InductionOnNat ==
  ASSUME NEW T, 0 \in T, \A n \in Nat : n \in T => n + 1 \in T
  PROVE  Nat \subseteq T
<1>1. SUFFICES ASSUME Nat \ T # {} PROVE FALSE
  OBVIOUS
<1>2. PICK n \in Nat \ T : \A m \in Nat \ T : n <= m
  BY <1>1, LeastNat
<1>3. n # 0 /\ n - 1 \in Nat
  BY <1>2
<1>4. n - 1 \in T
  BY <1>2, <1>3
<1> QED
  BY <1>2, <1>3, <1>4

\* What holds of a set when it holds of all smaller ones holds of every
\* finite set; F is the sets it holds of.
LEMMA InductionOnSize ==
  ASSUME NEW S, IsFiniteSet(S), NEW F,
         \A A \in SUBSET S :
           (\A B \in SUBSET S : Cardinality(B) < Cardinality(A) => B \in F) => A \in F
  PROVE  S \in F
<1>1. \A A \in SUBSET S : IsFiniteSet(A) /\ Cardinality(A) \in Nat
  BY FS_Subset, FS_CardinalityType
<1> DEFINE T == {n \in Nat : \A A \in SUBSET S : Cardinality(A) < n => A \in F}
<1>2. 0 \in T
  BY <1>1
<1>3. \A n \in Nat : n \in T => n + 1 \in T
  <2> SUFFICES ASSUME NEW n \in Nat, n \in T, NEW A \in SUBSET S, Cardinality(A) < n + 1
               PROVE  A \in F
    OBVIOUS
  <2>1. \A B \in SUBSET S : Cardinality(B) < Cardinality(A) => Cardinality(B) < n
    BY <1>1
  <2> QED
    BY <2>1
<1> HIDE DEF T
<1>4. Cardinality(S) + 1 \in T
  BY <1>1, <1>2, <1>3, InductionOnNat
<1> QED
  BY <1>1, <1>4 DEF T

-----------------------------------------------------------------------------
(* The sum over a finite set.                                              *)

Any(s) == CHOOSE x \in s : TRUE

\* g sums f over the subsets of S, one element after the other.
Sums(g, f, S) ==
  g = [s \in SUBSET S |-> IF s = {} THEN 0 ELSE f[Any(s)] + g[s \ {Any(s)}]]

LEMMA AnyIn == \A s : s # {} => Any(s) \in s
BY DEF Any

LEMMA SmallerWithout ==
  ASSUME NEW s, IsFiniteSet(s), NEW x \in s
  PROVE  /\ IsFiniteSet(s \ {x}) /\ Cardinality(s) \in Nat /\ Cardinality(s \ {x}) \in Nat
         /\ Cardinality(s \ {x}) = Cardinality(s) - 1
BY FS_RemoveElement, FS_CardinalityType

LEMMA SumsExists ==
  ASSUME NEW S, IsFiniteSet(S), NEW f
  PROVE  \E g : Sums(g, f, S)
<1> DEFINE D(n) == {s \in SUBSET S : Cardinality(s) < n}
           Upto(g, n) == g = [s \in D(n) |-> IF s = {} THEN 0 ELSE f[Any(s)] + g[s \ {Any(s)}]]
           T == {n \in Nat : \E g : Upto(g, n)}
<1>0. \A s \in SUBSET S : IsFiniteSet(s) /\ Cardinality(s) \in Nat
  BY FS_Subset, FS_CardinalityType
<1>1. 0 \in T
  <2>1. D(0) = {}
    BY <1>0
  <2> DEFINE g == [s \in {} |-> 0]
  <2>2. Upto(g, 0)
    BY <2>1
  <2> QED
    BY <2>2
<1>2. \A n \in Nat : n \in T => n + 1 \in T
  <2> HIDE DEF Upto
  <2> SUFFICES ASSUME NEW n \in Nat, NEW g, Upto(g, n) PROVE \E h : Upto(h, n + 1)
    OBVIOUS
  <2> USE DEF Upto
  <2> DEFINE h == [s \in D(n + 1) |-> IF s = {} THEN 0 ELSE f[Any(s)] + g[s \ {Any(s)}]]
  <2>1. \A s \in D(n + 1) : s # {} => s \ {Any(s)} \in D(n) /\ s \ {Any(s)} \in D(n + 1)
    <3> SUFFICES ASSUME NEW s \in SUBSET S, Cardinality(s) < n + 1, s # {}
                 PROVE  s \ {Any(s)} \in D(n) /\ s \ {Any(s)} \in D(n + 1)
      OBVIOUS
    <3>1. Any(s) \in s
      BY AnyIn
    <3>2. /\ Cardinality(s) \in Nat /\ Cardinality(s \ {Any(s)}) \in Nat
          /\ Cardinality(s \ {Any(s)}) = Cardinality(s) - 1
      BY <1>0, <3>1, SmallerWithout
    <3> QED
      BY <3>2
  <2>2. \A s \in D(n) : g[s] = h[s]
    <3>1. D(n) \subseteq D(n + 1)
      BY <1>0
    <3> QED
      BY <3>1
  <2>3. Upto(h, n + 1)
    <3>1. \A s \in D(n + 1) : h[s] = IF s = {} THEN 0 ELSE f[Any(s)] + h[s \ {Any(s)}]
      BY <2>1, <2>2
    <3>2. h = [s \in D(n + 1) |-> h[s]]
      OBVIOUS
    <3> HIDE DEF h, D
    <3> QED
      BY <3>1, <3>2
  <2> QED
    BY <2>3
<1>3. Cardinality(S) + 1 \in T
  <2> HIDE DEF T
  <2>1. Cardinality(S) + 1 \in Nat
    BY <1>0
  <2> QED
    BY <1>1, <1>2, <2>1, InductionOnNat
<1>4. D(Cardinality(S) + 1) = SUBSET S
  <2>1. \A s \in SUBSET S : Cardinality(s) <= Cardinality(S)
    BY FS_Subset
  <2> QED
    BY <1>0, <2>1
<1> QED
  BY <1>3, <1>4 DEF Sums

LEMMA SumsAgree ==
  ASSUME NEW S, IsFiniteSet(S), NEW R, R \subseteq S, NEW f, NEW g, NEW h, Sums(g, f, S), Sums(h, f, R)
  PROVE  g[R] = h[R]
<1> DEFINE F == {s \in SUBSET R : g[s] = h[s]}
<1>1. ASSUME NEW A \in SUBSET R, \A B \in SUBSET R : Cardinality(B) < Cardinality(A) => B \in F
      PROVE  A \in F
  <2>1. /\ g[A] = IF A = {} THEN 0 ELSE f[Any(A)] + g[A \ {Any(A)}]
        /\ h[A] = IF A = {} THEN 0 ELSE f[Any(A)] + h[A \ {Any(A)}]
    BY DEF Sums
  <2>2. CASE A = {}
    BY <2>1, <2>2
  <2>3. CASE A # {}
    <3>1. Any(A) \in A /\ IsFiniteSet(A)
      BY <2>3, AnyIn, FS_Subset
    <3>2. A \ {Any(A)} \in F
      BY <1>1, <3>1, SmallerWithout
    <3> QED
      BY <2>1, <2>3, <3>2
  <2> QED
    BY <2>2, <2>3
<1>2. IsFiniteSet(R)
  BY FS_Subset
<1> HIDE DEF F
<1>3. R \in F
  BY <1>1, <1>2, InductionOnSize
<1> QED
  BY <1>3 DEF F

LEMMA SumUnfolds ==
  ASSUME NEW S, NEW f
  PROVE  SumFunctionOnSet(f, S) = (CHOOSE g : Sums(g, f, S))[S]
BY DEF SumFunctionOnSet, FoldFunctionOnSet, MapThenFoldSet, Sums, Any

LEMMA SumEmpty == \A f : SumFunctionOnSet(f, {}) = 0
BY DEF SumFunctionOnSet, FoldFunctionOnSet, MapThenFoldSet

LEMMA SumAny ==
  ASSUME NEW S, IsFiniteSet(S), S # {}, NEW f
  PROVE  SumFunctionOnSet(f, S) = f[Any(S)] + SumFunctionOnSet(f, S \ {Any(S)})
<1> DEFINE R == S \ {Any(S)}
           g == CHOOSE g : Sums(g, f, S)
           h == CHOOSE h : Sums(h, f, R)
<1>1. IsFiniteSet(R) /\ R \subseteq S
  BY FS_Subset
<1>2. Sums(g, f, S) /\ Sums(h, f, R)
  BY <1>1, SumsExists
<1>3. SumFunctionOnSet(f, S) = g[S] /\ SumFunctionOnSet(f, R) = h[R]
  BY SumUnfolds
<1> HIDE DEF g, h
<1>4. g[S] = f[Any(S)] + g[R]
  BY <1>2 DEF Sums
<1>5. g[R] = h[R]
  <2> HIDE DEF R
  <2> QED
    BY <1>1, <1>2, SumsAgree
<1> QED
  BY <1>3, <1>4, <1>5

\* Sums of integers are integers, and any element may be taken out first.
LEMMA SumInt ==
  ASSUME NEW S, IsFiniteSet(S), NEW f, \A x \in S : f[x] \in Int
  PROVE  SumFunctionOnSet(f, S) \in Int
<1> DEFINE F == {s \in SUBSET S : SumFunctionOnSet(f, s) \in Int}
<1>1. ASSUME NEW A \in SUBSET S, \A B \in SUBSET S : Cardinality(B) < Cardinality(A) => B \in F
      PROVE  A \in F
  <2>1. CASE A = {}
    BY <2>1, SumEmpty
  <2>2. CASE A # {}
    <3>1. Any(A) \in A /\ IsFiniteSet(A)
      BY <2>2, AnyIn, FS_Subset
    <3>2. A \ {Any(A)} \in F
      BY <1>1, <3>1, SmallerWithout
    <3>3. SumFunctionOnSet(f, A) = f[Any(A)] + SumFunctionOnSet(f, A \ {Any(A)})
      BY <2>2, <3>1, SumAny
    <3> QED
      BY <3>1, <3>2, <3>3
  <2> QED
    BY <2>1, <2>2
<1> HIDE DEF F
<1>2. S \in F
  BY <1>1, InductionOnSize
<1> QED
  BY <1>2 DEF F

LEMMA SumTakeOut ==
  ASSUME NEW S, IsFiniteSet(S), NEW f, \A x \in S : f[x] \in Int, NEW x \in S
  PROVE  SumFunctionOnSet(f, S) = f[x] + SumFunctionOnSet(f, S \ {x})
<1> DEFINE F == {s \in SUBSET S : \A y \in s : SumFunctionOnSet(f, s) = f[y] + SumFunctionOnSet(f, s \ {y})}
<1>1. ASSUME NEW A \in SUBSET S, \A B \in SUBSET S : Cardinality(B) < Cardinality(A) => B \in F
      PROVE  A \in F
  <2> SUFFICES ASSUME NEW y \in A PROVE SumFunctionOnSet(f, A) = f[y] + SumFunctionOnSet(f, A \ {y})
    OBVIOUS
  <2> DEFINE c == Any(A)
  <2>1. c \in A /\ IsFiniteSet(A)
    BY AnyIn, FS_Subset
  <2>2. SumFunctionOnSet(f, A) = f[c] + SumFunctionOnSet(f, A \ {c})
    BY <2>1, SumAny
  <2> HIDE DEF c
  <2>3. CASE y = c
    BY <2>2, <2>3
  <2>4. CASE y # c
    <3> HIDE DEF F
    <3>1. A \ {c} \in F /\ A \ {y} \in F
      <4>1. /\ Cardinality(A \ {c}) < Cardinality(A) /\ A \ {c} \in SUBSET S
            /\ Cardinality(A \ {y}) < Cardinality(A) /\ A \ {y} \in SUBSET S
        BY <2>1, SmallerWithout
      <4> QED
        BY <1>1, <4>1
    <3> USE DEF F
    <3>2. SumFunctionOnSet(f, A \ {c}) = f[y] + SumFunctionOnSet(f, (A \ {c}) \ {y})
      BY <2>4, <3>1
    <3>3. SumFunctionOnSet(f, A \ {y}) = f[c] + SumFunctionOnSet(f, (A \ {y}) \ {c})
      BY <2>1, <2>4, <3>1
    <3>4. (A \ {c}) \ {y} = (A \ {y}) \ {c}
      OBVIOUS
    <3> DEFINE rest == SumFunctionOnSet(f, (A \ {y}) \ {c})
    <3>5. f[c] \in Int /\ f[y] \in Int /\ rest \in Int
      <4>1. IsFiniteSet((A \ {y}) \ {c})
        BY <2>1, FS_RemoveElement
      <4> QED
        BY <2>1, <4>1, SumInt
    <3>6. SumFunctionOnSet(f, A \ {c}) = f[y] + rest /\ SumFunctionOnSet(f, A \ {y}) = f[c] + rest
      BY <3>2, <3>3, <3>4
    <3> HIDE DEF rest
    <3> QED
      BY <2>2, <3>5, <3>6
  <2> QED
    BY <2>3, <2>4
<1> HIDE DEF F
<1>2. S \in F
  BY <1>1, InductionOnSize
<1> QED
  BY <1>2 DEF F

\* pi maps S to T one to one, and f to g.
Renames(pi, S, T, f, g) ==
  /\ pi \in [S -> T]
  /\ \A x, y \in S : pi[x] = pi[y] => x = y
  /\ \A z \in T : \E x \in S : pi[x] = z
  /\ \A x \in S : f[x] = g[pi[x]] /\ f[x] \in Int

LEMMA SumRenamed ==
  ASSUME NEW S, IsFiniteSet(S), NEW T, IsFiniteSet(T), NEW pi, NEW f, NEW g, Renames(pi, S, T, f, g)
  PROVE  SumFunctionOnSet(f, S) = SumFunctionOnSet(g, T)
<1> USE DEF Renames
<1> DEFINE Im(A) == {z \in T : \E x \in A : pi[x] = z}
           F == {A \in SUBSET S : SumFunctionOnSet(f, A) = SumFunctionOnSet(g, Im(A))}
<1>1. ASSUME NEW A \in SUBSET S, \A B \in SUBSET S : Cardinality(B) < Cardinality(A) => B \in F
      PROVE  A \in F
  <2>1. CASE A = {}
    <3>1. Im(A) = {}
      BY <2>1
    <3> QED
      BY <2>1, <3>1, SumEmpty
  <2>2. CASE A # {}
    <3>1. PICK x \in A : TRUE
      BY <2>2
    <3>2. IsFiniteSet(A) /\ IsFiniteSet(Im(A)) /\ Cardinality(A \ {x}) < Cardinality(A)
      <4>1. IsFiniteSet(A) /\ IsFiniteSet(Im(A))
        BY FS_Subset
      <4>2. Cardinality(A \ {x}) = Cardinality(A) - 1 /\ Cardinality(A) \in Nat
        BY <3>1, <4>1, SmallerWithout
      <4> QED
        BY <4>1, <4>2
    <3> HIDE DEF F
    <3>3. A \ {x} \in F
      <4>1. A \ {x} \in SUBSET S
        OBVIOUS
      <4> QED
        BY <1>1, <3>2, <4>1
    <3>4. Im(A) \ {pi[x]} = Im(A \ {x}) /\ pi[x] \in Im(A)
      BY <3>1
    <3>5. \A z \in Im(A) : g[z] \in Int
      OBVIOUS
    <3> HIDE DEF Im
    <3>6. SumFunctionOnSet(f, A) = f[x] + SumFunctionOnSet(f, A \ {x})
      BY <3>1, <3>2, SumTakeOut
    <3>7. SumFunctionOnSet(g, Im(A)) = g[pi[x]] + SumFunctionOnSet(g, Im(A) \ {pi[x]})
      BY <3>2, <3>4, <3>5, SumTakeOut
    <3> QED
      BY <3>1, <3>3, <3>4, <3>6, <3>7 DEF F
  <2> QED
    BY <2>1, <2>2
<1> HIDE DEF F
<1>2. S \in F
  BY <1>1, InductionOnSize
<1>3. Im(S) = T
  OBVIOUS
<1> QED
  BY <1>2, <1>3 DEF F

\* Only the values on the set count.
LEMMA SumSame ==
  ASSUME NEW S, IsFiniteSet(S), NEW f, NEW g, \A x \in S : f[x] = g[x] /\ f[x] \in Int
  PROVE  SumFunctionOnSet(f, S) = SumFunctionOnSet(g, S)
<1> DEFINE pi == [x \in S |-> x]
<1>1. Renames(pi, S, S, f, g)
  BY DEF Renames
<1> HIDE DEF pi
<1> QED
  BY <1>1, SumRenamed

\* Two parts that have nothing in common add up.
LEMMA SumParts ==
  ASSUME NEW S, IsFiniteSet(S), NEW R, IsFiniteSet(R), S \cap R = {},
         NEW f, \A x \in S \cup R : f[x] \in Int
  PROVE  SumFunctionOnSet(f, S \cup R) = SumFunctionOnSet(f, S) + SumFunctionOnSet(f, R)
<1> DEFINE F == {A \in SUBSET S : SumFunctionOnSet(f, A \cup R) = SumFunctionOnSet(f, A) + SumFunctionOnSet(f, R)}
<1>0. SumFunctionOnSet(f, R) \in Int
  BY SumInt
<1>1. ASSUME NEW A \in SUBSET S, \A B \in SUBSET S : Cardinality(B) < Cardinality(A) => B \in F
      PROVE  A \in F
  <2>1. CASE A = {}
    <3>1. A \cup R = R
      BY <2>1
    <3> QED
      BY <1>0, <2>1, <3>1, SumEmpty
  <2>2. CASE A # {}
    <3>1. PICK x \in A : TRUE
      BY <2>2
    <3>2. IsFiniteSet(A) /\ IsFiniteSet(A \ {x}) /\ IsFiniteSet(A \cup R)
      BY FS_Subset, FS_RemoveElement, FS_Union
    <3> HIDE DEF F
    <3>3. A \ {x} \in F
      <4>1. Cardinality(A \ {x}) < Cardinality(A) /\ A \ {x} \in SUBSET S
        BY <3>1, <3>2, SmallerWithout
      <4> QED
        BY <1>1, <4>1
    <3>4. (A \cup R) \ {x} = (A \ {x}) \cup R
      BY <3>1
    <3>5. SumFunctionOnSet(f, A) = f[x] + SumFunctionOnSet(f, A \ {x})
      BY <3>1, <3>2, SumTakeOut
    <3>6. SumFunctionOnSet(f, A \cup R) = f[x] + SumFunctionOnSet(f, (A \cup R) \ {x})
      BY <3>1, <3>2, SumTakeOut
    <3>7. f[x] \in Int /\ SumFunctionOnSet(f, A \ {x}) \in Int
      BY <3>1, <3>2, SumInt
    <3>8. SumFunctionOnSet(f, (A \ {x}) \cup R) = SumFunctionOnSet(f, A \ {x}) + SumFunctionOnSet(f, R)
      BY <3>3 DEF F
    <3> DEFINE a == SumFunctionOnSet(f, A \ {x})
               r == SumFunctionOnSet(f, R)
    <3>9. /\ SumFunctionOnSet(f, A \cup R) = f[x] + (a + r) /\ SumFunctionOnSet(f, A) = f[x] + a
          /\ f[x] \in Int /\ a \in Int /\ r \in Int
      BY <1>0, <3>4, <3>5, <3>6, <3>7, <3>8
    <3> HIDE DEF a
    <3>10. SumFunctionOnSet(f, A \cup R) = SumFunctionOnSet(f, A) + r
      <4> HIDE DEF r
      <4> QED
        BY <3>9
    <3> QED
      BY <3>10 DEF F
  <2> QED
    BY <2>1, <2>2
<1> HIDE DEF F
<1>2. S \in F
  BY <1>1, InductionOnSize
<1> QED
  BY <1>2 DEF F
-----------------------------------------------------------------------------
(* The sum over a sequence of integers.                                    *)

LEMMA SumOfNone ==
  ASSUME NEW f, DOMAIN f = {}
  PROVE  SumFunction(f) = 0
BY SumEmpty DEF SumFunction

LEMMA SumOfInts ==
  ASSUME NEW n \in Nat, NEW f, DOMAIN f = 1..n, \A i \in 1..n : f[i] \in Int
  PROVE  SumFunction(f) \in Int
BY SumInt, FS_Interval DEF SumFunction

LEMMA SumOfOne ==
  ASSUME NEW f, DOMAIN f = 1..1, f[1] \in Int
  PROVE  SumFunction(f) = f[1]
<1>0. IsFiniteSet({1})
  BY FS_Singleton
<1>1. 1..1 = {1} /\ {1} \ {1} = {}
  OBVIOUS
<1>2. SumFunctionOnSet(f, {1}) = f[1] + SumFunctionOnSet(f, {1} \ {1})
  <2>1. \A x \in {1} : f[x] \in Int
    OBVIOUS
  <2> QED
    BY <1>0, <2>1, SumTakeOut
<1>3. SumFunctionOnSet(f, {1} \ {1}) = 0
  BY <1>1, SumEmpty
<1>4. SumFunction(f) = SumFunctionOnSet(f, {1})
  BY <1>1 DEF SumFunction
<1> QED
  BY <1>2, <1>3, <1>4

\* f is g, and h after it.
Joins(f, g, h, m, n) ==
  /\ m \in Nat /\ n \in Nat
  /\ DOMAIN f = 1..(m + n) /\ DOMAIN g = 1..m /\ DOMAIN h = 1..n
  /\ \A i \in 1..(m + n) : f[i] \in Int
  /\ \A i \in 1..m : g[i] = f[i]
  /\ \A i \in 1..n : h[i] = f[m + i]

LEMMA SumOfTwo ==
  ASSUME NEW m, NEW n, NEW f, NEW g, NEW h, Joins(f, g, h, m, n)
  PROVE  SumFunction(f) = SumFunction(g) + SumFunction(h)
<1> USE DEF Joins
<1> DEFINE A == 1..m
           B == (m + 1)..(m + n)
           pi == [i \in 1..n |-> m + i]
<1>1. IsFiniteSet(A) /\ IsFiniteSet(B) /\ IsFiniteSet(1..n)
  BY FS_Interval
<1>2. A \cap B = {} /\ A \cup B = 1..(m + n) /\ \A i \in A \cup B : f[i] \in Int
  OBVIOUS
<1>3. SumFunctionOnSet(f, A \cup B) = SumFunctionOnSet(f, A) + SumFunctionOnSet(f, B)
  <2> HIDE DEF A, B
  <2> QED
    BY <1>1, <1>2, SumParts
<1>4. SumFunctionOnSet(g, A) = SumFunctionOnSet(f, A)
  <2>1. \A i \in A : g[i] = f[i] /\ g[i] \in Int
    OBVIOUS
  <2> HIDE DEF A
  <2> QED
    BY <1>1, <2>1, SumSame
<1>5. SumFunctionOnSet(h, 1..n) = SumFunctionOnSet(f, B)
  <2>1. /\ pi \in [1..n -> B] /\ \A x, y \in 1..n : pi[x] = pi[y] => x = y
        /\ \A i \in 1..n : h[i] = f[pi[i]] /\ h[i] \in Int
    OBVIOUS
  <2>2. \A z \in B : \E x \in 1..n : pi[x] = z
    <3> SUFFICES ASSUME NEW z \in B PROVE \E x \in 1..n : pi[x] = z
      OBVIOUS
    <3>1. z - m \in 1..n
      OBVIOUS
    <3>2. pi[z - m] = z
      BY <3>1
    <3> QED
      BY <3>1, <3>2
  <2> DEFINE I == 1..n
  <2>3. IsFiniteSet(I)
    BY <1>1
  <2>4. Renames(pi, I, B, h, f)
    BY <2>1, <2>2 DEF Renames
  <2> HIDE DEF pi, B, I
  <2>5. SumFunctionOnSet(h, I) = SumFunctionOnSet(f, B)
    BY <1>1, <2>3, <2>4, SumRenamed
  <2> QED
    BY <2>5 DEF I
<1> HIDE DEF A, B
<1>6. SumFunction(f) = SumFunctionOnSet(f, A \cup B) /\ SumFunction(g) = SumFunctionOnSet(g, A)
      /\ SumFunction(h) = SumFunctionOnSet(h, 1..n)
  BY <1>2 DEF SumFunction, A
<1> QED
  BY <1>3, <1>4, <1>5, <1>6

\* g is f without its element at p.
Loses(f, g, p, n) ==
  /\ n \in Nat /\ p \in 1..(n + 1)
  /\ DOMAIN f = 1..(n + 1) /\ DOMAIN g = 1..n
  /\ \A i \in 1..(n + 1) : f[i] \in Int
  /\ \A i \in 1..n : g[i] = IF i < p THEN f[i] ELSE f[i + 1]

LEMMA SumWithout ==
  ASSUME NEW n, NEW p, NEW f, NEW g, Loses(f, g, p, n)
  PROVE  SumFunction(f) = f[p] + SumFunction(g)
<1> USE DEF Loses
<1> DEFINE A == (1..(n + 1)) \ {p}
           pi == [i \in 1..n |-> IF i < p THEN i ELSE i + 1]
           I == 1..n
<1>1. IsFiniteSet(1..(n + 1)) /\ IsFiniteSet(I)
  BY FS_Interval
<1>0. IsFiniteSet(A)
  BY <1>1, FS_RemoveElement
<1>2. SumFunctionOnSet(f, 1..(n + 1)) = f[p] + SumFunctionOnSet(f, A)
  BY <1>1, SumTakeOut
<1>3. /\ pi \in [I -> A]
      /\ \A i \in I : g[i] = f[pi[i]] /\ g[i] \in Int
  OBVIOUS
<1>4. \A x, y \in I : pi[x] = pi[y] => x = y
  OBVIOUS
<1>5. \A z \in A : \E x \in I : pi[x] = z
  <2> SUFFICES ASSUME NEW z \in A PROVE \E x \in I : pi[x] = z
    OBVIOUS
  <2> DEFINE x == IF z < p THEN z ELSE z - 1
  <2>1. x \in I /\ pi[x] = z
    OBVIOUS
  <2> HIDE DEF x, pi
  <2> QED
    BY <2>1
<1>6. Renames(pi, I, A, g, f)
  BY <1>3, <1>4, <1>5 DEF Renames
<1> HIDE DEF pi, A, I
<1>7. SumFunctionOnSet(g, I) = SumFunctionOnSet(f, A)
  BY <1>0, <1>1, <1>6, SumRenamed
<1> QED
  BY <1>2, <1>7 DEF SumFunction, I
=============================================================================
