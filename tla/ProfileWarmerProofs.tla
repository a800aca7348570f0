------------------------ MODULE ProfileWarmerProofs ------------------------
(***************************************************************************)
(* The cache and the profile warmer: what holds for any keys, callers,     *)
(* sizes and limits, whichever way lookups of the same key race.           *)
(***************************************************************************)
EXTENDS ProfileWarmer, SumFacts, SequenceTheorems

-----------------------------------------------------------------------------
(* Sequences.                                                              *)

LEMMA WithoutFacts ==
  ASSUME NEW S, NEW q \in Seq(S), NEW n \in 1..Len(q)
  PROVE  /\ Without(q, n) \in Seq(S) /\ Len(Without(q, n)) = Len(q) - 1
         /\ \A i \in 1..(Len(q) - 1) : Without(q, n)[i] = IF i < n THEN q[i] ELSE q[i + 1]
<1> DEFINE a == SubSeq(q, 1, n - 1)
           b == SubSeq(q, n + 1, Len(q))
<1>0. n \in Nat /\ 1 <= n /\ n <= Len(q) /\ Len(q) \in Nat
  OBVIOUS
<1>1. /\ a \in Seq(S) /\ Len(a) = n - 1 /\ \A i \in 1..(n - 1) : a[i] = q[i]
  <2>1. \A i \in 1..(n - 1) : 1 + i - 1 = i
    OBVIOUS
  <2>2. 1 \in 1..(Len(q) + 1) /\ n - 1 \in (1 - 1)..Len(q) /\ (n - 1) - 1 + 1 = n - 1
    BY <1>0
  <2> QED
    BY <1>0, <2>1, <2>2
<1>2. /\ b \in Seq(S) /\ Len(b) = Len(q) - n /\ \A i \in 1..(Len(q) - n) : b[i] = q[i + n]
  <2> DEFINE m == n + 1
             l == Len(q)
  <2>1. m \in Int /\ l \in Int /\ \A i \in m..l : q[i] \in S
    BY <1>0, ElementOfSeq
  <2>2. l - m + 1 = Len(q) - n /\ \A i \in 1..(Len(q) - n) : m + i - 1 = i + n
    BY <1>0
  <2>3. IF m <= l THEN l - m + 1 = Len(q) - n ELSE 0 = Len(q) - n
    BY <1>0
  <2> HIDE DEF m, l
  <2>4. /\ SubSeq(q, m, l) \in Seq(S)
        /\ Len(SubSeq(q, m, l)) = IF m <= l THEN l - m + 1 ELSE 0
        /\ \A i \in 1..(l - m + 1) : SubSeq(q, m, l)[i] = q[m + i - 1]
    BY <2>1, SubSeqProperties
  <2>5. Len(SubSeq(q, m, l)) = Len(q) - n
    BY <2>3, <2>4
  <2>6. \A i \in 1..(Len(q) - n) : SubSeq(q, m, l)[i] = q[i + n]
    BY <2>2, <2>4
  <2> QED
    BY <2>4, <2>5, <2>6 DEF m, l
<1>3. Without(q, n) = a \o b
  BY DEF Without
<1> HIDE DEF a, b
<1>4. /\ a \o b \in Seq(S) /\ Len(a \o b) = Len(q) - 1
      /\ \A i \in 1..(Len(q) - 1) : (a \o b)[i] = IF i < n THEN a[i] ELSE b[i - (n - 1)]
  <2>1. /\ a \o b \in Seq(S) /\ Len(a \o b) = Len(a) + Len(b)
        /\ \A i \in 1..(Len(a) + Len(b)) : (a \o b)[i] = IF i <= Len(a) THEN a[i] ELSE b[i - Len(a)]
    BY <1>1, <1>2, ConcatProperties
  <2>2. Len(a) + Len(b) = Len(q) - 1 /\ \A i \in Int : i <= Len(a) <=> i < n
    BY <1>0, <1>1, <1>2
  <2> QED
    BY <1>1, <2>1, <2>2
<1>5. \A i \in 1..(Len(q) - 1) : ~(i < n) => b[i - (n - 1)] = q[i + 1]
  <2> SUFFICES ASSUME NEW i \in 1..(Len(q) - 1), ~(i < n) PROVE b[i - (n - 1)] = q[i + 1]
    OBVIOUS
  <2>1. i - (n - 1) \in 1..(Len(q) - n) /\ (i - (n - 1)) + n = i + 1
    OBVIOUS
  <2> QED
    BY <1>2, <2>1
<1>6. \A i \in 1..(Len(q) - 1) : i < n => i \in 1..(n - 1)
  BY <1>0
<1>7. \A i \in 1..(Len(q) - 1) : (a \o b)[i] = IF i < n THEN q[i] ELSE q[i + 1]
  BY <1>1, <1>4, <1>5, <1>6
<1> QED
  BY <1>3, <1>4, <1>7

\* What was in the sequence moves to its end.
LEMMA LastMoves ==
  ASSUME NEW S, NEW q \in Seq(S), \A m, n \in DOMAIN q : q[m] = q[n] => m = n,
         NEW n \in DOMAIN q
  PROVE  /\ Last(q, q[n]) = Append(Without(q, n), q[n])
         /\ Last(q, q[n]) \in Seq(S) /\ Len(Last(q, q[n])) = Len(q)
         /\ \A i \in 1..(Len(q) - 1) : Last(q, q[n])[i] = IF i < n THEN q[i] ELSE q[i + 1]
         /\ Last(q, q[n])[Len(q)] = q[n]
<1> DEFINE w == Without(q, n)
<1>1. Place(q, q[n]) = n
  BY DEF Place
<1>2. Last(q, q[n]) = Append(w, q[n])
  BY <1>1 DEF Last
<1>3. n \in 1..Len(q) /\ q[n] \in S /\ Len(q) \in Nat
  OBVIOUS
<1>4. /\ w \in Seq(S) /\ Len(w) = Len(q) - 1
      /\ \A i \in 1..(Len(q) - 1) : w[i] = IF i < n THEN q[i] ELSE q[i + 1]
  BY <1>3, WithoutFacts
<1>5. (Len(q) - 1) + 1 = Len(q)
  BY <1>3
<1> HIDE DEF w
<1>6. /\ Append(w, q[n]) \in Seq(S) /\ Len(Append(w, q[n])) = Len(w) + 1
      /\ \A i \in 1..Len(w) : Append(w, q[n])[i] = w[i]
      /\ Append(w, q[n])[Len(w) + 1] = q[n]
  BY <1>3, <1>4, AppendProperties
<1> QED
  BY <1>2, <1>4, <1>5, <1>6 DEF w

\* What was not in the sequence joins it at its end.
LEMMA LastJoins ==
  ASSUME NEW S, NEW q \in Seq(S), NEW x \in S, ~\E n \in DOMAIN q : q[n] = x
  PROVE  Last(q, x) = Append(q, x)
BY DEF Last
-----------------------------------------------------------------------------
(* What the entries weigh.                                                 *)

SizesIn(q) == [n \in DOMAIN q |-> q[n].size]

LEMMA EntryFields == \A e \in Entry : e.size \in Nat /\ e.key \in Keys
BY CacheAssumption DEF Entry

LEMMA SizesInFacts ==
  ASSUME NEW q \in Seq(Entry)
  PROVE  /\ Weight(q) = SumFunction(SizesIn(q))
         /\ DOMAIN SizesIn(q) = 1..Len(q) /\ Len(q) \in Nat
         /\ \A i \in 1..Len(q) : SizesIn(q)[i] = q[i].size /\ SizesIn(q)[i] \in Int
<1>1. DOMAIN q = 1..Len(q) /\ Len(q) \in Nat /\ \A i \in 1..Len(q) : q[i] \in Entry
  BY ElementOfSeq, LenProperties
<1>2. \A i \in 1..Len(q) : q[i].size \in Int
  BY <1>1, EntryFields
<1> QED
  BY <1>1, <1>2 DEF Weight, SizesIn

LEMMA WeightOfNone == Weight(<<>>) = 0
<1>1. <<>> \in Seq(Entry) /\ Len(<<>>) = 0 /\ 1..0 = {}
  OBVIOUS
<1> QED
  BY <1>1, SizesInFacts, SumOfNone

LEMMA WeightInt ==
  ASSUME NEW q \in Seq(Entry) PROVE Weight(q) \in Int
BY SizesInFacts, SumOfInts

LEMMA WeightOfTwo ==
  ASSUME NEW q \in Seq(Entry), NEW a \in Seq(Entry), NEW b \in Seq(Entry), Len(q) = Len(a) + Len(b),
         \A i \in 1..Len(a) : a[i] = q[i], \A i \in 1..Len(b) : b[i] = q[Len(a) + i]
  PROVE  Weight(q) = Weight(a) + Weight(b)
<1>1. Len(a) \in Nat /\ Len(b) \in Nat
  OBVIOUS
<1>2. /\ \A i \in 1..Len(a) : i \in 1..Len(q)
      /\ \A i \in 1..Len(b) : Len(a) + i \in 1..Len(q)
  BY <1>1
<1> DEFINE m == Len(a)
           n == Len(b)
           w == SizesIn(q)
           u == SizesIn(a)
           v == SizesIn(b)
<1>3. DOMAIN w = 1..Len(q) /\ \A i \in 1..Len(q) : w[i] = q[i].size /\ w[i] \in Int
  BY SizesInFacts
<1>4. DOMAIN u = 1..m /\ \A i \in 1..m : u[i] = a[i].size
  BY SizesInFacts
<1>5. DOMAIN v = 1..n /\ \A i \in 1..n : v[i] = b[i].size
  BY SizesInFacts
<1>6. Weight(q) = SumFunction(w) /\ Weight(a) = SumFunction(u) /\ Weight(b) = SumFunction(v)
  BY SizesInFacts
<1> HIDE DEF w, u, v
<1>7. \A i \in 1..m : u[i] = w[i]
  BY <1>2, <1>3, <1>4
<1>8. \A i \in 1..n : v[i] = w[m + i]
  BY <1>2, <1>3, <1>5
<1>9. m \in Nat /\ n \in Nat /\ DOMAIN w = 1..(m + n) /\ \A i \in 1..(m + n) : w[i] \in Int
  BY <1>1, <1>3
<1> HIDE DEF m, n
<1>10. Joins(w, u, v, m, n)
  BY <1>4, <1>5, <1>7, <1>8, <1>9 DEF Joins
<1>11. SumFunction(w) = SumFunction(u) + SumFunction(v)
  BY <1>10, SumOfTwo
<1> QED
  BY <1>6, <1>11

LEMMA WeightOfOne ==
  ASSUME NEW e \in Entry PROVE Weight(<<e>>) = e.size
<1> DEFINE q == <<e>>
<1>1. q \in Seq(Entry) /\ Len(q) = 1 /\ q[1] = e
  OBVIOUS
<1>2. 1 \in 1..1
  OBVIOUS
<1> HIDE DEF q
<1>3. /\ DOMAIN SizesIn(q) = 1..1 /\ SizesIn(q)[1] = e.size /\ SizesIn(q)[1] \in Int
      /\ Weight(q) = SumFunction(SizesIn(q))
  BY <1>1, <1>2, SizesInFacts
<1>4. SumFunction(SizesIn(q)) = e.size
  BY <1>3, SumOfOne
<1> QED
  BY <1>3, <1>4 DEF q

LEMMA WeightAppend ==
  ASSUME NEW q \in Seq(Entry), NEW e \in Entry
  PROVE  Weight(Append(q, e)) = Weight(q) + e.size
<1> DEFINE grown == Append(q, e)
           one == <<e>>
<1>1. /\ grown \in Seq(Entry) /\ one \in Seq(Entry) /\ Len(one) = 1
      /\ Len(grown) = Len(q) + 1 /\ \A i \in 1..Len(q) : q[i] = grown[i]
      /\ grown[Len(q) + 1] = one[1]
  OBVIOUS
<1>2. \A i \in 1..1 : i = 1
  OBVIOUS
<1> HIDE DEF grown, one
<1>3. \A i \in 1..Len(one) : one[i] = grown[Len(q) + i]
  BY <1>1, <1>2
<1>4. Len(grown) = Len(q) + Len(one)
  BY <1>1
<1>5. Weight(grown) = Weight(q) + Weight(one)
  BY <1>1, <1>3, <1>4, WeightOfTwo
<1> QED
  BY <1>5, WeightOfOne DEF grown, one

LEMMA WeightWithout ==
  ASSUME NEW q \in Seq(Entry), NEW p \in 1..Len(q)
  PROVE  Weight(q) = q[p].size + Weight(Without(q, p))
<1> DEFINE r == Without(q, p)
           n == Len(q) - 1
<1>1. /\ r \in Seq(Entry) /\ Len(r) = Len(q) - 1
      /\ \A i \in 1..(Len(q) - 1) : r[i] = IF i < p THEN q[i] ELSE q[i + 1]
  BY WithoutFacts
<1> HIDE DEF r
<1>2. n \in Nat /\ n + 1 = Len(q)
  OBVIOUS
<1>3. \A i \in 1..n : i \in 1..Len(q) /\ i + 1 \in 1..Len(q)
  BY <1>2
<1>4. \A i \in 1..n : SizesIn(r)[i] = IF i < p THEN SizesIn(q)[i] ELSE SizesIn(q)[i + 1]
  <2>1. \A i \in 1..n : SizesIn(r)[i] = r[i].size
    BY <1>1, SizesInFacts
  <2>2. \A i \in 1..Len(q) : SizesIn(q)[i] = q[i].size
    BY SizesInFacts
  <2> QED
    BY <1>1, <1>3, <2>1, <2>2
<1>5. /\ DOMAIN SizesIn(q) = 1..(n + 1) /\ DOMAIN SizesIn(r) = 1..n /\ p \in 1..(n + 1)
      /\ \A i \in 1..(n + 1) : SizesIn(q)[i] \in Int
  BY <1>1, <1>2, SizesInFacts
<1> DEFINE w == SizesIn(q)
           u == SizesIn(r)
<1>6. Weight(q) = SumFunction(w) /\ w[p] = q[p].size /\ Weight(r) = SumFunction(u)
  BY <1>1, SizesInFacts
<1> HIDE DEF n, w, u
<1>7. Loses(w, u, p, n)
  BY <1>2, <1>4, <1>5 DEF Loses, w, u
<1>8. SumFunction(w) = w[p] + SumFunction(u)
  BY <1>7, SumWithout
<1> QED
  BY <1>6, <1>8 DEF r
-----------------------------------------------------------------------------
(* The history of uses.                                                    *)

Once(q) == \A m, n \in DOMAIN q : q[m] = q[n] => m = n

LEMMA LastOnce ==
  ASSUME NEW S, NEW q \in Seq(S), Once(q), NEW x \in S
  PROVE  Last(q, x) \in Seq(S) /\ Once(Last(q, x))
<1> DEFINE l == Len(q)
           r == Last(q, x)
<1>0. l \in Nat /\ DOMAIN q = 1..l /\ \A m, n \in 1..l : q[m] = q[n] => m = n
  BY LenProperties DEF Once
<1>1. CASE \E n \in DOMAIN q : q[n] = x
  <2>1. PICK p \in DOMAIN q : q[p] = x
    BY <1>1
  <2>2. /\ r \in Seq(S) /\ Len(r) = l
        /\ \A i \in 1..(l - 1) : r[i] = IF i < p THEN q[i] ELSE q[i + 1]
        /\ r[l] = x
    BY <2>1, LastMoves DEF Once
  <2> HIDE DEF r, l
  <2>3. DOMAIN r = 1..l
    BY <2>2, LenProperties
  <2>4. ASSUME NEW m \in 1..l, NEW n \in 1..l, r[m] = r[n], m < n PROVE FALSE
    <3>1. m \in 1..(l - 1) /\ m \in 1..l /\ m + 1 \in 1..l /\ p \in 1..l
      BY <1>0, <2>1, <2>4
    <3>2. CASE n = l
      BY <1>0, <2>1, <2>2, <2>4, <3>1, <3>2
    <3>3. CASE n # l
      <4>1. n \in 1..(l - 1) /\ n \in 1..l /\ n + 1 \in 1..l
        BY <1>0, <3>3
      <4> QED
        BY <1>0, <2>2, <2>4, <3>1, <4>1
    <3> QED
      BY <3>2, <3>3
  <2>5. \A m, n \in 1..l : r[m] = r[n] => m = n
    BY <1>0, <2>4
  <2> QED
    BY <2>2, <2>3, <2>5 DEF Once, r
<1>2. CASE ~\E n \in DOMAIN q : q[n] = x
  <2>1. /\ r \in Seq(S) /\ Len(r) = l + 1 /\ \A i \in 1..l : r[i] = q[i]
        /\ r[l + 1] = x
    BY <1>2, LastJoins, AppendProperties
  <2> HIDE DEF r, l
  <2>2. DOMAIN r = 1..(l + 1)
    BY <2>1, LenProperties
  <2>3. ASSUME NEW m \in 1..(l + 1), NEW n \in 1..(l + 1), r[m] = r[n], m < n PROVE FALSE
    <3>1. m \in 1..l /\ (n \in 1..l \/ n = l + 1)
      BY <1>0, <2>3
    <3> QED
      BY <1>0, <1>2, <2>1, <2>3, <3>1
  <2>4. \A m, n \in 1..(l + 1) : r[m] = r[n] => m = n
    BY <1>0, <2>3
  <2> QED
    BY <2>1, <2>2, <2>4 DEF Once, r
<1> QED
  BY <1>1, <1>2

\* The entries are the end of the history.
AlignedWith(q, u) ==
  /\ Len(q) <= Len(u)
  /\ \A i \in 1..Len(q) : q[i].key = u[Len(u) - Len(q) + i]

\* A key that is in the cache is used again.
LEMMA AlignedHit ==
  ASSUME NEW q \in Seq(Entry), NEW u \in Seq(Keys), Once(u), AlignedWith(q, u),
         NEW n \in DOMAIN q
  PROVE  /\ Last(q, q[n]) \in Seq(Entry) /\ Len(Last(q, q[n])) = Len(q)
         /\ AlignedWith(Last(q, q[n]), Last(u, q[n].key))
         /\ Weight(Last(q, q[n])) = Weight(q)
<1> DEFINE l == Len(q)
           d == Len(u) - l
           r == Last(q, q[n])
           v == Last(u, q[n].key)
<1>0. /\ l \in Nat /\ Len(u) \in Nat /\ d \in Nat /\ n \in 1..l /\ d + l = Len(u) /\ DOMAIN u = 1..(d + l)
      /\ DOMAIN q = 1..l
  BY LenProperties DEF AlignedWith
<1>1. \A i \in 1..l : q[i].key = u[d + i] /\ d + i \in 1..(d + l)
  BY <1>0 DEF AlignedWith
<1> HIDE DEF d, l
<1>2. \A i, j \in DOMAIN q : q[i] = q[j] => i = j
  <2> SUFFICES ASSUME NEW i \in 1..l, NEW j \in 1..l, q[i] = q[j] PROVE i = j
    BY <1>0
  <2>1. d + i = d + j
    BY <1>0, <1>1 DEF Once
  <2> QED
    BY <1>0, <2>1
<1>3. /\ r = Append(Without(q, n), q[n]) /\ r \in Seq(Entry) /\ Len(r) = l
      /\ \A i \in 1..(l - 1) : r[i] = IF i < n THEN q[i] ELSE q[i + 1]
      /\ r[l] = q[n]
  BY <1>2, LastMoves DEF l
<1> DEFINE p == d + n
<1>4. p \in DOMAIN u /\ u[p] = q[n].key
  BY <1>0, <1>1
<1> HIDE DEF p
<1>5. /\ v \in Seq(Keys) /\ Len(v) = Len(u)
      /\ \A i \in 1..(Len(u) - 1) : v[i] = IF i < p THEN u[i] ELSE u[i + 1]
      /\ v[Len(u)] = q[n].key
  BY <1>4, LastMoves DEF Once
<1> HIDE DEF r, v
<1>6. \A i \in 1..l : r[i].key = v[d + i]
  <2> SUFFICES ASSUME NEW i \in 1..l PROVE r[i].key = v[d + i]
    OBVIOUS
  <2>1. CASE i = l
    BY <1>0, <1>3, <1>5, <2>1
  <2>2. CASE i # l
    <3>1. /\ i \in 1..(l - 1) /\ i + 1 \in 1..l /\ d + i \in 1..(Len(u) - 1)
          /\ (d + i) + 1 = d + (i + 1) /\ (i < n <=> d + i < p)
      BY <1>0, <2>2 DEF p
    <3> QED
      BY <1>1, <1>3, <1>5, <3>1
  <2> QED
    BY <2>1, <2>2
<1>7. AlignedWith(r, v)
  <2>1. Len(v) - Len(r) = d /\ Len(r) <= Len(v)
    BY <1>0, <1>3, <1>5
  <2> QED
    BY <1>3, <1>6, <2>1 DEF AlignedWith
<1>8. Weight(r) = Weight(q)
  <2> DEFINE w == Without(q, n)
  <2>1. w \in Seq(Entry) /\ Weight(w) \in Int /\ n \in 1..Len(q)
    BY <1>0, WithoutFacts, WeightInt DEF l
  <2>2. q[n] \in Entry /\ q[n].size \in Nat
    BY <1>0, EntryFields, ElementOfSeq
  <2>3. Weight(q) = q[n].size + Weight(w)
    BY <2>1, WeightWithout
  <2> HIDE DEF w
  <2>4. Weight(Append(w, q[n])) = Weight(w) + q[n].size
    BY <2>1, <2>2, WeightAppend
  <2> QED
    BY <1>3, <2>1, <2>2, <2>3, <2>4 DEF w
<1> QED
  BY <1>3, <1>7, <1>8 DEF r, v, l

\* A key that is not in the cache is used, and its entry joins the others.
LEMMA AlignedMiss ==
  ASSUME NEW q \in Seq(Entry), NEW u \in Seq(Keys), Once(u), AlignedWith(q, u),
         NEW e \in Entry, \A n \in DOMAIN q : q[n].key # e.key
  PROVE  AlignedWith(Append(q, e), Last(u, e.key))
<1> DEFINE l == Len(q)
           d == Len(u) - l
           x == e.key
           r == Append(q, e)
           v == Last(u, x)
<1>0. /\ l \in Nat /\ Len(u) \in Nat /\ d \in Nat /\ d + l = Len(u) /\ DOMAIN u = 1..(d + l)
      /\ DOMAIN q = 1..l /\ x \in Keys
  BY LenProperties, EntryFields DEF AlignedWith
<1>1. \A i \in 1..l : q[i].key = u[d + i] /\ d + i \in 1..(d + l)
  BY <1>0 DEF AlignedWith
<1>2. \A i \in 1..l : u[d + i] # x
  BY <1>0, <1>1
<1>3. /\ r \in Seq(Entry) /\ Len(r) = l + 1 /\ \A i \in 1..l : r[i] = q[i]
      /\ r[l + 1] = e
  BY AppendProperties
<1> HIDE DEF l, d, x, r
<1>4. CASE \E n \in DOMAIN u : u[n] = x
  <2>1. PICK p \in DOMAIN u : u[p] = x
    BY <1>4
  <2>2. /\ v \in Seq(Keys) /\ Len(v) = Len(u)
        /\ \A i \in 1..(Len(u) - 1) : v[i] = IF i < p THEN u[i] ELSE u[i + 1]
        /\ v[Len(u)] = x
    BY <2>1, LastMoves DEF Once
  <2> HIDE DEF v
  <2>3. p \in 1..d
    <3>1. ~(p > d)
      <4>1. p > d => p - d \in 1..l /\ d + (p - d) = p
        BY <1>0, <2>1
      <4> QED
        BY <1>2, <2>1, <4>1
    <3> QED
      BY <1>0, <2>1, <3>1
  <2>4. \A i \in 1..(l + 1) : r[i].key = v[(d - 1) + i]
    <3> SUFFICES ASSUME NEW i \in 1..(l + 1) PROVE r[i].key = v[(d - 1) + i]
      OBVIOUS
    <3>1. CASE i = l + 1
      BY <1>0, <1>3, <2>2, <2>3, <3>1 DEF x
    <3>2. CASE i # l + 1
      <4>1. /\ i \in 1..l /\ (d - 1) + i \in 1..(Len(u) - 1) /\ ~((d - 1) + i < p)
            /\ ((d - 1) + i) + 1 = d + i
        BY <1>0, <2>3, <3>2
      <4> QED
        BY <1>1, <1>3, <2>2, <4>1
    <3> QED
      BY <3>1, <3>2
  <2>5. Len(v) - Len(r) = d - 1 /\ Len(r) <= Len(v)
    BY <1>0, <1>3, <2>2, <2>3
  <2> QED
    BY <1>3, <2>4, <2>5 DEF AlignedWith, v, r, x
<1>5. CASE ~\E n \in DOMAIN u : u[n] = x
  <2>1. /\ v \in Seq(Keys) /\ Len(v) = Len(u) + 1 /\ \A i \in 1..Len(u) : v[i] = u[i]
        /\ v[Len(u) + 1] = x
    <3>1. v = Append(u, x)
      BY <1>0, <1>5, LastJoins
    <3> QED
      BY <1>0, <3>1, AppendProperties
  <2> HIDE DEF v
  <2>2. \A i \in 1..(l + 1) : r[i].key = v[d + i]
    <3> SUFFICES ASSUME NEW i \in 1..(l + 1) PROVE r[i].key = v[d + i]
      OBVIOUS
    <3>1. CASE i = l + 1
      <4>1. d + i = Len(u) + 1
        BY <1>0, <3>1
      <4> QED
        BY <1>3, <2>1, <3>1, <4>1 DEF x
    <3>2. CASE i # l + 1
      <4>1. i \in 1..l /\ d + i \in 1..Len(u)
        BY <1>0, <3>2
      <4> QED
        BY <1>1, <1>3, <2>1, <4>1
    <3> QED
      BY <3>1, <3>2
  <2>3. Len(v) - Len(r) = d /\ Len(r) <= Len(v)
    BY <1>0, <1>3, <2>1
  <2> QED
    BY <1>3, <2>2, <2>3 DEF AlignedWith, v, r, x
<1> QED
  BY <1>4, <1>5
-----------------------------------------------------------------------------
(* What trimming does.                                                     *)

\* The oldest n entries, and the others.
LEMMA Split ==
  ASSUME NEW S, NEW q \in Seq(S), NEW n \in 0..Len(q)
  PROVE  /\ SubSeq(q, 1, n) \in Seq(S) /\ Len(SubSeq(q, 1, n)) = n
         /\ \A i \in 1..n : SubSeq(q, 1, n)[i] = q[i]
         /\ SubSeq(q, n + 1, Len(q)) \in Seq(S) /\ Len(SubSeq(q, n + 1, Len(q))) = Len(q) - n
         /\ \A i \in 1..(Len(q) - n) : SubSeq(q, n + 1, Len(q))[i] = q[n + i]
<1> DEFINE m == n + 1
           l == Len(q)
<1>0. n \in Nat /\ l \in Nat /\ n <= l /\ m \in Int
  OBVIOUS
<1>1. \A i \in 1..l : q[i] \in S
  BY ElementOfSeq
<1>2. (\A i \in 1..n : q[i] \in S) /\ (\A i \in m..l : q[i] \in S)
  BY <1>0, <1>1
<1>3. l - m + 1 = l - n /\ (\A i \in 1..(l - n) : m + i - 1 = n + i)
      /\ (IF m <= l THEN l - m + 1 = l - n ELSE 0 = l - n)
  BY <1>0
<1>4. n - 1 + 1 = n /\ (\A i \in 1..n : 1 + i - 1 = i)
      /\ (IF 1 <= n THEN n - 1 + 1 = n ELSE 0 = n)
  BY <1>0
<1> HIDE DEF m, l
<1>5. /\ SubSeq(q, 1, n) \in Seq(S)
      /\ Len(SubSeq(q, 1, n)) = IF 1 <= n THEN n - 1 + 1 ELSE 0
      /\ \A i \in 1..(n - 1 + 1) : SubSeq(q, 1, n)[i] = q[1 + i - 1]
  BY <1>0, <1>2, SubSeqProperties
<1>6. /\ SubSeq(q, m, l) \in Seq(S)
      /\ Len(SubSeq(q, m, l)) = IF m <= l THEN l - m + 1 ELSE 0
      /\ \A i \in 1..(l - m + 1) : SubSeq(q, m, l)[i] = q[m + i - 1]
  BY <1>0, <1>2, SubSeqProperties
<1>7. Len(SubSeq(q, 1, n)) = n /\ \A i \in 1..n : SubSeq(q, 1, n)[i] = q[i]
  BY <1>4, <1>5
<1>8. Len(SubSeq(q, m, l)) = l - n /\ \A i \in 1..(l - n) : SubSeq(q, m, l)[i] = q[n + i]
  BY <1>3, <1>6
<1> QED
  BY <1>5, <1>6, <1>7, <1>8 DEF m, l

LEMMA SplitWeighs ==
  ASSUME NEW q \in Seq(Entry), NEW n \in 0..Len(q)
  PROVE  Weight(q) = Weight(SubSeq(q, 1, n)) + Weight(SubSeq(q, n + 1, Len(q)))
<1> DEFINE a == SubSeq(q, 1, n)
           b == SubSeq(q, n + 1, Len(q))
<1>1. /\ a \in Seq(Entry) /\ Len(a) = n /\ \A i \in 1..n : a[i] = q[i]
      /\ b \in Seq(Entry) /\ Len(b) = Len(q) - n /\ \A i \in 1..(Len(q) - n) : b[i] = q[n + i]
  BY Split
<1> HIDE DEF a, b
<1>2. Len(q) = Len(a) + Len(b)
  BY <1>1
<1>3. (\A i \in 1..Len(a) : a[i] = q[i]) /\ (\A i \in 1..Len(b) : b[i] = q[Len(a) + i])
  BY <1>1
<1>4. Weight(q) = Weight(a) + Weight(b)
  BY <1>1, <1>2, <1>3, WeightOfTwo
<1> QED
  BY <1>4 DEF a, b

LEMMA SplitAligned ==
  ASSUME NEW q \in Seq(Entry), NEW u \in Seq(Keys), AlignedWith(q, u), NEW n \in 0..Len(q)
  PROVE  AlignedWith(SubSeq(q, n + 1, Len(q)), u)
<1> DEFINE b == SubSeq(q, n + 1, Len(q))
<1>1. Len(b) = Len(q) - n /\ \A i \in 1..(Len(q) - n) : b[i] = q[n + i]
  BY Split
<1> HIDE DEF b
<1>0. n \in Nat /\ n <= Len(q) /\ Len(q) \in Nat /\ Len(u) \in Nat /\ Len(q) <= Len(u)
  BY DEF AlignedWith
<1>2. \A i \in 1..(Len(q) - n) :
        n + i \in 1..Len(q) /\ Len(u) - Len(q) + (n + i) = Len(u) - Len(b) + i
  BY <1>0, <1>1
<1>3. \A i \in 1..(Len(q) - n) : b[i].key = u[Len(u) - Len(b) + i]
  BY <1>1, <1>2 DEF AlignedWith
<1>4. Len(b) <= Len(u)
  BY <1>0, <1>1
<1> QED
  BY <1>1, <1>3, <1>4 DEF AlignedWith, b

\* When the youngest entry alone meets the limits, it is kept.
LEMMA TrimKeeps ==
  ASSUME NEW q \in Seq(Entry), NEW e \in Entry, Fits(e.size),
         Trim(Append(q, e), Weight(q) + e.size)
  PROVE  \E n \in 0..Len(q) :
           /\ items' = SubSeq(Append(q, e), n + 1, Len(Append(q, e)))
           /\ Len(Append(q, e)) - n <= MaxEntries
           /\ bytes' = Weight(items') /\ bytes' <= MaxBytes
<1> DEFINE r == Append(q, e)
           total == Weight(q) + e.size
           l == Len(q)
           Ends(n) == n = Len(r) \/ Trimmed(r, total, n)
           T == {n \in 0..Len(r) : Ends(n)}
<1>0. /\ r \in Seq(Entry) /\ Len(r) = l + 1 /\ l \in Nat /\ \A i \in 1..l : r[i] = q[i]
      /\ Weight(q) \in Int /\ e.size \in Nat
  BY AppendProperties, WeightInt, EntryFields
<1>1. Weight(r) = total
  BY WeightAppend
<1>2. SubSeq(r, 1, l) = q
  <2> DEFINE a == SubSeq(r, 1, l)
  <2>1. l \in 0..Len(r)
    BY <1>0
  <2> HIDE DEF r
  <2>2. a \in Seq(Entry) /\ Len(a) = l /\ \A i \in 1..l : a[i] = r[i]
    BY <1>0, <2>1, Split
  <2> HIDE DEF a
  <2>3. \A i \in 1..Len(a) : a[i] = q[i]
    BY <1>0, <2>2
  <2>4. a = q
    BY <2>2, <2>3, SeqEqual
  <2> QED
    BY <2>4 DEF a
<1>3. Trimmed(r, total, l)
  <2>1. Len(r) - l <= MaxEntries /\ total - Weight(q) <= MaxBytes
    BY <1>0, CacheAssumption DEF Fits, Enabled
  <2> QED
    BY <1>2, <2>1 DEF Trimmed
<1>4. PICK n \in 0..Len(r) :
        /\ n = Len(r) \/ Trimmed(r, total, n)
        /\ \A m \in 0..(n - 1) : ~Trimmed(r, total, m)
        /\ items' = SubSeq(r, n + 1, Len(r)) /\ bytes' = total - Weight(SubSeq(r, 1, n))
  <2>1. l \in T /\ T \in SUBSET Nat
    BY <1>0, <1>3
  <2>2. PICK n \in T : \A m \in T : n <= m
    BY <2>1, LeastNat
  <2> HIDE DEF r, total
  <2>3. \A m \in 0..(n - 1) : m \in 0..Len(r) /\ ~(n <= m)
    <3>1. n \in 0..Len(r) /\ Len(r) \in Nat
      BY <1>0, <2>2
    <3> QED
      BY <3>1
  <2>4. \A m \in 0..(n - 1) : ~Trimmed(r, total, m)
    BY <2>2, <2>3
  <2>5. n \in 0..Len(r) /\ (n = Len(r) \/ Trimmed(r, total, n))
    BY <2>2
  <2> DEFINE Stops(k) == /\ k = Len(r) \/ Trimmed(r, total, k)
                         /\ \A m \in 0..(k - 1) : ~Trimmed(r, total, m)
             c == CHOOSE k \in 0..Len(r) : Stops(k)
  <2>6. c \in 0..Len(r) /\ Stops(c)
    BY <2>4, <2>5
  <2>7. items' = SubSeq(r, c + 1, Len(r)) /\ bytes' = total - Weight(SubSeq(r, 1, c))
    BY DEF Trim, r, total
  <2> HIDE DEF c
  <2> QED
    BY <2>6, <2>7
<1> HIDE DEF r, total
<1>5. n \in 0..l
  <2>1. n = l + 1 => l \in 0..(n - 1)
    BY <1>0
  <2>2. n # l + 1
    BY <1>3, <1>4, <2>1
  <2> QED
    BY <1>0, <2>2
<1>6. Trimmed(r, total, n)
  BY <1>0, <1>4, <1>5
<1>7. bytes' = Weight(items')
  <2> DEFINE a == SubSeq(r, 1, n)
             b == SubSeq(r, n + 1, Len(r))
  <2>1. Weight(r) = Weight(a) + Weight(b)
    BY <1>0, SplitWeighs
  <2>2. Weight(a) \in Int /\ Weight(b) \in Int
    BY <1>0, Split, WeightInt
  <2>3. items' = b /\ bytes' = total - Weight(a)
    BY <1>4
  <2> HIDE DEF a, b
  <2>4. total - Weight(a) = Weight(b)
    BY <1>1, <2>1, <2>2
  <2>5. Weight(items') = Weight(b)
    BY <2>3
  <2> QED
    BY <2>3, <2>4, <2>5
<1>8. Len(r) - n <= MaxEntries /\ bytes' <= MaxBytes
  BY <1>4, <1>6 DEF Trimmed
<1> QED
  BY <1>4, <1>5, <1>7, <1>8 DEF r
-----------------------------------------------------------------------------
(* The inductive invariant of the cache.                                   *)

\* No key has two places in the history, and the entries are its end.
Aligned == Once(used) /\ AlignedWith(items, used)

\* What waits to be stored may be stored.
WorthKeeping == \A c \in Callers : lookup[c].at = "built" => Fits(lookup[c].size)

Limits ==
  /\ Len(items) <= MaxEntries
  /\ used # <<>> => items # <<>>

CacheInv == CacheTypeOK /\ Aligned /\ WorthKeeping /\ BytesExact /\ Limits

LEMMA LookupFacts ==
  /\ NoLookup \in Lookups /\ NoLookup.at = "idle"
  /\ \A k \in Keys : LET b == [at |-> "building", key |-> k] IN b \in Lookups /\ b.at = "building"
  /\ \A k \in Keys, z \in Sizes :
       LET b == [at |-> "built", key |-> k, size |-> z] IN b \in Lookups /\ b.at = "built" /\ b.size = z
  /\ \A b \in Lookups : /\ b.at = "building" => b.key \in Keys
                        /\ b.at = "built" => b.key \in Keys /\ b.size \in Sizes
                        /\ b # NoLookup => b.at # "idle"
BY DEF Lookups, NoLookup

\* The keys of the entries differ because those of the history do.
LEMMA KeysDiffer ==
  ASSUME NEW q \in Seq(Entry), NEW u \in Seq(Keys), Once(u), AlignedWith(q, u)
  PROVE  \A m, n \in DOMAIN q : q[m].key = q[n].key => m = n
<1> DEFINE l == Len(q)
           d == Len(u) - l
<1>0. l \in Nat /\ Len(u) \in Nat /\ d \in Nat /\ d + l = Len(u) /\ DOMAIN u = 1..(d + l) /\ DOMAIN q = 1..l
  BY LenProperties DEF AlignedWith
<1>1. \A i \in 1..l : q[i].key = u[d + i] /\ d + i \in 1..(d + l)
  BY <1>0 DEF AlignedWith
<1> HIDE DEF l, d
<1>2. \A m, n \in 1..l : q[m].key = q[n].key => d + m = d + n
  BY <1>0, <1>1 DEF Once
<1> QED
  BY <1>0, <1>2

LEMMA CacheInitially == CacheInit => CacheInv
<1> SUFFICES ASSUME CacheInit PROVE CacheInv
  OBVIOUS
<1>1. CacheTypeOK
  BY LookupFacts DEF CacheTypeOK, CacheInit
<1>2. Aligned
  BY DEF Aligned, Once, AlignedWith, CacheInit
<1>3. WorthKeeping
  BY LookupFacts DEF WorthKeeping, CacheInit
<1>4. BytesExact /\ Limits
  BY WeightOfNone, CacheAssumption DEF BytesExact, Limits, CacheInit
<1> QED
  BY <1>1, <1>2, <1>3, <1>4 DEF CacheInv

\* The conjuncts that do not look at lookup, after a hit.
LEMMA HitKeeps ==
  ASSUME CacheInv, NEW k \in Keys, Cached(k), Hit(k), UNCHANGED bytes,
         lookup' \in [Callers -> Lookups], WorthKeeping'
  PROVE  CacheInv'
<1> DEFINE n == CHOOSE n \in DOMAIN items : items[n].key = k
<1>1. /\ items \in Seq(Entry) /\ used \in Seq(Keys) /\ Once(used) /\ AlignedWith(items, used)
      /\ bytes \in Int
  BY DEF CacheInv, CacheTypeOK, Aligned
<1>2. n \in DOMAIN items /\ items[n].key = k
  BY DEF Cached
<1>3. items' = Last(items, items[n]) /\ used' = Last(used, items[n].key)
  BY <1>2 DEF Hit
<1> HIDE DEF n
<1>4. /\ items' \in Seq(Entry) /\ Len(items') = Len(items)
      /\ AlignedWith(items', used') /\ Weight(items') = Weight(items)
  BY <1>1, <1>2, <1>3, AlignedHit
<1>5. used' \in Seq(Keys) /\ Once(used')
  BY <1>1, <1>2, <1>3, LastOnce
<1>6. CacheTypeOK'
  BY <1>1, <1>4, <1>5, KeysDiffer DEF CacheTypeOK
<1>7. BytesExact'
  BY <1>4 DEF CacheInv, BytesExact
<1>8. Limits'
  <2>1. Len(items') # 0
    BY <1>1, <1>2, <1>4
  <2> QED
    BY <1>4, <2>1 DEF CacheInv, Limits
<1> QED
  BY <1>4, <1>5, <1>6, <1>7, <1>8 DEF CacheInv, Aligned

\* And after a value is stored.
LEMMA StoreKeeps ==
  ASSUME CacheInv, NEW e \in Entry, ~Cached(e.key), Fits(e.size),
         Trim(Append(items, e), bytes + e.size), used' = Last(used, e.key),
         lookup' \in [Callers -> Lookups], WorthKeeping'
  PROVE  CacheInv'
<1> DEFINE r == Append(items, e)
<1>1. /\ items \in Seq(Entry) /\ used \in Seq(Keys) /\ Once(used) /\ AlignedWith(items, used)
      /\ bytes = Weight(items)
  BY DEF CacheInv, CacheTypeOK, Aligned, BytesExact
<1>2. \A n \in DOMAIN items : items[n].key # e.key
  BY DEF Cached
<1>3. AlignedWith(r, used')
  BY <1>1, <1>2, AlignedMiss
<1>4. used' \in Seq(Keys) /\ Once(used')
  BY <1>1, EntryFields, LastOnce
<1>5. r \in Seq(Entry) /\ Len(r) = Len(items) + 1 /\ Len(items) \in Nat
  BY <1>1
<1>6. PICK n \in 0..Len(items) :
        /\ items' = SubSeq(r, n + 1, Len(r))
        /\ Len(r) - n <= MaxEntries
        /\ bytes' = Weight(items') /\ bytes' <= MaxBytes
  BY <1>1, TrimKeeps
<1> HIDE DEF r
<1>7. n \in 0..Len(r)
  BY <1>5
<1>8. items' \in Seq(Entry) /\ Len(items') = Len(r) - n
  BY <1>5, <1>6, <1>7, Split
<1>9. AlignedWith(items', used')
  BY <1>3, <1>4, <1>5, <1>6, <1>7, SplitAligned
<1>10. CacheTypeOK'
  <2>1. \A i, j \in DOMAIN items' : items'[i].key = items'[j].key => i = j
    BY <1>4, <1>8, <1>9, KeysDiffer
  <2>2. bytes' \in Int
    BY <1>6, <1>8, WeightInt
  <2> QED
    BY <1>4, <1>8, <2>1, <2>2 DEF CacheTypeOK
<1>11. Limits'
  <2>1. Len(items') <= MaxEntries /\ Len(items') # 0
    BY <1>5, <1>6, <1>8
  <2>2. Len(<<>>) = 0
    OBVIOUS
  <2> QED
    BY <2>1, <2>2 DEF Limits
<1> QED
  BY <1>4, <1>6, <1>9, <1>10, <1>11 DEF CacheInv, Aligned, BytesExact

\* And when the entries, and their uses, stay as they are.
LEMMA LookupKeeps ==
  ASSUME CacheInv, UNCHANGED <<items, bytes, used>>,
         lookup' \in [Callers -> Lookups], WorthKeeping'
  PROVE  CacheInv'
BY DEF CacheInv, CacheTypeOK, Aligned, Once, AlignedWith, BytesExact, Limits

LEMMA GetKeeps ==
  ASSUME CacheInv, NEW c \in Callers, NEW k \in Keys, Get(c, k)
  PROVE  CacheInv'
<1>0. lookup \in [Callers -> Lookups] /\ WorthKeeping
  BY DEF CacheInv, CacheTypeOK
<1>1. CASE Cached(k)
  <2>1. UNCHANGED lookup /\ Hit(k) /\ UNCHANGED bytes
    BY <1>1 DEF Get
  <2>2. WorthKeeping'
    BY <1>0, <2>1 DEF WorthKeeping, Fits, Enabled
  <2> QED
    BY <1>0, <1>1, <2>1, <2>2, HitKeeps
<1>2. CASE ~Cached(k)
  <2> DEFINE b == [at |-> "building", key |-> k]
  <2>1. lookup' = [lookup EXCEPT ![c] = b] /\ UNCHANGED <<items, used, bytes>>
    BY <1>2 DEF Get
  <2>2. b \in Lookups /\ b.at = "building"
    BY LookupFacts
  <2> HIDE DEF b
  <2>3. lookup' \in [Callers -> Lookups]
    BY <1>0, <2>1, <2>2
  <2>4. WorthKeeping'
    BY <1>0, <2>1, <2>2 DEF WorthKeeping, Fits, Enabled
  <2> QED
    BY <2>1, <2>3, <2>4, LookupKeeps
<1> QED
  BY <1>1, <1>2

LEMMA BuildFailsKeeps ==
  ASSUME CacheInv, NEW c \in Callers, BuildFails(c)
  PROVE  CacheInv'
<1>0. lookup \in [Callers -> Lookups] /\ WorthKeeping
  BY DEF CacheInv, CacheTypeOK
<1>1. lookup' = [lookup EXCEPT ![c] = NoLookup] /\ UNCHANGED <<items, bytes, used>>
  BY DEF BuildFails
<1>2. lookup' \in [Callers -> Lookups]
  BY <1>0, <1>1, LookupFacts
<1>3. WorthKeeping'
  BY <1>0, <1>1, LookupFacts DEF WorthKeeping, Fits, Enabled
<1> QED
  BY <1>1, <1>2, <1>3, LookupKeeps

LEMMA BuildKeeps ==
  ASSUME CacheInv, NEW c \in Callers, Build(c)
  PROVE  CacheInv'
<1>0. lookup \in [Callers -> Lookups] /\ WorthKeeping
  BY DEF CacheInv, CacheTypeOK
<1>1. lookup[c].at = "building" /\ lookup[c].key \in Keys
  BY <1>0, LookupFacts DEF Build
<1>2. UNCHANGED <<items, bytes, used>>
  BY DEF Build
<1>3. PICK z \in Sizes :
        lookup' = [lookup EXCEPT ![c] =
          IF Fits(z) THEN [at |-> "built", key |-> lookup[c].key, size |-> z] ELSE NoLookup]
  BY DEF Build
<1> DEFINE b == IF Fits(z) THEN [at |-> "built", key |-> lookup[c].key, size |-> z] ELSE NoLookup
<1>4. b \in Lookups /\ (b.at = "built" => Fits(b.size))
  BY <1>1, LookupFacts
<1>5. lookup' = [lookup EXCEPT ![c] = b]
  BY <1>3
<1> HIDE DEF b
<1>6. lookup' \in [Callers -> Lookups]
  BY <1>0, <1>4, <1>5
<1>7. WorthKeeping'
  BY <1>0, <1>4, <1>5 DEF WorthKeeping, Fits, Enabled
<1> QED
  BY <1>2, <1>6, <1>7, LookupKeeps

LEMMA StoreKeepsAll ==
  ASSUME CacheInv, NEW c \in Callers, Store(c)
  PROVE  CacheInv'
<1> DEFINE new == [key |-> lookup[c].key, size |-> lookup[c].size]
<1>0. lookup \in [Callers -> Lookups] /\ WorthKeeping
  BY DEF CacheInv, CacheTypeOK
<1>1. lookup[c].at = "built" /\ lookup' = [lookup EXCEPT ![c] = NoLookup]
  BY DEF Store
<1>2. lookup[c].key \in Keys /\ lookup[c].size \in Sizes /\ Fits(lookup[c].size)
  BY <1>0, <1>1, LookupFacts DEF WorthKeeping
<1>3. new \in Entry /\ new.key \in Keys /\ Fits(new.size)
  BY <1>2 DEF Entry
<1>4. lookup' \in [Callers -> Lookups]
  BY <1>0, <1>1, LookupFacts
<1>5. WorthKeeping'
  BY <1>0, <1>1, LookupFacts DEF WorthKeeping, Fits, Enabled
<1>6. IF Cached(new.key)
      THEN Hit(new.key) /\ UNCHANGED bytes
      ELSE Trim(Append(items, new), bytes + new.size) /\ used' = Last(used, new.key)
  BY DEF Store
<1> HIDE DEF new
<1>7. CASE Cached(new.key)
  BY <1>3, <1>4, <1>5, <1>6, <1>7, HitKeeps
<1>8. CASE ~Cached(new.key)
  BY <1>3, <1>4, <1>5, <1>6, <1>8, StoreKeeps
<1> QED
  BY <1>7, <1>8

\* A caller's step keeps the cache as it should be; it changes no other lookup.
LEMMA RequestKeeps ==
  ASSUME CacheInv, NEW c \in Callers, Request(c)
  PROVE  CacheInv' /\ \A d \in Callers \ {c} : lookup'[d] = lookup[d]
<1>1. lookup \in [Callers -> Lookups]
  BY DEF CacheInv, CacheTypeOK
<1>2. CASE \E k \in Keys : Get(c, k)
  BY <1>1, <1>2, GetKeeps DEF Get
<1>3. CASE BuildFails(c)
  BY <1>1, <1>3, BuildFailsKeeps DEF BuildFails
<1>4. CASE Build(c)
  BY <1>1, <1>4, BuildKeeps DEF Build
<1>5. CASE Store(c)
  BY <1>1, <1>5, StoreKeepsAll DEF Store
<1> QED
  BY <1>2, <1>3, <1>4, <1>5 DEF Request
-----------------------------------------------------------------------------
(* The warmer.                                                             *)

WarmerInv == CacheInv /\ WarmerTypeOK

LEMMA WarmerInitially == Init => WarmerInv
<1> SUFFICES ASSUME Init PROVE WarmerInv
  OBVIOUS
<1>1. CacheInv
  BY CacheInitially DEF Init
<1>2. lookup[Warmer] = NoLookup
  BY WarmerAssumption DEF Init, CacheInit
<1> QED
  BY <1>1, <1>2 DEF WarmerInv, WarmerTypeOK, Init

LEMMA WarmerStuttering ==
  ASSUME WarmerInv, UNCHANGED vars
  PROVE  WarmerInv'
<1>1. CacheInv'
  <2>1. lookup' \in [Callers -> Lookups] /\ WorthKeeping'
    BY DEF WarmerInv, CacheInv, CacheTypeOK, WorthKeeping, Fits, Enabled, vars, cacheVars
  <2> QED
    BY <2>1, LookupKeeps DEF WarmerInv, vars, cacheVars
<1> QED
  BY <1>1 DEF WarmerInv, WarmerTypeOK, vars, cacheVars, watch

\* What leaves the cache alone keeps it.
LEMMA CacheUnchanged ==
  ASSUME CacheInv, UNCHANGED cacheVars
  PROVE  CacheInv'
<1>1. lookup' \in [Callers -> Lookups] /\ WorthKeeping'
  BY DEF CacheInv, CacheTypeOK, WorthKeeping, Fits, Enabled, cacheVars
<1> QED
  BY <1>1, LookupKeeps DEF cacheVars

LEMMA TargetIsKey ==
  ASSUME WarmerTypeOK, Conditioning
  PROVE  target \in Signatures /\ target \in Keys
BY WarmerAssumption DEF WarmerTypeOK, Conditioning

\* What the warmer knows when its own lookup goes on.
LEMMA ConditioningKeeps ==
  ASSUME WarmerInv, Conditioning, CacheInv',
         \/ Conditioned /\ lookup'[Warmer] = NoLookup
         \/ GivesUp /\ lookup'[Warmer] = NoLookup
         \/ UNCHANGED <<saved, phase, target, watch, warm>> /\ lookup'[Warmer].key = target
  PROVE  WarmerInv'
<1>1. CASE Conditioned /\ lookup'[Warmer] = NoLookup
  BY <1>1, TargetIsKey DEF WarmerInv, WarmerTypeOK, Conditioned, Conditioning
<1>2. CASE GivesUp /\ lookup'[Warmer] = NoLookup
  BY <1>2 DEF WarmerInv, WarmerTypeOK, GivesUp, watch
<1>3. CASE UNCHANGED <<saved, phase, target, watch, warm>> /\ lookup'[Warmer].key = target
  BY <1>3 DEF WarmerInv, WarmerTypeOK, Conditioning, watch
<1> QED
  BY <1>1, <1>2, <1>3

LEMMA WarmerStep ==
  ASSUME WarmerInv, Next
  PROVE  WarmerInv'
<1>0. /\ CacheInv /\ WarmerTypeOK /\ Warmer \in Callers /\ lookup \in [Callers -> Lookups]
  BY WarmerAssumption DEF WarmerInv, CacheInv, CacheTypeOK
<1>1. CASE \E x \in Signatures \cup {None} : Save(x)
  <2>1. CacheInv'
    BY <1>0, <1>1, CacheUnchanged DEF Save
  <2> QED
    BY <1>0, <1>1, <2>1 DEF Save, WarmerInv, WarmerTypeOK, watch, cacheVars
<1>2. CASE \E c \in Callers \ {Warmer} : Serve(c)
  <2>1. PICK c \in Callers \ {Warmer} : Serve(c)
    BY <1>2
  <2>2. CacheInv' /\ lookup'[Warmer] = lookup[Warmer]
    BY <1>0, <2>1, RequestKeeps DEF Serve
  <2> QED
    BY <1>0, <2>1, <2>2 DEF Serve, WarmerInv, WarmerTypeOK, watch
<1>3. CASE Startup \/ Poll \/ Settle
  <2>1. UNCHANGED cacheVars
    BY <1>3 DEF Startup, Poll, Settle, ResolveAtStartup, StartWatch, PollUnchanged, PollDetects,
                PollCleared, PollWarms
  <2>2. CacheInv'
    BY <1>0, <2>1, CacheUnchanged
  <2>3. WarmerTypeOK'
    <3>1. CASE Startup
      BY <1>0, <2>1, <3>1 DEF Startup, ResolveAtStartup, StartWatch, WarmerTypeOK, watch, cacheVars
    <3>2. CASE Poll
      BY <1>0, <2>1, <3>2 DEF Poll, PollUnchanged, PollDetects, PollCleared, PollWarms, WarmerTypeOK,
                              watch, cacheVars
    <3>3. CASE Settle
      BY <1>0, <2>1, <3>3 DEF Settle, WarmerTypeOK, cacheVars
    <3> QED
      BY <1>3, <3>1, <3>2, <3>3
  <2> QED
    BY <2>2, <2>3 DEF WarmerInv
<1>4. CASE WarmLook
  <2>1. CacheInv'
    BY <1>0, <1>4, TargetIsKey, GetKeeps DEF WarmLook
  <2>2. CASE Cached(target)
    <3>1. Conditioned /\ lookup'[Warmer] = NoLookup
      BY <1>4, <2>2 DEF WarmLook, Get
    <3> QED
      BY <1>4, <2>1, <3>1, ConditioningKeeps DEF WarmLook
  <2>3. CASE ~Cached(target)
    <3>1. UNCHANGED <<saved, phase, target, watch, warm>> /\ lookup'[Warmer].key = target
      BY <1>0, <1>4, <2>3 DEF WarmLook, Get
    <3> QED
      BY <1>4, <2>1, <3>1, ConditioningKeeps DEF WarmLook
  <2> QED
    BY <2>2, <2>3
<1>5. CASE WarmBuild
  <2>1. CacheInv' /\ Conditioning
    BY <1>0, <1>5, BuildKeeps DEF WarmBuild
  <2>2. CASE lookup'[Warmer] = NoLookup
    BY <1>5, <2>1, <2>2, ConditioningKeeps DEF WarmBuild
  <2>3. CASE lookup'[Warmer] # NoLookup
    <3>1. UNCHANGED <<saved, phase, target, watch, warm>>
      BY <1>5, <2>3 DEF WarmBuild
    <3>2. lookup[Warmer].key = target
      BY <1>0, <1>5, LookupFacts DEF WarmBuild, Build, WarmerTypeOK
    <3>3. lookup'[Warmer].key = lookup[Warmer].key
      <4>1. PICK z \in Sizes :
              lookup' = [lookup EXCEPT ![Warmer] =
                IF Fits(z) THEN [at |-> "built", key |-> lookup[Warmer].key, size |-> z] ELSE NoLookup]
        BY <1>5 DEF WarmBuild, Build
      <4>2. Fits(z) /\ lookup'[Warmer] = [at |-> "built", key |-> lookup[Warmer].key, size |-> z]
        BY <1>0, <2>3, <4>1
      <4> QED
        BY <4>2
    <3> QED
      BY <2>1, <3>1, <3>2, <3>3, ConditioningKeeps
  <2> QED
    BY <2>2, <2>3
<1>6. CASE WarmStore
  <2>1. CacheInv' /\ Conditioning /\ Conditioned
    BY <1>0, <1>6, StoreKeepsAll DEF WarmStore
  <2>2. lookup'[Warmer] = NoLookup
    BY <1>0, <1>6 DEF WarmStore, Store
  <2> QED
    BY <2>1, <2>2, ConditioningKeeps
<1>7. CASE WarmFails
  <2>1. Conditioning /\ GivesUp
    BY <1>7 DEF WarmFails
  <2>2. CASE BuildFails(Warmer)
    <3>1. CacheInv' /\ lookup'[Warmer] = NoLookup
      BY <1>0, <2>2, BuildFailsKeeps DEF BuildFails
    <3> QED
      BY <2>1, <3>1, ConditioningKeeps
  <2>3. CASE lookup[Warmer] = NoLookup /\ UNCHANGED cacheVars
    <3>1. CacheInv' /\ lookup'[Warmer] = NoLookup
      BY <1>0, <2>3, CacheUnchanged DEF cacheVars
    <3> QED
      BY <2>1, <3>1, ConditioningKeeps
  <2> QED
    BY <1>7, <2>2, <2>3 DEF WarmFails
<1> QED
  BY <1>1, <1>2, <1>3, <1>4, <1>5, <1>6, <1>7 DEF Next, Warm
-----------------------------------------------------------------------------
(* The theorems.                                                           *)

\* In every reachable state the cache and the warmer meet the invariant the
\* properties below are read from (get_or_create, _trim, poll_once, lifespan).
THEOREM WarmerInvariant == Spec => []WarmerInv
<1>1. Init => WarmerInv
  BY WarmerInitially
<1>2. WarmerInv /\ [Next]_vars => WarmerInv'
  BY WarmerStep, WarmerStuttering
<1> QED
  BY <1>1, <1>2, PTL DEF Spec

\* The cache's variables have their types and no key has two entries, whatever
\* callers race to build it.
THEOREM CacheTypeCorrect == Spec => []CacheTypeOK
<1>1. WarmerInv => CacheTypeOK
  BY DEF WarmerInv, CacheInv
<1> QED
  BY <1>1, WarmerInvariant, PTL

\* What is being conditioned is a saved voice, and the warmer's lookup is for it.
THEOREM WarmerTypeCorrect == Spec => []WarmerTypeOK
<1>1. WarmerInv => WarmerTypeOK
  BY DEF WarmerInv
<1> QED
  BY <1>1, WarmerInvariant, PTL

\* The byte counter that get_or_create and _trim keep is the sum of the sizes
\* of the entries, and within its limit.
THEOREM BytesAreExact == Spec => []BytesExact
<1>1. WarmerInv => BytesExact
  BY DEF WarmerInv, CacheInv
<1> QED
  BY <1>1, WarmerInvariant, PTL

\* The entries are the keys used last, in the order of their use, no more than
\* the limit, and a value just stored is among them.
THEOREM EvictsLeastRecentlyUsed == Spec => []LeastRecentlyUsed
<1>1. WarmerInv => LeastRecentlyUsed
  <2> SUFFICES ASSUME WarmerInv PROVE LeastRecentlyUsed
    OBVIOUS
  <2>1. items \in Seq(Entry) /\ used \in Seq(Keys) /\ AlignedWith(items, used) /\ Limits
    BY DEF WarmerInv, CacheInv, CacheTypeOK, Aligned
  <2> DEFINE l == Len(items)
             n == Len(used) - l
             tail == SubSeq(used, n + 1, Len(used))
             keys == KeysOf(items)
  <2>2. l \in Nat /\ Len(used) \in Nat /\ n \in 0..Len(used) /\ Len(used) - n = l
    BY <2>1 DEF AlignedWith
  <2>3. \A i \in 1..l : items[i].key = used[n + i]
    BY <2>1 DEF AlignedWith
  <2>4. \A i \in 1..l : items[i].key \in Keys
    BY <2>1, EntryFields, ElementOfSeq
  <2>5. keys \in Seq(Keys) /\ Len(keys) = l /\ \A i \in 1..l : keys[i] = items[i].key
    BY <2>1, <2>2, <2>4 DEF KeysOf
  <2> HIDE DEF l, n, keys
  <2>6. tail \in Seq(Keys) /\ Len(tail) = l /\ \A i \in 1..l : tail[i] = used[n + i]
    BY <2>1, <2>2, Split
  <2> HIDE DEF tail
  <2>7. \A i \in 1..Len(keys) : keys[i] = tail[i]
    BY <2>3, <2>5, <2>6
  <2>8. keys = tail
    BY <2>5, <2>6, <2>7, SeqEqual
  <2> QED
    BY <2>1, <2>8 DEF LeastRecentlyUsed, Limits, l, n, keys, tail
<1> QED
  BY <1>1, WarmerInvariant, PTL
=============================================================================
