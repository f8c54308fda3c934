---------------------------- MODULE ListsProofs ----------------------------
(***************************************************************************)
(* Lemmas about lists, by induction over their length. The induction is    *)
(* one over a set of numbers that contains 0 and with every number the     *)
(* next: that such a set contains all numbers follows from the fact that   *)
(* every set of numbers has a least element.                               *)
(***************************************************************************)
EXTENDS Lists, TLAPS, WellFoundedInduction, SequenceTheorems

\* Every set of natural numbers that is not empty has a least element.
LEMMA LeastNumber ==
    ASSUME NEW S, S \subseteq Nat, S # {}
    PROVE  \E n \in S : \A m \in S : n <= m
<1> DEFINE R == {ss \in Nat \X Nat : ss[1] < ss[2]}
<1>1. \A x, y \in Nat : x < y => <<x, y>> \in R
  OBVIOUS
<1>2. IsWellFoundedOn(R, Nat)
  BY NatLessThanWellFounded DEF OpToRel
<1> HIDE DEF R
<1>3. PICK x \in S : \A y \in S : ~ (<<y, x>> \in R)
  BY <1>2, WFMin
<1>4. ASSUME NEW y \in S
      PROVE  x <= y
  <2>1. x \in Nat /\ y \in Nat
    OBVIOUS
  <2>2. ~ (y < x)
    BY <1>1, <1>3, <2>1
  <2>3. QED
    BY <2>1, <2>2
<1>5. QED
  BY <1>4

\* Induction up to N.
LEMMA Induction ==
    ASSUME NEW N \in Nat, NEW S, 0 \in S,
           \A n \in 0 .. N : n # N /\ n \in S => n + 1 \in S
    PROVE  \A n \in 0 .. N : n \in S
<1> DEFINE Out == {n \in 0 .. N : n \notin S}
<1>1. SUFFICES ASSUME Out # {}
               PROVE  FALSE
  OBVIOUS
<1>2. Out \subseteq Nat
  OBVIOUS
<1>3. PICK n \in Out : \A m \in Out : n <= m
  <2> HIDE DEF Out
  <2>1. QED
    BY <1>1, <1>2, LeastNumber
<1>4. n \in 1 .. N /\ n - 1 \in 0 .. N /\ n - 1 # N
  OBVIOUS
<1>5. n - 1 \in S
  <2>1. n - 1 \notin Out
    BY <1>3, <1>4
  <2>2. QED
    BY <1>4, <2>1
<1>6. (n - 1) + 1 \in S
  BY <1>4, <1>5
<1>7. QED
  BY <1>4, <1>6
-----------------------------------------------------------------------------
\* The function that Part is defined by exists, and does what its definition says.
LEMMA PartRecursion ==
    ASSUME NEW E, NEW list \in Seq(E), NEW K
    PROVE  \E h : /\ Part(list, K) = h[Len(list)]
                 /\ \A n \in 0 .. Len(list) :
                      h[n] = IF n = 0 THEN <<>>
                             ELSE IF n \in K THEN Append(h[n - 1], list[n]) ELSE h[n - 1]
<1>1. PICK N \in Nat : N = Len(list) /\ DOMAIN list = 1 .. N
  BY LenProperties
<1> DEFINE Step(f, n) == IF n = 0 THEN <<>>
                         ELSE IF n \in K THEN Append(f[n - 1], list[n]) ELSE f[n - 1]
           Fcn(n, f) == f = [m \in 0 .. n |-> Step(f, m)]
           Defined == {n \in 0 .. N : \E f : Fcn(n, f)}
<1>2. 0 \in Defined
  <2>1. Fcn(0, [m \in 0 .. 0 |-> <<>>])
    OBVIOUS
  <2>2. \E f : Fcn(0, f)
    <3> HIDE DEF Fcn
    <3>1. QED
      BY <2>1
  <2>3. QED
    BY <2>2
<1>3. ASSUME NEW n \in 0 .. N, n # N, n \in Defined
      PROVE  n + 1 \in Defined
  <2>1. PICK f : Fcn(n, f)
    BY <1>3
  <2> DEFINE g == [m \in 0 .. n + 1 |-> IF m = n + 1 THEN Step(f, m) ELSE f[m]]
  <2>2. ASSUME NEW m \in 0 .. n + 1
        PROVE  g[m] = Step(g, m)
    <3>1. CASE m = n + 1
      <4>1. g[m - 1] = f[m - 1]
        BY <1>1, <3>1
      <4>2. g[m] = Step(f, m)
        BY <3>1
      <4>3. QED
        BY <4>1, <4>2
    <3>2. CASE m # n + 1
      <4>1. m \in 0 .. n /\ g[m] = f[m]
        BY <1>1, <3>2
      <4>2. f[m] = Step(f, m)
        BY <2>1, <4>1
      <4>3. m # 0 => g[m - 1] = f[m - 1]
        BY <1>1, <3>2
      <4>4. QED
        BY <4>1, <4>2, <4>3
    <3>3. QED
      BY <3>1, <3>2
  <2>3. Fcn(n + 1, g)
    BY <2>2
  <2>4. QED
    BY <1>1, <1>3, <2>3
<1>4. N \in Defined
  <2> HIDE DEF Defined
  <2>1. \A n \in 0 .. N : n \in Defined
    BY <1>1, <1>2, <1>3, Induction
  <2>2. QED
    BY <1>1, <2>1
<1> DEFINE h == CHOOSE f : Fcn(N, f)
<1>5. Fcn(N, h)
  BY <1>4
<1>6. Part(list, K) = h[N]
  BY <1>1 DEF Part
<1> HIDE DEF h
<1>7. \A n \in 0 .. N : h[n] = Step(h, n)
  BY <1>5
<1>8. QED
  BY <1>1, <1>6, <1>7

\* The part of a list at the positions in K consists of the elements at these
\* positions: no others, and all of them.
LEMMA PartLemma ==
    ASSUME NEW E, NEW list \in Seq(E), NEW K
    PROVE  /\ Part(list, K) \in Seq({list[k] : k \in K \cap DOMAIN list})
           /\ \A k \in K \cap DOMAIN list :
                \E n \in DOMAIN Part(list, K) : Part(list, K)[n] = list[k]
<1>1. PICK N \in Nat : N = Len(list) /\ DOMAIN list = 1 .. N
  BY LenProperties
<1> DEFINE X == {list[k] : k \in K \cap DOMAIN list}
           Step(f, n) == IF n = 0 THEN <<>>
                         ELSE IF n \in K THEN Append(f[n - 1], list[n]) ELSE f[n - 1]
<1>6. PICK h : Part(list, K) = h[N] /\ \A n \in 0 .. N : h[n] = Step(h, n)
  BY <1>1, PartRecursion
<1>7. \A n \in 0 .. N : h[n] = Step(h, n)
  BY <1>6
<1> DEFINE Good(n) == /\ h[n] \in Seq(X)
                      /\ \A k \in K \cap (1 .. n) : \E m \in DOMAIN h[n] : h[n][m] = list[k]
           Proved == {n \in 0 .. N : Good(n)}
<1>8. 0 \in Proved
  <2>1. h[0] = <<>> /\ 0 \in 0 .. N
    BY <1>1, <1>7
  <2>2. <<>> \in Seq(X) /\ K \cap (1 .. 0) = {}
    <3> HIDE DEF X
    <3>1. QED
      OBVIOUS
  <2>3. QED
    BY <2>1, <2>2
<1>9. ASSUME NEW n \in 0 .. N, n # N, n \in Proved
      PROVE  n + 1 \in Proved
  <2>1. n + 1 \in 1 .. N /\ (n + 1) - 1 = n
    <3> HIDE DEF Proved
    <3>1. QED
      BY <1>1, <1>9
  <2>2. h[n + 1] = IF n + 1 \in K THEN Append(h[n], list[n + 1]) ELSE h[n]
    BY <1>7, <2>1
  <2>3. Good(n)
    BY <1>9
  <2>4. CASE n + 1 \notin K
    <3>1. h[n + 1] = h[n] /\ K \cap (1 .. n + 1) = K \cap (1 .. n)
      BY <2>2, <2>4, <2>1
    <3>2. QED
      BY <2>1, <2>3, <3>1
  <2>5. CASE n + 1 \in K
    <3>1. list[n + 1] \in X /\ h[n + 1] = Append(h[n], list[n + 1])
      BY <1>1, <2>1, <2>2, <2>5
    <3> HIDE DEF X
    <3> DEFINE last == Len(h[n]) + 1
    <3>2. /\ h[n] \in Seq(X)
          /\ h[n + 1] \in Seq(X)
          /\ DOMAIN h[n + 1] = 1 .. last /\ DOMAIN h[n] = 1 .. Len(h[n])
          /\ h[n + 1][last] = list[n + 1]
          /\ \A m \in 1 .. Len(h[n]) : h[n + 1][m] = h[n][m]
      BY <2>3, <3>1
    <3>3. ASSUME NEW k \in K \cap (1 .. n + 1)
          PROVE  \E m \in DOMAIN h[n + 1] : h[n + 1][m] = list[k]
      <4>1. CASE k = n + 1
        <5>1. last \in DOMAIN h[n + 1] /\ h[n + 1][last] = list[k]
          <6>1. Len(h[n]) \in Nat
            BY <3>2, LenProperties
          <6>2. last \in 1 .. last
            BY <6>1
          <6>3. QED
            BY <3>2, <4>1, <6>2
        <5> HIDE DEF last
        <5>2. QED
          BY <5>1
      <4>2. CASE k # n + 1
        <5>1. k \in K \cap (1 .. n)
          BY <2>1, <4>2
        <5>2. PICK m \in DOMAIN h[n] : h[n][m] = list[k]
          BY <2>3, <5>1
        <5>3. m \in DOMAIN h[n + 1] /\ h[n + 1][m] = list[k]
          BY <3>2, <5>2
        <5>4. QED
          BY <5>3
      <4>3. QED
        BY <4>1, <4>2
    <3>4. QED
      BY <2>1, <3>2, <3>3
  <2>6. QED
    BY <2>4, <2>5
<1>10. N \in Proved
  <2> HIDE DEF Proved
  <2>1. \A n \in 0 .. N : n \in Proved
    BY <1>1, <1>8, <1>9, Induction
  <2>2. QED
    BY <1>1, <2>1
<1>11. QED
  BY <1>1, <1>6, <1>10

\* The part of a list without repetitions has none either.
LEMMA PartIsInjective ==
    ASSUME NEW E, NEW list \in Seq(E), NEW K,
           \A i, j \in DOMAIN list : list[i] = list[j] => i = j
    PROVE  \A a, b \in DOMAIN Part(list, K) : Part(list, K)[a] = Part(list, K)[b] => a = b
<1>1. PICK N \in Nat : N = Len(list) /\ DOMAIN list = 1 .. N
  BY LenProperties
<1> DEFINE X(n) == {list[k] : k \in 1 .. n}
           Step(f, n) == IF n = 0 THEN <<>>
                         ELSE IF n \in K THEN Append(f[n - 1], list[n]) ELSE f[n - 1]
<1>2. PICK h : Part(list, K) = h[N] /\ \A n \in 0 .. N : h[n] = Step(h, n)
  BY <1>1, PartRecursion
<1> DEFINE Good(n) == /\ h[n] \in Seq(X(n))
                      /\ \A a, b \in DOMAIN h[n] : h[n][a] = h[n][b] => a = b
           Proved == {n \in 0 .. N : Good(n)}
<1>3. 0 \in Proved
  <2>1. h[0] = <<>> /\ 0 \in 0 .. N
    BY <1>1, <1>2
  <2>2. <<>> \in Seq(X(0)) /\ DOMAIN <<>> = {}
    <3> HIDE DEF X
    <3>1. QED
      OBVIOUS
  <2>3. QED
    BY <2>1, <2>2
<1>4. ASSUME NEW n \in 0 .. N, n # N, n \in Proved
      PROVE  n + 1 \in Proved
  <2>1. n + 1 \in 1 .. N /\ (n + 1) - 1 = n /\ n + 1 \in 0 .. N
    <3> HIDE DEF Proved
    <3>1. QED
      BY <1>1, <1>4
  <2>2. h[n + 1] = IF n + 1 \in K THEN Append(h[n], list[n + 1]) ELSE h[n]
    BY <1>2, <2>1
  <2>3. Good(n)
    BY <1>4
  <2>4. X(n) \subseteq X(n + 1) /\ list[n + 1] \in X(n + 1) /\ list[n + 1] \notin X(n)
    BY <1>1, <2>1
  <2> HIDE DEF X
  <2>5. h[n] \in Seq(X(n + 1))
    BY <2>3, <2>4
  <2>6. CASE n + 1 \notin K
    BY <2>1, <2>2, <2>3, <2>5, <2>6
  <2>7. CASE n + 1 \in K
    <3> DEFINE last == Len(h[n]) + 1
    <3>1. /\ h[n + 1] \in Seq(X(n + 1))
          /\ DOMAIN h[n + 1] = 1 .. last /\ DOMAIN h[n] = 1 .. Len(h[n]) /\ Len(h[n]) \in Nat
          /\ h[n + 1][last] = list[n + 1]
          /\ \A m \in 1 .. Len(h[n]) : h[n + 1][m] = h[n][m] /\ h[n][m] \in X(n)
      BY <2>2, <2>3, <2>4, <2>5, <2>7
    <3> DEFINE old == h[n]
               new == h[n + 1]
    <3>2. PICK l \in Nat : l = Len(old)
      BY <3>1
    <3>3. /\ DOMAIN new = 1 .. l + 1 /\ DOMAIN old = 1 .. l
          /\ new[l + 1] = list[n + 1]
          /\ \A m \in 1 .. l : new[m] = old[m] /\ old[m] \in X(n)
          /\ \A a, b \in DOMAIN old : old[a] = old[b] => a = b
      BY <2>3, <3>1, <3>2
    <3> HIDE DEF old, new
    <3>4. ASSUME NEW a \in DOMAIN new, NEW b \in DOMAIN new, new[a] = new[b]
          PROVE  a = b
      <4>1. a \in 1 .. l + 1 /\ b \in 1 .. l + 1
        BY <3>3
      <4>2. \A m \in 1 .. l : new[m] # new[l + 1]
        BY <2>4, <3>3
      <4>3. CASE a = l + 1 \/ b = l + 1
        BY <3>4, <4>1, <4>2, <4>3
      <4>4. CASE a # l + 1 /\ b # l + 1
        <5>1. a \in 1 .. l /\ b \in 1 .. l
          BY <4>1, <4>4
        <5>2. QED
          BY <3>3, <3>4, <5>1
      <4>5. QED
        BY <4>3, <4>4
    <3>5. QED
      BY <2>1, <3>1, <3>4 DEF new
  <2>8. QED
    BY <2>6, <2>7
<1>5. N \in Proved
  <2> HIDE DEF Proved
  <2>1. \A n \in 0 .. N : n \in Proved
    BY <1>1, <1>3, <1>4, Induction
  <2>2. QED
    BY <1>1, <2>1
<1>6. QED
  BY <1>2, <1>5

\* The elements of a part follow one another as they do in the list.
Follows(list, x, y) == \E k, l \in DOMAIN list : k < l /\ x = list[k] /\ y = list[l]

LEMMA PartInOrder ==
    ASSUME NEW E, NEW list \in Seq(E), NEW K
    PROVE  \A i, j \in DOMAIN Part(list, K) :
             i < j => Follows(list, Part(list, K)[i], Part(list, K)[j])
<1>1. PICK N \in Nat : N = Len(list) /\ DOMAIN list = 1 .. N
  BY LenProperties
<1> DEFINE X(n) == {list[k] : k \in 1 .. n}
           Step(f, n) == IF n = 0 THEN <<>>
                         ELSE IF n \in K THEN Append(f[n - 1], list[n]) ELSE f[n - 1]
<1>2. PICK h : Part(list, K) = h[N] /\ \A n \in 0 .. N : h[n] = Step(h, n)
  BY <1>1, PartRecursion
<1> DEFINE Good(n) == /\ h[n] \in Seq(X(n))
                      /\ \A i, j \in DOMAIN h[n] : i < j => Follows(list, h[n][i], h[n][j])
           Proved == {n \in 0 .. N : Good(n)}
<1>3. 0 \in Proved
  <2>1. h[0] = <<>> /\ 0 \in 0 .. N
    BY <1>1, <1>2
  <2>2. <<>> \in Seq(X(0)) /\ DOMAIN <<>> = {}
    <3> HIDE DEF X
    <3>1. QED
      OBVIOUS
  <2>3. QED
    BY <2>1, <2>2
<1>4. ASSUME NEW n \in 0 .. N, n # N, n \in Proved
      PROVE  n + 1 \in Proved
  <2>1. n + 1 \in 1 .. N /\ (n + 1) - 1 = n /\ n + 1 \in 0 .. N
    <3> HIDE DEF Proved
    <3>1. QED
      BY <1>1, <1>4
  <2>2. h[n + 1] = IF n + 1 \in K THEN Append(h[n], list[n + 1]) ELSE h[n]
    BY <1>2, <2>1
  <2>3. Good(n)
    BY <1>4
  <2>4. X(n) \subseteq X(n + 1) /\ list[n + 1] \in X(n + 1)
    BY <1>1, <2>1
  <2>5. \A x \in X(n) : Follows(list, x, list[n + 1])
    <3>1. ASSUME NEW k \in 1 .. n
          PROVE  Follows(list, list[k], list[n + 1])
      <4>1. k \in DOMAIN list /\ n + 1 \in DOMAIN list /\ k < n + 1
        BY <1>1, <2>1
      <4>2. QED
        BY <4>1 DEF Follows
    <3>2. QED
      BY <3>1
  <2> HIDE DEF X
  <2>6. h[n] \in Seq(X(n + 1))
    BY <2>3, <2>4
  <2>7. CASE n + 1 \notin K
    BY <2>1, <2>2, <2>3, <2>6, <2>7
  <2>8. CASE n + 1 \in K
    <3> DEFINE last == Len(h[n]) + 1
    <3>1. /\ h[n + 1] \in Seq(X(n + 1))
          /\ DOMAIN h[n + 1] = 1 .. last /\ DOMAIN h[n] = 1 .. Len(h[n]) /\ Len(h[n]) \in Nat
          /\ h[n + 1][last] = list[n + 1]
          /\ \A m \in 1 .. Len(h[n]) : h[n + 1][m] = h[n][m] /\ h[n][m] \in X(n)
      BY <2>2, <2>3, <2>4, <2>6, <2>8
    <3> DEFINE old == h[n]
               new == h[n + 1]
    <3>2. PICK l \in Nat : l = Len(old)
      BY <3>1
    <3>3. /\ DOMAIN new = 1 .. l + 1 /\ DOMAIN old = 1 .. l
          /\ new[l + 1] = list[n + 1]
          /\ \A m \in 1 .. l : new[m] = old[m] /\ old[m] \in X(n)
          /\ \A i, j \in DOMAIN old : i < j => Follows(list, old[i], old[j])
      BY <2>3, <3>1, <3>2
    <3> HIDE DEF old, new
    <3>4. ASSUME NEW i \in DOMAIN new, NEW j \in DOMAIN new, i < j
          PROVE  Follows(list, new[i], new[j])
      <4>1. i \in 1 .. l /\ j \in 1 .. l + 1
        BY <3>3, <3>4
      <4>2. CASE j = l + 1
        BY <2>5, <3>3, <4>1, <4>2
      <4>3. CASE j # l + 1
        <5>1. j \in 1 .. l
          BY <4>1, <4>3
        <5>2. QED
          BY <3>3, <3>4, <4>1, <5>1
      <4>4. QED
        BY <4>2, <4>3
    <3>5. QED
      BY <2>1, <3>1, <3>4 DEF new
  <2>9. QED
    BY <2>7, <2>8
<1>5. N \in Proved
  <2> HIDE DEF Proved
  <2>1. \A n \in 0 .. N : n \in Proved
    BY <1>1, <1>3, <1>4, Induction
  <2>2. QED
    BY <1>1, <2>1
<1>6. QED
  BY <1>2, <1>5

\* The positions in K, as a list: each of them once.
LEMMA PositionsLemma ==
    ASSUME NEW n \in Nat, NEW K, K \subseteq 1 .. n
    PROVE  /\ Positions(n, K) \in Seq(K)
           /\ \A a, b \in DOMAIN Positions(n, K) :
                Positions(n, K)[a] = Positions(n, K)[b] => a = b
<1> DEFINE list == [k \in 1 .. n |-> k]
<1>1. list \in Seq(1 .. n) /\ DOMAIN list = 1 .. n
  OBVIOUS
<1>2. \A i, j \in DOMAIN list : list[i] = list[j] => i = j
  OBVIOUS
<1>3. {list[k] : k \in K \cap DOMAIN list} = K
  OBVIOUS
<1>4. Positions(n, K) = Part(list, K)
  BY DEF Positions
<1> HIDE DEF list
<1>5. Part(list, K) \in Seq({list[k] : k \in K \cap DOMAIN list})
  BY <1>1, PartLemma
<1>6. \A a, b \in DOMAIN Part(list, K) : Part(list, K)[a] = Part(list, K)[b] => a = b
  BY <1>1, <1>2, PartIsInjective
<1>7. QED
  BY <1>3, <1>4, <1>5, <1>6
-----------------------------------------------------------------------------
(* The sum of the values of the elements of a list.                        *)

\* The elements of the list have values that are natural numbers.
Valued(list, value) == \A n \in DOMAIN list : value[list[n]] \in Nat

\* A function of the positions that adds the values up.
Sums(h, list, value) ==
    /\ h \in [0 .. Len(list) -> Nat]
    /\ h[0] = 0
    /\ \A n \in 1 .. Len(list) : h[n] = h[n - 1] + value[list[n]]

\* The function that Total is defined by exists, and does what its definition says.
LEMMA TotalRecursion ==
    ASSUME NEW E, NEW list \in Seq(E), NEW value, Valued(list, value)
    PROVE  \E h : Sums(h, list, value) /\ Total(list, value) = h[Len(list)]
<1>1. PICK N \in Nat : N = Len(list) /\ DOMAIN list = 1 .. N
  BY LenProperties
<1> DEFINE Step(f, n) == IF n = 0 THEN 0 ELSE f[n - 1] + value[list[n]]
           Fcn(n, f) == f = [m \in 0 .. n |-> Step(f, m)]
           Defined == {n \in 0 .. N : \E f : Fcn(n, f)}
<1>2. 0 \in Defined
  <2>1. Fcn(0, [m \in 0 .. 0 |-> 0])
    OBVIOUS
  <2>2. \E f : Fcn(0, f)
    <3> HIDE DEF Fcn
    <3>1. QED
      BY <2>1
  <2>3. QED
    BY <2>2
<1>3. ASSUME NEW n \in 0 .. N, n # N, n \in Defined
      PROVE  n + 1 \in Defined
  <2>1. PICK f : Fcn(n, f)
    BY <1>3
  <2> DEFINE g == [m \in 0 .. n + 1 |-> IF m = n + 1 THEN Step(f, m) ELSE f[m]]
  <2>2. ASSUME NEW m \in 0 .. n + 1
        PROVE  g[m] = Step(g, m)
    <3>1. CASE m = n + 1
      <4>1. g[m - 1] = f[m - 1]
        BY <1>1, <3>1
      <4>2. g[m] = Step(f, m)
        BY <3>1
      <4>3. QED
        BY <4>1, <4>2
    <3>2. CASE m # n + 1
      <4>1. m \in 0 .. n /\ g[m] = f[m]
        BY <1>1, <3>2
      <4>2. f[m] = Step(f, m)
        BY <2>1, <4>1
      <4>3. m # 0 => g[m - 1] = f[m - 1]
        BY <1>1, <3>2
      <4>4. QED
        BY <4>1, <4>2, <4>3
    <3>3. QED
      BY <3>1, <3>2
  <2>3. Fcn(n + 1, g)
    BY <2>2
  <2> HIDE DEF g, Fcn
  <2>4. QED
    BY <1>1, <1>3, <2>3
<1>4. N \in Defined
  <2> HIDE DEF Defined
  <2>1. \A n \in 0 .. N : n \in Defined
    BY <1>1, <1>2, <1>3, Induction
  <2>2. QED
    BY <1>1, <2>1
<1> DEFINE h == CHOOSE f : Fcn(N, f)
<1>5. Fcn(N, h)
  BY <1>4
<1>6. Total(list, value) = h[N]
  BY <1>1 DEF Total
<1> HIDE DEF h
<1>7. h = [n \in 0 .. N |-> h[n]] /\ \A n \in 0 .. N : h[n] = Step(h, n)
  BY <1>5
<1>8. ASSUME NEW n \in 1 .. N
      PROVE  h[n] = h[n - 1] + value[list[n]] /\ value[list[n]] \in Nat
  <2>1. n \in 0 .. N /\ n # 0 /\ n \in DOMAIN list
    BY <1>1
  <2>2. h[n] = h[n - 1] + value[list[n]]
    BY <1>7, <2>1
  <2>3. QED
    BY <2>1, <2>2 DEF Valued
<1>9. h[0] = 0
  BY <1>1, <1>7
<1> DEFINE Numbers == {n \in 0 .. N : h[n] \in Nat}
<1>10. \A n \in 0 .. N : n \in Numbers
  <2>1. 0 \in Numbers
    BY <1>1, <1>9
  <2>2. ASSUME NEW n \in 0 .. N, n # N, n \in Numbers
        PROVE  n + 1 \in Numbers
    <3>1. n + 1 \in 1 .. N /\ n + 1 \in 0 .. N /\ (n + 1) - 1 = n
      BY <1>1, <2>2
    <3>2. h[n + 1] = h[n] + value[list[n + 1]] /\ value[list[n + 1]] \in Nat
      BY <1>8, <3>1
    <3>3. QED
      BY <2>2, <3>1, <3>2
  <2> HIDE DEF Numbers
  <2>3. QED
    BY <1>1, <2>1, <2>2, Induction
<1>11. h \in [0 .. N -> Nat]
  BY <1>7, <1>10
<1>12. Sums(h, list, value)
  BY <1>1, <1>8, <1>9, <1>11 DEF Sums
<1>13. QED
  BY <1>1, <1>6, <1>12

\* Any function that does what the definition says ends with the sum.
LEMMA TotalUnique ==
    ASSUME NEW E, NEW list \in Seq(E), NEW value, Valued(list, value),
           NEW g, g[0] = 0, \A n \in 1 .. Len(list) : g[n] = g[n - 1] + value[list[n]]
    PROVE  Total(list, value) = g[Len(list)]
<1>1. PICK N \in Nat : N = Len(list)
  BY LenProperties
<1>2. PICK h : Sums(h, list, value) /\ Total(list, value) = h[N]
  BY <1>1, TotalRecursion
<1> USE DEF Sums
<1> DEFINE S == {n \in 0 .. N : g[n] = h[n]}
<1>3. 0 \in S
  BY <1>1, <1>2
<1>4. ASSUME NEW n \in 0 .. N, n # N, n \in S
      PROVE  n + 1 \in S
  <2>1. n + 1 \in 1 .. N /\ n + 1 \in 0 .. N /\ (n + 1) - 1 = n
    BY <1>1, <1>4
  <2>2. g[n + 1] = g[n] + value[list[n + 1]] /\ h[n + 1] = h[n] + value[list[n + 1]]
    BY <1>1, <1>2, <2>1
  <2>3. QED
    BY <1>4, <2>1, <2>2
<1>5. \A n \in 0 .. N : n \in S
  <2> HIDE DEF S
  <2>1. QED
    BY <1>1, <1>3, <1>4, Induction
<1>6. QED
  BY <1>1, <1>2, <1>5

\* The sum is a natural number.
LEMMA TotalType ==
    ASSUME NEW E, NEW list \in Seq(E), NEW value, Valued(list, value)
    PROVE  Total(list, value) \in Nat
<1>1. Len(list) \in Nat
  BY LenProperties
<1>2. PICK h : Sums(h, list, value) /\ Total(list, value) = h[Len(list)]
  BY TotalRecursion
<1>3. QED
  BY <1>1, <1>2 DEF Sums

\* Only the values of the elements matter.
LEMMA TotalSame ==
    ASSUME NEW E, NEW list \in Seq(E), NEW value, NEW other, Valued(list, value),
           \A n \in DOMAIN list : value[list[n]] = other[list[n]]
    PROVE  Total(list, other) = Total(list, value)
<1>1. PICK N \in Nat : N = Len(list) /\ DOMAIN list = 1 .. N
  BY LenProperties
<1>2. Valued(list, other)
  BY DEF Valued
<1>3. PICK h : Sums(h, list, value) /\ Total(list, value) = h[N]
  BY <1>1, TotalRecursion
<1>4. h[0] = 0 /\ \A n \in 1 .. Len(list) : h[n] = h[n - 1] + other[list[n]]
  BY <1>1, <1>3 DEF Sums
<1>5. QED
  BY <1>1, <1>2, <1>3, <1>4, TotalUnique

LEMMA TotalZero ==
    ASSUME NEW E, NEW list \in Seq(E), NEW value, \A n \in DOMAIN list : value[list[n]] = 0
    PROVE  Total(list, value) = 0
<1>1. PICK N \in Nat : N = Len(list) /\ DOMAIN list = 1 .. N
  BY LenProperties
<1> DEFINE g == [n \in 0 .. N |-> 0]
<1>2. Valued(list, value)
  BY DEF Valued
<1>3. g[0] = 0 /\ g[N] = 0
  BY <1>1
<1>4. ASSUME NEW n \in 1 .. Len(list)
      PROVE  g[n] = g[n - 1] + value[list[n]]
  <2>1. n \in 0 .. N /\ n - 1 \in 0 .. N /\ value[list[n]] = 0
    BY <1>1
  <2>2. g[n] = 0 /\ g[n - 1] = 0
    BY <2>1
  <2> HIDE DEF g
  <2>3. QED
    BY <2>1, <2>2
<1> HIDE DEF g
<1>5. QED
  BY <1>1, <1>2, <1>3, <1>4, TotalUnique

\* The sum changes as the value of one of the elements does.
LEMMA TotalChanged ==
    ASSUME NEW E, NEW list \in Seq(E), NEW value, NEW other, NEW p \in DOMAIN list,
           Valued(list, value), Valued(list, other),
           \A n \in DOMAIN list : n # p => value[list[n]] = other[list[n]]
    PROVE  Total(list, other) = Total(list, value) + other[list[p]] - value[list[p]]
<1>1. PICK N \in Nat : N = Len(list) /\ DOMAIN list = 1 .. N /\ p \in 1 .. N
  BY LenProperties
<1>2. PICK h : Sums(h, list, value) /\ Total(list, value) = h[N]
  BY <1>1, TotalRecursion
<1> DEFINE d == other[list[p]] - value[list[p]]
           g == [n \in 0 .. N |-> IF n < p THEN h[n] ELSE h[n] + d]
<1>3. value[list[p]] \in Nat /\ other[list[p]] \in Nat
  BY DEF Valued
<1>4. d \in Int
  BY <1>3
<1>5. g[0] = 0 /\ g[N] = h[N] + d
  <2>1. h[0] = 0 /\ N \in 0 .. N /\ 0 \in 0 .. N
    BY <1>1, <1>2 DEF Sums
  <2>2. QED
    BY <1>1, <2>1
<1>6. ASSUME NEW n \in 1 .. Len(list)
      PROVE  g[n] = g[n - 1] + other[list[n]]
  <2>1. n \in 1 .. N /\ n \in 0 .. N /\ n - 1 \in 0 .. N
    BY <1>1
  <2>2. /\ h[n] = h[n - 1] + value[list[n]] /\ h[n] \in Nat /\ h[n - 1] \in Nat
        /\ value[list[n]] \in Nat /\ other[list[n]] \in Nat
    BY <1>1, <1>2, <2>1 DEF Valued, Sums
  <2>3. /\ g[n] = IF n < p THEN h[n] ELSE h[n] + d
        /\ g[n - 1] = IF n - 1 < p THEN h[n - 1] ELSE h[n - 1] + d
    BY <2>1
  <2>4. n # p => value[list[n]] = other[list[n]]
    BY <1>1, <2>1
  <2>5. n = p => d = other[list[n]] - value[list[n]]
    OBVIOUS
  <2> HIDE DEF g, d
  <2>6. CASE n < p
    BY <1>1, <2>1, <2>2, <2>3, <2>4, <2>6
  <2>7. CASE n = p
    BY <1>1, <2>1, <2>2, <2>3, <2>5, <2>7
  <2>8. CASE n > p
    BY <1>1, <1>4, <2>1, <2>2, <2>3, <2>4, <2>8
  <2>9. QED
    BY <1>1, <2>1, <2>6, <2>7, <2>8
<1> HIDE DEF g
<1>7. Total(list, other) = g[N]
  BY <1>1, <1>5, <1>6, TotalUnique
<1>8. h[N] \in Nat
  BY <1>1, <1>2 DEF Sums
<1>9. QED
  BY <1>2, <1>3, <1>5, <1>7, <1>8

\* The sum grows by no more than d if the value of one of the elements does, and
\* no other value grows.
LEMMA TotalGrows ==
    ASSUME NEW E, NEW list \in Seq(E), NEW value, NEW other, NEW p \in DOMAIN list, NEW d \in Int,
           Valued(list, value), Valued(list, other),
           \A n \in DOMAIN list :
             other[list[n]] <= value[list[n]] + (IF n = p THEN d ELSE 0)
    PROVE  Total(list, other) <= Total(list, value) + d
<1>1. PICK N \in Nat : N = Len(list) /\ DOMAIN list = 1 .. N /\ p \in 1 .. N
  BY LenProperties
<1>2. PICK g : Sums(g, list, value) /\ Total(list, value) = g[N]
  BY <1>1, TotalRecursion
<1>3. PICK h : Sums(h, list, other) /\ Total(list, other) = h[N]
  BY <1>1, TotalRecursion
<1> DEFINE S == {n \in 0 .. N : h[n] <= g[n] + (IF n < p THEN 0 ELSE d)}
<1>4. 0 \in S
  BY <1>1, <1>2, <1>3 DEF Sums
<1>5. ASSUME NEW n \in 0 .. N, n # N, n \in S
      PROVE  n + 1 \in S
  <2>1. n + 1 \in 1 .. N /\ n + 1 \in 0 .. N /\ (n + 1) - 1 = n /\ n \in Nat /\ p \in Nat
    <3> HIDE DEF S
    <3>1. QED
      BY <1>1, <1>5
  <2>2. h[n] <= g[n] + (IF n < p THEN 0 ELSE d)
    BY <1>5
  <2>3. /\ g[n + 1] = g[n] + value[list[n + 1]] /\ g[n] \in Nat /\ g[n + 1] \in Nat
        /\ h[n + 1] = h[n] + other[list[n + 1]] /\ h[n] \in Nat /\ h[n + 1] \in Nat
        /\ value[list[n + 1]] \in Nat /\ other[list[n + 1]] \in Nat
    BY <1>1, <1>2, <1>3, <1>5, <2>1 DEF Sums, Valued
  <2>4. other[list[n + 1]] <= value[list[n + 1]] + (IF n + 1 = p THEN d ELSE 0)
    BY <1>1, <2>1
  <2> HIDE DEF S
  <2>5. h[n + 1] <= g[n + 1] + (IF n + 1 < p THEN 0 ELSE d)
    <3>1. PICK a \in Nat, b \in Nat, u \in Nat, v \in Nat :
            a = g[n] /\ b = h[n] /\ u = value[list[n + 1]] /\ v = other[list[n + 1]]
      BY <2>3
    <3>2. /\ g[n + 1] = a + u /\ h[n + 1] = b + v
          /\ b <= a + (IF n < p THEN 0 ELSE d) /\ v <= u + (IF n + 1 = p THEN d ELSE 0)
      BY <2>2, <2>3, <2>4, <3>1
    <3>3. n < p <=> n + 1 < p \/ n + 1 = p
      BY <2>1
    <3>4. ~(n + 1 < p /\ n + 1 = p)
      BY <2>1
    <3>5. b + v <= a + u + (IF n + 1 < p THEN 0 ELSE d)
      <4>1. CASE n + 1 < p
        BY <3>2, <3>3, <3>4, <4>1
      <4>2. CASE ~(n + 1 < p)
        BY <3>2, <3>3, <4>2
      <4>3. QED
        BY <4>1, <4>2
    <3>6. QED
      BY <3>2, <3>5
  <2>6. QED
    BY <2>1, <2>5 DEF S
<1>6. \A n \in 0 .. N : n \in S
  <2> HIDE DEF S
  <2>1. QED
    BY <1>1, <1>4, <1>5, Induction
<1>7. h[N] <= g[N] + d
  BY <1>1, <1>6
<1>8. QED
  BY <1>2, <1>3, <1>7

\* Smaller values have a smaller sum.
LEMMA TotalOrdered ==
    ASSUME NEW E, NEW list \in Seq(E), NEW value, NEW other,
           Valued(list, value), Valued(list, other),
           \A n \in DOMAIN list : other[list[n]] <= value[list[n]]
    PROVE  Total(list, other) <= Total(list, value)
<1>1. CASE list = <<>>
  <2>1. DOMAIN list = {}
    BY <1>1
  <2>2. Total(list, other) = 0
    BY <2>1, TotalZero
  <2>3. Total(list, value) = 0
    BY <2>1, TotalZero
  <2>4. QED
    BY <2>2, <2>3
<1>2. CASE list # <<>>
  <2>1. PICK p : p \in DOMAIN list
    BY <1>2, LenProperties, EmptySeq
  <2>2. \A n \in DOMAIN list : other[list[n]] <= value[list[n]] + (IF n = p THEN 0 ELSE 0)
    BY DEF Valued
  <2>3. Total(list, other) <= Total(list, value) + 0
    BY <2>1, <2>2, TotalGrows
  <2>4. Total(list, value) \in Nat /\ Total(list, other) \in Nat
    BY TotalType
  <2>5. QED
    BY <2>3, <2>4
<1>3. QED
  BY <1>1, <1>2

\* One element more.
LEMMA TotalAppend ==
    ASSUME NEW E, NEW list \in Seq(E), NEW x \in E, NEW value, Valued(list, value),
           value[x] \in Nat
    PROVE  /\ Valued(Append(list, x), value)
           /\ Total(Append(list, x), value) = Total(list, value) + value[x]
<1> DEFINE more == Append(list, x)
<1>1. PICK N \in Nat : N = Len(list) /\ DOMAIN list = 1 .. N
  BY LenProperties
<1>2. /\ more \in Seq(E) /\ Len(more) = N + 1 /\ DOMAIN more = 1 .. N + 1
      /\ more[N + 1] = x /\ \A n \in 1 .. N : more[n] = list[n]
  BY <1>1, AppendProperties
<1> HIDE DEF more
<1>3. Valued(more, value)
  <2>1. \A n \in 1 .. N + 1 : n \in 1 .. N \/ n = N + 1
    BY <1>1
  <2>2. QED
    BY <1>1, <1>2, <2>1 DEF Valued
<1>4. PICK h : Sums(h, more, value) /\ Total(more, value) = h[N + 1]
  BY <1>2, <1>3, TotalRecursion
<1>5. \A n \in 1 .. Len(list) : h[n] = h[n - 1] + value[list[n]]
  <2>1. \A n \in 1 .. N : n \in 1 .. N + 1
    BY <1>1
  <2>2. QED
    BY <1>1, <1>2, <1>4, <2>1 DEF Sums
<1>6. Total(list, value) = h[N]
  <2>1. h[0] = 0
    BY <1>4 DEF Sums
  <2>2. QED
    BY <1>1, <1>5, <2>1, TotalUnique
<1>7. h[N + 1] = h[N] + value[x]
  <2>1. N + 1 \in 1 .. N + 1 /\ (N + 1) - 1 = N
    BY <1>1
  <2>2. QED
    BY <1>2, <1>4, <2>1 DEF Sums
<1>8. QED
  BY <1>3, <1>4, <1>6, <1>7 DEF more

\* A part of a list has a sum no larger than that of a larger part.
LEMMA TotalOfPart ==
    ASSUME NEW E, NEW list \in Seq(E), NEW K, NEW L, K \subseteq L, NEW value,
           \A k \in L \cap DOMAIN list : value[list[k]] \in Nat
    PROVE  Total(Part(list, K), value) <= Total(Part(list, L), value)
<1>1. PICK N \in Nat : N = Len(list) /\ DOMAIN list = 1 .. N
  BY LenProperties
<1>2. PICK f : /\ Part(list, K) = f[N]
               /\ \A n \in 0 .. N : f[n] = IF n = 0 THEN <<>>
                     ELSE IF n \in K THEN Append(f[n - 1], list[n]) ELSE f[n - 1]
  BY <1>1, PartRecursion
<1>3. PICK g : /\ Part(list, L) = g[N]
               /\ \A n \in 0 .. N : g[n] = IF n = 0 THEN <<>>
                     ELSE IF n \in L THEN Append(g[n - 1], list[n]) ELSE g[n - 1]
  BY <1>1, PartRecursion
<1> DEFINE Good(n) == /\ f[n] \in Seq(E) /\ g[n] \in Seq(E)
                      /\ Valued(f[n], value) /\ Valued(g[n], value)
                      /\ Total(f[n], value) <= Total(g[n], value)
           S == {n \in 0 .. N : Good(n)}
<1>4. 0 \in S
  <2>1. f[0] = <<>> /\ g[0] = <<>> /\ 0 \in 0 .. N
    BY <1>1, <1>2, <1>3
  <2>2. Valued(<<>>, value)
    BY DEF Valued
  <2>3. <<>> \in Seq(E)
    BY EmptySeq
  <2>4. Total(<<>>, value) \in Nat
    BY <2>2, <2>3, TotalType
  <2>5. Total(f[0], value) <= Total(g[0], value)
    BY <2>1, <2>4
  <2>6. Good(0)
    BY <2>1, <2>2, <2>3, <2>5
  <2> HIDE DEF Good
  <2>7. QED
    BY <2>1, <2>6
<1>5. ASSUME NEW n \in 0 .. N, n # N, n \in S
      PROVE  n + 1 \in S
  <2>1. n + 1 \in 1 .. N /\ n + 1 \in 0 .. N /\ (n + 1) - 1 = n /\ n + 1 # 0
    <3> HIDE DEF S
    <3>1. QED
      BY <1>1, <1>5
  <2>2. Good(n)
    BY <1>5
  <2> DEFINE x == list[n + 1]
  <2>3. /\ f[n + 1] = IF n + 1 \in K THEN Append(f[n], x) ELSE f[n]
        /\ g[n + 1] = IF n + 1 \in L THEN Append(g[n], x) ELSE g[n]
    BY <1>2, <1>3, <2>1
  <2>4. x \in E /\ (n + 1 \in L => value[x] \in Nat)
    BY <1>1, <2>1
  <2> HIDE DEF x
  <2>5. /\ Total(f[n], value) \in Nat /\ Total(g[n], value) \in Nat
        /\ Total(f[n], value) <= Total(g[n], value)
    BY <2>2, TotalType
  <2>6. n + 1 \in L =>
          /\ Append(f[n], x) \in Seq(E) /\ Append(g[n], x) \in Seq(E)
          /\ Valued(Append(f[n], x), value) /\ Valued(Append(g[n], x), value)
          /\ Total(Append(f[n], x), value) = Total(f[n], value) + value[x]
          /\ Total(Append(g[n], x), value) = Total(g[n], value) + value[x]
    BY <2>2, <2>4, TotalAppend
  <2>7. Good(n + 1)
    <3>1. CASE n + 1 \notin L
      BY <2>2, <2>3, <3>1
    <3>2. CASE n + 1 \in L /\ n + 1 \in K
      BY <2>3, <2>4, <2>5, <2>6, <3>2
    <3>3. CASE n + 1 \in L /\ n + 1 \notin K
      BY <2>2, <2>3, <2>4, <2>5, <2>6, <3>3
    <3>4. QED
      BY <3>1, <3>2, <3>3
  <2>8. QED
    BY <2>1, <2>7
<1>6. \A n \in 0 .. N : n \in S
  <2> HIDE DEF S
  <2>1. QED
    BY <1>1, <1>4, <1>5, Induction
<1>7. N \in S
  BY <1>1, <1>6
<1>8. QED
  BY <1>2, <1>3, <1>7
=============================================================================
